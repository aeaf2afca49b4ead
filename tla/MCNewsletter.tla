---------------------------- MODULE MCNewsletter ----------------------------
(* Small instances of Newsletter for TLC.                                  *)
EXTENDS Newsletter, TLC

Symmetric == Permutations(Members) \cup Permutations(Newsletters)
=============================================================================
