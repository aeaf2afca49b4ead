-------------------------- MODULE MCPasswordReset ---------------------------
(* Small instances of PasswordReset for TLC.                               *)
EXTENDS PasswordReset, TLC

Symmetric == Permutations(Asks) \cup Permutations(Resets)
=============================================================================
