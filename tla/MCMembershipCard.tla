-------------------------- MODULE MCMembershipCard --------------------------
(* Small instances of MembershipCard for TLC.                              *)
EXTENDS MembershipCard, TLC

Symmetric == Permutations(Members) \cup Permutations(Pool) \cup Permutations(Requests)
=============================================================================
