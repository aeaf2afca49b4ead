--------------------------- MODULE MCRegistration ---------------------------
(* Small instances of Registration for TLC.                                *)
EXTENDS Registration, TLC

Symmetric ==
    Permutations(Signups) \cup Permutations(Signers) \cup Permutations(Legacy)
    \cup Permutations(Emails) \cup Permutations(Codes) \cup Permutations(Phones)
=============================================================================
