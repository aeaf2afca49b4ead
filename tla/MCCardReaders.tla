--------------------------- MODULE MCCardReaders ---------------------------
(* A small instance of CardReaders for TLC.                                *)
EXTENDS CardReaders, TLC

\* Bound on the initial rows: nobody lost a card before the first request.
InitFewRows == InitReaders /\ \A m \in Members : since[m] = OldDate => HasCard(m)
SpecFewRows == InitFewRows /\ [][NextReaders]_<<vars, readers>>

Symmetric == Permutations(Members) \cup Permutations(Pool) \cup Permutations(Requests)
=============================================================================
