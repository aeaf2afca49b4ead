----------------------------- MODULE MCExpense ------------------------------
(* Small instances of Expense for TLC.                                     *)
EXTENDS Expense, TLC

Symmetric ==
    Permutations(Creates) \cup Permutations(Repays) \cup Permutations(Deletes) \cup Permutations(Contents)
=============================================================================
