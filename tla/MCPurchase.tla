----------------------------- MODULE MCPurchase -----------------------------
(* Small instances of Purchase for TLC.                                    *)
EXTENDS Purchase, TLC

CONSTANTS i1, i2, n1

Of(i, q) == [item |-> i, quantity |-> q]
\* Two items, and a list that names an item twice.
MCCarts == {<<Of(i1, 2), Of(i2, 1)>>, <<Of(i2, 1), Of(i2, 2)>>}
\* One item has a name, the other the empty one.
MCNames == [i \in {i1, i2} |-> IF i = i1 THEN n1 ELSE Empty]
MCPrices == {-1, 2}
Symmetric == Permutations(Buys)
=============================================================================
