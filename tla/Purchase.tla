------------------------------ MODULE Purchase ------------------------------
(***************************************************************************)
(* PurchaseService and ItemService: the cashier's purchases, their price,  *)
(* the receipt that goes to the printer over the socket, their deletion,   *)
(* and the report of what was sold.  One action is one awaited call and    *)
(* the code up to the next.  Amounts are whole numbers of cents: rounding  *)
(* of binary fractions is not modelled.                                    *)
(***************************************************************************)
EXTENDS Integers, Sequences, FiniteSets, FiniteSetsExt, Functions

CONSTANTS
    Buys,       \* requests to create a purchase, and the ids of the purchases
    Deletes,    \* requests to delete one
    Reports,    \* requests for the report
    Items,      \* ids of items
    InStore,    \* items that exist at the beginning
    Names,
    ItemName,   \* the name of each item, names being not unique and maybe empty
    Prices,     \* bound: the prices items are given
    Carts,      \* bound: the lists of lines customers buy
    Discounts,  \* bound: the discounts a request names, Omitted among them
    Amounts,    \* bound: the amounts a request names as given
    NoItem, Omitted, Nothing,
    Empty,      \* the empty string
    Unknown     \* 'Articolo Sconosciuto', which an item may be named as well

Line == [item : Items, quantity : Nat \ {0}]

ASSUME ItemsAssumption ==
    InStore \subseteq Items /\ ItemName \in [Items -> Names]
ASSUME AmountsAssumption ==
    /\ Prices \subseteq Int /\ NoItem \notin Int
    /\ Discounts \subseteq Int \cup {Omitted} /\ Omitted \notin Int /\ Amounts \subseteq Int
ASSUME CartsAssumption == Carts \subseteq Seq(Line) \ {<<>>}
ASSUME KindsAssumption == Buys \cap Deletes = {} /\ (Buys \cup Deletes) \cap Reports = {}

Methods == {"CASH", "CARD"}

VARIABLES
    price,      \* Item.price
    gone,       \* history: items deleted
    rows,       \* purchases that exist
    lines,      \* PurchasedItem rows of each purchase, in no order
    ask,        \* CreatePurchaseDto of each request
    found,      \* what each request read of the items
    bill,       \* the purchase each request was given by create
    receipt,    \* 'purchase-created' of each purchase
    seen,       \* purchases each report has read
    sheet,      \* "Articoli Venduti" of each report
    phase       \* where each request stands

vars == <<price, gone, rows, lines, ask, found, bill, receipt, seen, sheet, phase>>
stock == <<price, gone>>
sale == <<rows, lines, ask, found, bill, receipt>>
report == <<seen, sheet>>

Requests == Buys \cup Deletes \cup Reports
InFlight == {"found", "created", "purchasesRead"}
Ended == {"done", "failed", "dropped"}
Exists(i) == price[i] # NoItem
Bought(c) == {c[k].item : k \in DOMAIN c}

PriceList == UNION {[S -> Prices \cup {NoItem}] : S \in SUBSET Items}
Order == [lines : Seq(Line), discount : Int \cup {Omitted}, method : Methods, given : Int]
Row == [id : Buys, lines : SUBSET Line]
Bill == [lines : SUBSET Line, discount : Int, total : Int, method : Methods, given : Int]
Receipt == [lines : SUBSET [item : Items, price : Int, quantity : Nat \ {0}],
            discount : Int, total : Int, change : Int \cup {Nothing}]
SheetRow == [name : Names \cup {Unknown}, quantity : Nat]

ASSUME NothingAssumption == Nothing \notin Bill

\* The types.
TypeOK ==
    /\ price \in [Items -> Prices \cup {NoItem}]
    /\ gone \subseteq Items
    /\ rows \subseteq Buys
    /\ lines \in [Buys -> SUBSET Line]
    /\ ask \in [Buys -> Order \cup {Nothing}]
    /\ found \in [Buys -> PriceList \cup {Nothing}]
    /\ bill \in [Buys -> Bill \cup {Nothing}]
    /\ receipt \in [Buys -> Receipt \cup {Nothing}]
    /\ seen \in [Reports -> (SUBSET Row) \cup {Nothing}]
    /\ sheet \in [Reports -> (SUBSET SheetRow) \cup {Nothing}]
    /\ phase \in [Requests -> {"idle"} \cup InFlight \cup Ended]

Init ==
    /\ price \in [Items -> Prices \cup {NoItem}]
    /\ \A i \in Items : Exists(i) <=> i \in InStore
    /\ gone = {}
    /\ rows = {}
    /\ lines = [b \in Buys |-> {}]
    /\ ask = [b \in Buys |-> Nothing]
    /\ found = [b \in Buys |-> Nothing]
    /\ bill = [b \in Buys |-> Nothing]
    /\ receipt = [b \in Buys |-> Nothing]
    /\ seen = [r \in Reports |-> Nothing]
    /\ sheet = [r \in Reports |-> Nothing]
    /\ phase = [r \in Requests |-> "idle"]

Goto(r, p) == phase' = [phase EXCEPT ![r] = p]

-----------------------------------------------------------------------------
(* create.                                                                 *)

\* Without one of its items the sum throws.
FindItems(b) == \E c \in Carts, d \in Discounts, m \in Methods, g \in Amounts :
    /\ phase[b] = "idle"
    /\ m = "CASH" => g >= 0
    /\ ask' = [ask EXCEPT ![b] = [lines |-> c, discount |-> d, method |-> m, given |-> g]]
    /\ found' = [found EXCEPT ![b] = [i \in Bought(c) |-> price[i]]]
    /\ Goto(b, IF \A i \in Bought(c) : Exists(i) THEN "found" ELSE "failed")
    /\ UNCHANGED <<stock, rows, lines, bill, receipt, report>>

Sum(b) == SumFunction(
    [k \in DOMAIN ask[b].lines |-> found[b][ask[b].lines[k].item] * ask[b].lines[k].quantity])

\* Mutant: the discount is taken as it is.
Unbounded(b) == ask[b].discount
Discount(b) == IF ask[b].discount < Sum(b) THEN ask[b].discount ELSE Sum(b)

\* An amount of zero is none.
Given(b) ==
    IF ask[b].method = "CARD" /\ ask[b].given = 0 THEN Sum(b) - Discount(b) ELSE ask[b].given

\* Mutant: the lines have no key.
Duplicated(b) == ask[b].discount # Omitted /\ \A i \in Bought(ask[b].lines) : Exists(i)
\* Without a discount the amounts are NaN, which no column takes; an item has one
\* line in a purchase, and has to exist.
Insertable(b) ==
    /\ ask[b].discount # Omitted
    /\ \A k, l \in DOMAIN ask[b].lines : ask[b].lines[k].item = ask[b].lines[l].item => k = l
    /\ \A i \in Bought(ask[b].lines) : Exists(i)

\* The purchase and its lines are inserted together.
Create(b) ==
    /\ phase[b] = "found"
    /\ Insertable(b)
    /\ rows' = rows \cup {b}
    /\ lines' = [lines EXCEPT ![b] = Range(ask[b].lines)]
    /\ bill' = [bill EXCEPT ![b] =
        [lines |-> Range(ask[b].lines), discount |-> Discount(b), total |-> Sum(b) - Discount(b),
         method |-> ask[b].method, given |-> Given(b)]]
    /\ Goto(b, "created")
    /\ UNCHANGED <<stock, ask, found, receipt, report>>

CreateFails(b) ==
    /\ phase[b] = "found"
    /\ Goto(b, "failed")
    /\ UNCHANGED <<stock, sale, report>>

\* Mutant: the receipt shows the prices of the moment.
PriceNow(b, l) == IF Exists(l.item) THEN price[l.item] ELSE found[b][l.item]
\* The prices the sum was made of.
PriceShown(b, l) == found[b][l.item]

Shown(b, l) == [item |-> l.item, price |-> PriceShown(b, l), quantity |-> l.quantity]

\* emitPurchaseCreated, and the answer.
Emit(b) ==
    /\ phase[b] = "created"
    /\ receipt' = [receipt EXCEPT ![b] =
        [lines |-> {Shown(b, l) : l \in bill[b].lines},
         discount |-> bill[b].discount,
         total |-> bill[b].total,
         change |-> IF bill[b].method = "CASH" THEN bill[b].given - bill[b].total ELSE Nothing]]
    /\ Goto(b, "done")
    /\ UNCHANGED <<stock, rows, lines, ask, found, bill, report>>

-----------------------------------------------------------------------------
(* delete, and generatePurchaseReport.                                     *)

\* The lines go with the purchase (onDelete: Cascade).
Delete(d) == \E b \in Buys :
    /\ phase[d] = "idle"
    /\ \/ b \in rows /\ rows' = rows \ {b} /\ Goto(d, "done")
       \/ UNCHANGED rows /\ Goto(d, "failed")
    /\ UNCHANGED <<stock, lines, ask, found, bill, receipt, report>>

ReadPurchases(r) ==
    /\ phase[r] = "idle"
    /\ \/ seen' = [seen EXCEPT ![r] = {[id |-> b, lines |-> lines[b]] : b \in rows}] /\ Goto(r, "purchasesRead")
       \/ UNCHANGED seen /\ Goto(r, "failed")
    /\ UNCHANGED <<stock, sale, sheet>>

\* An empty name counts as none.
NameOf(i) == IF Exists(i) /\ ItemName[i] # Empty THEN ItemName[i] ELSE Unknown
Quantity(c, n) == SumFunction([l \in c |-> IF NameOf(l.item) = n THEN l.quantity ELSE 0])
NamesSold(r) == UNION {{NameOf(l.item) : l \in p.lines} : p \in seen[r]}

\* Mutant: a later purchase takes the place of the sum so far.
LastSold(r, n) == Max({0} \cup {Quantity(p.lines, n) : p \in seen[r]})
QuantitySold(r, n) == SumFunction([p \in seen[r] |-> Quantity(p.lines, n)])

\* The items are read after the purchases, and the sheets drawn up.
ReadItems(r) ==
    /\ phase[r] = "purchasesRead"
    /\ \/ sheet' = [sheet EXCEPT ![r] =
              {[name |-> n, quantity |-> QuantitySold(r, n)] : n \in NamesSold(r)}]
          /\ Goto(r, "done")
       \/ UNCHANGED sheet /\ Goto(r, "failed")
    /\ UNCHANGED <<stock, sale, seen>>

-----------------------------------------------------------------------------
(* Items, and the environment.                                             *)

\* ItemService.create; an id is never used again.
CreateItem(i) == \E p \in Prices :
    /\ ~ Exists(i) /\ i \notin gone
    /\ price' = [price EXCEPT ![i] = p]
    /\ UNCHANGED <<gone, sale, report, phase>>

\* By hand: nothing in the program changes or deletes an item.
Reprice(i) == \E p \in Prices :
    /\ Exists(i)
    /\ price' = [price EXCEPT ![i] = p]
    /\ UNCHANGED <<gone, sale, report, phase>>

\* The lines that name the item go with it (onDelete: Cascade).
DeleteItem(i) ==
    /\ Exists(i)
    /\ price' = [price EXCEPT ![i] = NoItem]
    /\ gone' = gone \cup {i}
    /\ lines' = [b \in Buys |-> {l \in lines[b] : l.item # i}]
    /\ UNCHANGED <<rows, ask, found, bill, receipt, report, phase>>

Crash ==
    /\ \E r \in Requests : phase[r] \in InFlight
    /\ phase' = [r \in Requests |-> IF phase[r] \in InFlight THEN "dropped" ELSE phase[r]]
    /\ UNCHANGED <<stock, sale, report>>

Next ==
    \/ \E b \in Buys : FindItems(b) \/ Create(b) \/ CreateFails(b) \/ Emit(b)
    \/ \E d \in Deletes : Delete(d)
    \/ \E r \in Reports : ReadPurchases(r) \/ ReadItems(r)
    \/ \E i \in Items : CreateItem(i) \/ Reprice(i) \/ DeleteItem(i)
    \/ Crash

Spec == Init /\ [][Next]_vars

-----------------------------------------------------------------------------
(* Properties.                                                             *)

\* Whatever the discount, and with items of a negative price, no total is below
\* zero, and a discount that is not negative never raises it above the sum, if
\* that is not below zero itself.
TotalInRange == \A b \in Buys : bill[b] # Nothing =>
    /\ bill[b].total >= 0
    /\ ask[b].discount >= 0 => bill[b].total <= Max({0, Sum(b)})

\* The receipt adds up: its lines at its prices, less its discount, make its
\* total, however the prices change while the purchase is being stored.
ReceiptAddsUp == \A b \in Buys : receipt[b] # Nothing =>
    receipt[b].total + receipt[b].discount
        = SumFunction([l \in receipt[b].lines |-> l.price * l.quantity])

\* A stored purchase has, for each item that still exists, the one line it was billed
\* for, and no other: items that go take their lines along, and none comes back.
LinesKept == \A b \in rows :
    /\ lines[b] = {l \in bill[b].lines : Exists(l.item)}
    /\ \A l, m \in lines[b] : l.item = m.item => l = m

\* All the quantities a report read are on its sheet, and an article is unknown
\* only if one of the items read has been deleted, has the empty name, or is
\* named like that.
AddsUp(r) ==
    /\ SumFunction([s \in sheet[r] |-> s.quantity])
        = SumFunction([p \in seen[r] |-> SumFunction([l \in p.lines |-> l.quantity])])
    /\ \A s \in sheet[r] : s.name = Unknown =>
          \E p \in seen[r] : \E l \in p.lines :
              l.item \in gone \/ ItemName[l.item] \in {Empty, Unknown}

\* The two reads of a report fit together: its sheet adds up, and no article with
\* a name is unknown because it was created and sold while the report was being
\* made (purchase.service.ts:127-180).
ReportAddsUp == \A r \in Reports : sheet[r] # Nothing => AddsUp(r)
=============================================================================
