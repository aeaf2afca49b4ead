-------------------------- MODULE Purchase_proofs --------------------------
(***************************************************************************)
(* The invariants of Purchase hold for any number of purchases, reports,   *)
(* items and lines.  What is on a receipt or a sheet are sums, so the      *)
(* first part is about SumFunctionOnSet.  Induction over the terms of a    *)
(* sum is done by looking at a smallest set of terms that would refute the *)
(* claim.                                                                  *)
(***************************************************************************)
EXTENDS Purchase, FiniteSetTheorems, TLAPS

-----------------------------------------------------------------------------
(* Sums.                                                                   *)

Some(s) == CHOOSE x \in s : TRUE

\* g sums the values of f over every subset of S.
Summing(f, S, g) ==
    g = [s \in SUBSET S |-> IF s = {} THEN 0 ELSE f[Some(s)] + g[s \ {Some(s)}]]
Sums(f, S) == CHOOSE g : Summing(f, S, g)

LEMMA SomeInside == ASSUME NEW s, s # {} PROVE Some(s) \in s
BY DEF Some

LEMMA SmallestSet ==
    ASSUME NEW S, IsFiniteSet(S), NEW T \in SUBSET SUBSET S, T # {}
    PROVE  \E s \in T : \A t \in T : t \subseteq s => t = s
<1>1. IsWellFoundedOn(StrictSubsetOrdering(S), SUBSET S)
  BY FS_StrictSubsetOrderingWellFounded, FS_FiniteSubsetsOfFinite
<1>2. PICK s \in T : \A t \in T : ~ (<<t, s>> \in StrictSubsetOrdering(S))
  BY <1>1, WFMin
<1> QED
  BY <1>2 DEF StrictSubsetOrdering

LEMMA SumIsLast == ASSUME NEW f, NEW S PROVE SumFunctionOnSet(f, S) = Sums(f, S)[S]
BY DEF SumFunctionOnSet, FoldFunctionOnSet, MapThenFoldSet, Sums, Summing, Some

LEMMA SummingAt ==
    ASSUME NEW f, NEW S, NEW g, Summing(f, S, g), NEW s \in SUBSET S
    PROVE  g[s] = IF s = {} THEN 0 ELSE f[Some(s)] + g[s \ {Some(s)}]
BY DEF Summing

LEMMA SummingAgree ==
    ASSUME NEW f, NEW S, IsFiniteSet(S), NEW T \in SUBSET S, NEW g, NEW h,
           Summing(f, S, g), Summing(f, T, h)
    PROVE  g[T] = h[T]
<1> DEFINE Bad == {s \in SUBSET T : g[s] # h[s]}
<1>1. SUFFICES ASSUME Bad # {} PROVE FALSE
  OBVIOUS
<1> Bad \in SUBSET SUBSET S
  OBVIOUS
<1> HIDE DEF Bad
<1>2. PICK s \in Bad : \A t \in Bad : t \subseteq s => t = s
  BY <1>1, SmallestSet
<1>3. s \in SUBSET S /\ s \in SUBSET T /\ g[s] # h[s]
  BY <1>2 DEF Bad
<1>4. /\ g[s] = IF s = {} THEN 0 ELSE f[Some(s)] + g[s \ {Some(s)}]
      /\ h[s] = IF s = {} THEN 0 ELSE f[Some(s)] + h[s \ {Some(s)}]
  BY <1>3, SummingAt
<1>5. s # {} /\ Some(s) \in s
  BY <1>3, <1>4, SomeInside
<1>6. g[s \ {Some(s)}] = h[s \ {Some(s)}]
  BY <1>2, <1>3, <1>5 DEF Bad
<1> QED
  BY <1>3, <1>4, <1>5, <1>6

LEMMA SummingExists ==
    ASSUME NEW f, NEW S, IsFiniteSet(S)
    PROVE  Summing(f, S, Sums(f, S))
<1> DEFINE Bad == {s \in SUBSET S : ~ Summing(f, s, Sums(f, s))}
<1>1. SUFFICES ASSUME Bad # {} PROVE FALSE
  OBVIOUS
<1> Bad \in SUBSET SUBSET S
  OBVIOUS
<1> HIDE DEF Bad
<1>2. PICK s \in Bad : \A t \in Bad : t \subseteq s => t = s
  BY <1>1, SmallestSet
<1>3. s \in SUBSET S /\ IsFiniteSet(s)
  BY <1>2, FS_Subset DEF Bad
<1>4. \A t \in SUBSET s : t # s => Summing(f, t, Sums(f, t))
  BY <1>2, <1>3 DEF Bad
<1> DEFINE Rest(t) == t \ {Some(t)}
           g == [t \in SUBSET s |-> IF t = {} THEN 0 ELSE f[Some(t)] + Sums(f, Rest(t))[Rest(t)]]
<1>5. ASSUME NEW t \in SUBSET s, t # s PROVE Sums(f, t)[t] = g[t]
  <2>1. Sums(f, t)[t] = IF t = {} THEN 0 ELSE f[Some(t)] + Sums(f, t)[Rest(t)]
    BY <1>4, <1>5, SummingAt, t \in SUBSET t
  <2>2. t # {} => Rest(t) # s /\ Rest(t) \in SUBSET t
    BY <1>5, SomeInside
  <2>3. t # {} => Summing(f, Rest(t), Sums(f, Rest(t)))
    BY <1>4, <2>2
  <2>4. IsFiniteSet(t)
    BY <1>3, FS_Subset
  <2>5. t # {} => Sums(f, t)[Rest(t)] = Sums(f, Rest(t))[Rest(t)]
    BY <1>4, <1>5, <2>2, <2>3, <2>4, SummingAgree
  <2> QED
    BY <2>1, <2>5
<1>6. ASSUME NEW t \in SUBSET s, t # {} PROVE g[Rest(t)] = Sums(f, Rest(t))[Rest(t)]
  <2>1. Rest(t) \in SUBSET s /\ Rest(t) # s
    BY <1>6, SomeInside
  <2> QED
    BY <1>5, <2>1
<1>7. \A t \in SUBSET s : g[t] = IF t = {} THEN 0 ELSE f[Some(t)] + g[Rest(t)]
  BY <1>6
<1>8. g = [t \in SUBSET s |-> IF t = {} THEN 0 ELSE f[Some(t)] + g[Rest(t)]]
  BY <1>6
<1>9. Summing(f, s, g)
  BY <1>8 DEF Summing
<1>10. Summing(f, s, Sums(f, s))
  BY <1>9 DEF Sums
<1> QED
  BY <1>2, <1>10 DEF Bad

LEMMA SumAt ==
    ASSUME NEW f, NEW S, IsFiniteSet(S), S # {}
    PROVE  SumFunctionOnSet(f, S) = f[Some(S)] + SumFunctionOnSet(f, S \ {Some(S)})
<1> DEFINE R == S \ {Some(S)}
<1>1. Summing(f, S, Sums(f, S)) /\ IsFiniteSet(R) /\ Summing(f, R, Sums(f, R))
  BY SummingExists, FS_RemoveElement
<1>2. Sums(f, S)[S] = f[Some(S)] + Sums(f, S)[R]
  BY <1>1, SummingAt, S \in SUBSET S
<1>3. Sums(f, S)[R] = Sums(f, R)[R]
  BY <1>1, SummingAgree, R \in SUBSET S
<1> QED
  BY <1>2, <1>3, SumIsLast

LEMMA SumEmpty == ASSUME NEW f PROVE SumFunctionOnSet(f, {}) = 0
<1>1. Summing(f, {}, Sums(f, {})) /\ {} \in SUBSET {}
  BY SummingExists, FS_EmptySet
<1>2. Sums(f, {})[{}] = 0
  BY <1>1, SummingAt
<1> QED
  BY <1>2, SumIsLast

\* Induction over the subsets of a finite set.
LEMMA ByRemoval ==
    ASSUME NEW S, IsFiniteSet(S), NEW Good, {} \in Good,
           \A s \in SUBSET S : s # {} /\ (\A x \in s : s \ {x} \in Good) => s \in Good
    PROVE  \A s \in SUBSET S : s \in Good
<1> DEFINE Bad == {s \in SUBSET S : s \notin Good}
<1> Bad \in SUBSET SUBSET S
  OBVIOUS
<1> HIDE DEF Bad
<1>1. SUFFICES ASSUME Bad # {} PROVE FALSE
  BY DEF Bad
<1>2. PICK s \in Bad : \A t \in Bad : t \subseteq s => t = s
  BY <1>1, SmallestSet
<1>3. \A x \in s : s \ {x} \in Good
  BY <1>2 DEF Bad
<1> QED
  BY <1>2, <1>3 DEF Bad

\* Terms that are the same make the same sum.
LEMMA SumSame ==
    ASSUME NEW S, IsFiniteSet(S), NEW f, NEW g, \A x \in S : f[x] = g[x]
    PROVE  SumFunctionOnSet(f, S) = SumFunctionOnSet(g, S)
<1> DEFINE Good == {s \in SUBSET S : SumFunctionOnSet(f, s) = SumFunctionOnSet(g, s)}
<1>1. {} \in Good
  BY SumEmpty
<1>2. ASSUME NEW s \in SUBSET S, s # {}, \A x \in s : s \ {x} \in Good
      PROVE  s \in Good
  <2>1. Some(s) \in s /\ IsFiniteSet(s)
    BY <1>2, SomeInside, FS_Subset
  <2>2. s \ {Some(s)} \in Good /\ f[Some(s)] = g[Some(s)]
    BY <1>2, <2>1
  <2> QED
    BY <1>2, <2>1, <2>2, SumAt
<1> HIDE DEF Good
<1>3. \A s \in SUBSET S : s \in Good
  BY <1>1, <1>2, ByRemoval
<1> QED
  BY <1>3 DEF Good

\* A sum is a number of the kind its terms are.
LEMMA SumKind ==
    ASSUME NEW S, IsFiniteSet(S), NEW f, NEW N \in {Int, Nat, {0}}, \A x \in S : f[x] \in N
    PROVE  SumFunctionOnSet(f, S) \in N
<1> DEFINE Good == {s \in SUBSET S : SumFunctionOnSet(f, s) \in N}
<1>1. {} \in Good
  BY SumEmpty
<1>2. ASSUME NEW s \in SUBSET S, s # {}, \A x \in s : s \ {x} \in Good
      PROVE  s \in Good
  <2>1. Some(s) \in s /\ IsFiniteSet(s)
    BY <1>2, SomeInside, FS_Subset
  <2>2. SumFunctionOnSet(f, s \ {Some(s)}) \in N /\ f[Some(s)] \in N
    BY <1>2, <2>1
  <2>3. f[Some(s)] + SumFunctionOnSet(f, s \ {Some(s)}) \in N
    <3>1. CASE N = Int BY <2>2, <3>1
    <3>2. CASE N = Nat BY <2>2, <3>2
    <3>3. CASE N = {0} BY <2>2, <3>3
    <3> QED BY <3>1, <3>2, <3>3
  <2> QED
    BY <1>2, <2>1, <2>3, SumAt
<1> HIDE DEF Good
<1>3. \A s \in SUBSET S : s \in Good
  BY <1>1, <1>2, ByRemoval
<1> QED
  BY <1>3 DEF Good

\* Any term can be taken out of a sum.
LEMMA SumRemove ==
    ASSUME NEW S, IsFiniteSet(S), NEW f, \A x \in S : f[x] \in Int, NEW y \in S
    PROVE  SumFunctionOnSet(f, S) = f[y] + SumFunctionOnSet(f, S \ {y})
<1> DEFINE Good == {s \in SUBSET S :
        \A x \in s : SumFunctionOnSet(f, s) = f[x] + SumFunctionOnSet(f, s \ {x})}
<1>1. {} \in Good
  OBVIOUS
<1>2. ASSUME NEW s \in SUBSET S, s # {}, \A x \in s : s \ {x} \in Good, NEW x \in s
      PROVE  SumFunctionOnSet(f, s) = f[x] + SumFunctionOnSet(f, s \ {x})
  <2> DEFINE c == Some(s)
             T == (s \ {x}) \ {c}
  <2>1. c \in s /\ IsFiniteSet(s) /\ IsFiniteSet(s \ {x}) /\ IsFiniteSet(T)
    BY <1>2, SomeInside, FS_Subset, FS_RemoveElement
  <2>2. SumFunctionOnSet(f, s) = f[c] + SumFunctionOnSet(f, s \ {c})
    BY <1>2, <2>1, SumAt
  <2>3. CASE x = c
    BY <2>2, <2>3
  <2>4. CASE x # c
    <3>1. SumFunctionOnSet(f, s \ {x}) = f[c] + SumFunctionOnSet(f, T)
      BY <1>2, <2>1, <2>4
    <3>2. SumFunctionOnSet(f, s \ {c}) = f[x] + SumFunctionOnSet(f, T)
      <4>1. T = (s \ {c}) \ {x}
        OBVIOUS
      <4> QED
        BY <1>2, <2>1, <2>4, <4>1
    <3>3. f[x] \in Int /\ f[c] \in Int /\ SumFunctionOnSet(f, T) \in Int
      BY <2>1, SumKind
    <3> HIDE DEF c, T
    <3> QED
      BY <2>2, <3>1, <3>2, <3>3
  <2> QED
    BY <2>3, <2>4
<1>3. \A s \in SUBSET S : s # {} /\ (\A x \in s : s \ {x} \in Good) => s \in Good
  BY <1>2
<1> HIDE DEF Good
<1>4. \A s \in SUBSET S : s \in Good
  BY <1>1, <1>3, ByRemoval
<1> QED
  BY <1>4 DEF Good
\* Two sums over the same set are one.
LEMMA SumAdd ==
    ASSUME NEW S, IsFiniteSet(S), NEW f, NEW g, NEW h,
           \A x \in S : f[x] \in Int /\ g[x] \in Int /\ h[x] = f[x] + g[x]
    PROVE  SumFunctionOnSet(h, S) = SumFunctionOnSet(f, S) + SumFunctionOnSet(g, S)
<1> DEFINE Good == {s \in SUBSET S :
        SumFunctionOnSet(h, s) = SumFunctionOnSet(f, s) + SumFunctionOnSet(g, s)}
<1>1. {} \in Good
  BY SumEmpty
<1>2. ASSUME NEW s \in SUBSET S, s # {}, \A x \in s : s \ {x} \in Good
      PROVE  s \in Good
  <2> DEFINE c == Some(s)
             R == s \ {c}
  <2>1. c \in s /\ IsFiniteSet(s) /\ IsFiniteSet(R)
    BY <1>2, SomeInside, FS_Subset, FS_RemoveElement
  <2>2. /\ SumFunctionOnSet(f, s) = f[c] + SumFunctionOnSet(f, R)
        /\ SumFunctionOnSet(g, s) = g[c] + SumFunctionOnSet(g, R)
        /\ SumFunctionOnSet(h, s) = h[c] + SumFunctionOnSet(h, R)
    BY <1>2, <2>1, SumAt
  <2>3. f[c] \in Int /\ g[c] \in Int /\ h[c] = f[c] + g[c]
    BY <2>1
  <2>4. SumFunctionOnSet(f, R) \in Int /\ SumFunctionOnSet(g, R) \in Int
    BY <2>1, SumKind
  <2>5. SumFunctionOnSet(h, R) = SumFunctionOnSet(f, R) + SumFunctionOnSet(g, R)
    BY <1>2, <2>1
  <2> HIDE DEF c, R
  <2> QED
    BY <2>2, <2>3, <2>4, <2>5
<1> HIDE DEF Good
<1>3. \A s \in SUBSET S : s \in Good
  BY <1>1, <1>2, ByRemoval
<1> QED
  BY <1>3 DEF Good

\* A table has one total, whether its rows are summed first or its columns.
LEMMA SumExchange ==
    ASSUME NEW S, IsFiniteSet(S), NEW T, IsFiniteSet(T), NEW f \in [S -> [T -> Int]]
    PROVE  SumFunctionOnSet([x \in S |-> SumFunctionOnSet(f[x], T)], S)
               = SumFunctionOnSet([y \in T |-> SumFunctionOnSet([x \in S |-> f[x][y]], S)], T)
<1> DEFINE across == [x \in S |-> SumFunctionOnSet(f[x], T)]
           column(y) == [x \in S |-> f[x][y]]
           down(s) == [y \in T |-> SumFunctionOnSet(column(y), s)]
           Good == {s \in SUBSET S : SumFunctionOnSet(across, s) = SumFunctionOnSet(down(s), T)}
<1>1. {} \in Good
  <2>1. \A y \in T : down({})[y] \in {0}
    BY SumEmpty
  <2>2. SumFunctionOnSet(down({}), T) \in {0}
    BY <2>1, SumKind, Zenon
  <2> QED
    BY <2>2, SumEmpty
<1>2. ASSUME NEW s \in SUBSET S, s # {}, \A x \in s : s \ {x} \in Good
      PROVE  s \in Good
  <2> DEFINE c == Some(s)
             R == s \ {c}
  <2>1. c \in s /\ c \in S /\ IsFiniteSet(s) /\ IsFiniteSet(R)
    BY <1>2, SomeInside, FS_Subset, FS_RemoveElement
  <2>2. SumFunctionOnSet(across, s) = SumFunctionOnSet(f[c], T) + SumFunctionOnSet(across, R)
    BY <1>2, <2>1, SumAt
  <2>3. SumFunctionOnSet(across, R) = SumFunctionOnSet(down(R), T)
    BY <1>2, <2>1
  <2>4. ASSUME NEW y \in T
        PROVE  f[c][y] \in Int /\ down(R)[y] \in Int /\ down(s)[y] = f[c][y] + down(R)[y]
    <3>1. \A x \in S : column(y)[x] = f[x][y] /\ f[x][y] \in Int
      OBVIOUS
    <3> HIDE DEF column
    <3>2. SumFunctionOnSet(column(y), s) = column(y)[c] + SumFunctionOnSet(column(y), R)
      BY <1>2, <2>1, SumAt
    <3>3. SumFunctionOnSet(column(y), R) \in Int
      BY <2>1, <3>1, SumKind
    <3> QED
      BY <2>1, <3>1, <3>2, <3>3
  <2> HIDE DEF across, down, c, R
  <2>5. SumFunctionOnSet(down(s), T) = SumFunctionOnSet(f[c], T) + SumFunctionOnSet(down(R), T)
    BY <2>4, SumAdd
  <2> QED
    BY <2>2, <2>3, <2>5
<1> HIDE DEF Good
<1>3. \A s \in SUBSET S : s \in Good
  BY <1>1, <1>2, ByRemoval
<1>4. SumFunctionOnSet(across, S) = SumFunctionOnSet(down(S), T)
  BY <1>3 DEF Good
<1> QED
  BY <1>4

\* A sum over things that are named one by one is the sum over their names.
LEMMA SumRenamed ==
    ASSUME NEW S, IsFiniteSet(S), NEW e, NEW f, NEW g,
           \A x, y \in S : e[x] = e[y] => x = y,
           \A x \in S : g[x] \in Int /\ f[e[x]] = g[x]
    PROVE  SumFunctionOnSet(f, {e[x] : x \in S}) = SumFunctionOnSet(g, S)
<1> DEFINE image(s) == {e[x] : x \in s}
           Good == {s \in SUBSET S :
               IsFiniteSet(image(s)) /\ SumFunctionOnSet(f, image(s)) = SumFunctionOnSet(g, s)}
<1>1. {} \in Good
  BY SumEmpty, FS_EmptySet, image({}) = {}
<1>2. ASSUME NEW s \in SUBSET S, s # {}, \A x \in s : s \ {x} \in Good
      PROVE  s \in Good
  <2> DEFINE c == Some(s)
             R == s \ {c}
  <2>1. c \in s /\ c \in S /\ IsFiniteSet(s) /\ IsFiniteSet(R)
    BY <1>2, SomeInside, FS_Subset, FS_RemoveElement
  <2>2. IsFiniteSet(image(R)) /\ SumFunctionOnSet(f, image(R)) = SumFunctionOnSet(g, R)
    BY <1>2, <2>1
  <2>3. image(s) = image(R) \cup {e[c]} /\ image(R) = image(s) \ {e[c]} /\ e[c] \in image(s)
    BY <2>1
  <2>4. \A y \in image(s) : f[y] \in Int
    OBVIOUS
  <2>5. SumFunctionOnSet(g, s) = g[c] + SumFunctionOnSet(g, R)
    BY <1>2, <2>1, SumAt
  <2> HIDE DEF c, R, image
  <2>6. IsFiniteSet(image(s))
    BY <2>2, <2>3, FS_AddElement
  <2>7. SumFunctionOnSet(f, image(s)) = f[e[c]] + SumFunctionOnSet(f, image(R))
    BY <2>3, <2>4, <2>6, SumRemove
  <2> QED
    BY <2>1, <2>2, <2>5, <2>6, <2>7
<1> HIDE DEF Good
<1>3. \A s \in SUBSET S : s \in Good
  BY <1>1, <1>2, ByRemoval
<1> QED
  BY <1>3 DEF Good

\* What is sorted under names is all there is.
LEMMA SumByName ==
    ASSUME NEW S, IsFiniteSet(S), NEW N, IsFiniteSet(N), NEW name \in [S -> N], NEW q \in [S -> Int]
    PROVE  SumFunctionOnSet([n \in N |->
               SumFunctionOnSet([x \in S |-> IF name[x] = n THEN q[x] ELSE 0], S)], N)
               = SumFunctionOnSet(q, S)
<1> DEFINE f == [n \in N |-> [x \in S |-> IF name[x] = n THEN q[x] ELSE 0]]
           column(x) == [n \in N |-> f[n][x]]
<1>1. f \in [N -> [S -> Int]]
  OBVIOUS
<1>2. SumFunctionOnSet([n \in N |-> SumFunctionOnSet(f[n], S)], N)
        = SumFunctionOnSet([x \in S |-> SumFunctionOnSet(column(x), N)], S)
  <2> HIDE DEF f
  <2> QED
    BY <1>1, SumExchange
<1>3. ASSUME NEW x \in S PROVE SumFunctionOnSet(column(x), N) = q[x]
  <2>1. \A n \in N : column(x)[n] = IF name[x] = n THEN q[x] ELSE 0
    OBVIOUS
  <2> HIDE DEF column
  <2>2. name[x] \in N /\ q[x] \in Int /\ IsFiniteSet(N \ {name[x]})
    BY FS_RemoveElement
  <2>3. \A n \in N : column(x)[n] \in Int
    BY <2>1, <2>2
  <2>4. SumFunctionOnSet(column(x), N) = column(x)[name[x]] + SumFunctionOnSet(column(x), N \ {name[x]})
    BY <2>2, <2>3, SumRemove
  <2>5. \A n \in N \ {name[x]} : column(x)[n] \in {0}
    BY <2>1
  <2>6. SumFunctionOnSet(column(x), N \ {name[x]}) \in {0}
    BY <2>2, <2>5, SumKind, Zenon
  <2> QED
    BY <2>1, <2>2, <2>4, <2>6
<1>4. SumFunctionOnSet([x \in S |-> SumFunctionOnSet(column(x), N)], S) = SumFunctionOnSet(q, S)
  <2> HIDE DEF column
  <2> QED
    BY <1>3, SumSame
<1>5. \A n \in N : f[n] = [x \in S |-> IF name[x] = n THEN q[x] ELSE 0]
  OBVIOUS
<1> QED
  BY <1>2, <1>4, <1>5
-----------------------------------------------------------------------------
(* The inductive invariant.                                                *)

\* What the phase of a request says of what it has read and made.
Placed ==
    \A b \in Buys :
        /\ phase[b] \in {"idle", "found"} => bill[b] = Nothing
        /\ phase[b] = "created" => bill[b] # Nothing
        /\ bill[b] = Nothing => receipt[b] = Nothing /\ b \notin rows
        /\ phase[b] = "found" \/ bill[b] # Nothing =>
              ask[b] \in Order /\ found[b] \in [Bought(ask[b].lines) -> Prices]

\* A bill is made of what was asked for, at the prices that were read.
Billed ==
    \A b \in Buys : bill[b] # Nothing =>
        /\ ask[b].discount \in Int
        /\ \A k, l \in DOMAIN ask[b].lines : ask[b].lines[k].item = ask[b].lines[l].item => k = l
        /\ bill[b].lines = Range(ask[b].lines)
        /\ bill[b].discount = Discount(b)
        /\ bill[b].total = Sum(b) - Discount(b)

LinesShown(b) == {Shown(b, l) : l \in bill[b].lines}

Receipted ==
    \A b \in Buys : receipt[b] # Nothing =>
        /\ receipt[b].lines = LinesShown(b)
        /\ receipt[b].discount = bill[b].discount
        /\ receipt[b].total = bill[b].total

\* An item exists or has been deleted.
Known(c) == \A l \in c : Exists(l.item) \/ l.item \in gone

ItemsKnown ==
    /\ \A i \in gone : ~ Exists(i)
    /\ \A b \in Buys : bill[b] # Nothing => Known(bill[b].lines)

\* What a report works with is finite, and was known when it was read.
Readable(r) ==
    /\ seen[r] \in SUBSET Row /\ IsFiniteSet(seen[r])
    /\ \A p \in seen[r] : IsFiniteSet(p.lines) /\ Known(p.lines)

Reported ==
    \A r \in Reports :
        /\ phase[r] = "idle" => sheet[r] = Nothing
        /\ phase[r] = "purchasesRead" => Readable(r)

RowsFinite == IsFiniteSet(rows) /\ \A b \in rows : IsFiniteSet(lines[b])

PurchaseInv ==
    /\ TypeOK /\ Placed /\ Billed /\ Receipted
    /\ ItemsKnown /\ LinesKept /\ RowsFinite /\ Reported /\ ReportAddsUp
-----------------------------------------------------------------------------
(* The lines and their sums.                                               *)

LEMMA OrderFacts ==
    ASSUME NEW c \in Seq(Line)
    PROVE  /\ IsFiniteSet(DOMAIN c) /\ IsFiniteSet(Range(c))
           /\ Bought(c) \in SUBSET Items /\ Range(c) \in SUBSET Line
<1>1. IsFiniteSet(DOMAIN c) /\ DOMAIN c = 1 .. Len(c)
  BY FS_Interval
<1>2. c \in Surjection(DOMAIN c, Range(c))
  BY DEF Surjection, Range
<1>3. IsFiniteSet(Range(c))
  BY <1>1, <1>2, FS_Surjection
<1>4. \A k \in DOMAIN c : c[k] \in Line
  OBVIOUS
<1> QED
  BY <1>1, <1>3, <1>4 DEF Range, Bought, Line

LEMMA AmountsAreWhole ==
    ASSUME NEW b, ask[b] \in Order, found[b] \in [Bought(ask[b].lines) -> Prices]
    PROVE  /\ Sum(b) \in Int
           /\ ask[b].discount \in Int => Discount(b) \in Int
<1> DEFINE c == ask[b].lines
           f == [k \in DOMAIN c |-> found[b][c[k].item] * c[k].quantity]
<1>1. c \in Seq(Line)
  BY DEF Order
<1>2. \A k \in DOMAIN c : c[k] \in Line /\ c[k].item \in Bought(c)
  BY <1>1 DEF Bought
<1>3. ASSUME NEW k \in DOMAIN c PROVE f[k] \in Int
  <2>1. found[b][c[k].item] \in Int
    BY <1>2, AmountsAssumption
  <2>2. c[k].quantity \in Int
    BY <1>2 DEF Line
  <2> QED
    BY <2>1, <2>2
<1>4. IsFiniteSet(DOMAIN c)
  BY <1>1, OrderFacts
<1>5. Sum(b) = SumFunctionOnSet(f, DOMAIN c)
  BY DEF Sum, SumFunction
<1> HIDE DEF f, c
<1>6. Sum(b) \in Int
  BY <1>3, <1>4, <1>5, SumKind
<1> QED
  BY <1>6 DEF Discount

LEMMA AmountsStay ==
    ASSUME NEW b, ask'[b] = ask[b], found'[b] = found[b]
    PROVE  Sum(b)' = Sum(b) /\ Discount(b)' = Discount(b)
BY DEF Sum, Discount

LEMMA QuantityIsNatural ==
    ASSUME NEW c \in SUBSET Line, IsFiniteSet(c), NEW n
    PROVE  Quantity(c, n) \in Nat
<1> DEFINE f == [l \in c |-> IF NameOf(l.item) = n THEN l.quantity ELSE 0]
<1>1. \A l \in c : f[l] \in Nat
  BY DEF Line
<1>2. Quantity(c, n) = SumFunctionOnSet(f, c)
  BY DEF Quantity, SumFunction
<1> HIDE DEF f
<1> QED
  BY <1>1, <1>2, SumKind

LEMMA SoldIsNatural ==
    ASSUME NEW r, seen[r] \in SUBSET Row, IsFiniteSet(seen[r]),
           \A p \in seen[r] : IsFiniteSet(p.lines), NEW n
    PROVE  QuantitySold(r, n) \in Nat
<1> DEFINE f == [p \in seen[r] |-> Quantity(p.lines, n)]
<1>1. \A p \in seen[r] : f[p] \in Nat
  BY QuantityIsNatural DEF Row
<1>2. QuantitySold(r, n) = SumFunctionOnSet(f, seen[r])
  BY DEF QuantitySold, SumFunction
<1> HIDE DEF f
<1> QED
  BY <1>1, <1>2, SumKind

-----------------------------------------------------------------------------
(* Type correctness.                                                       *)

LEMMA BillMade ==
    ASSUME PurchaseInv, NEW b \in Buys, Create(b)
    PROVE  bill'[b] \in Bill
<1>1. ask[b] \in Order /\ found[b] \in [Bought(ask[b].lines) -> Prices]
  BY DEF Create, PurchaseInv, Placed
<1>2. ask[b].discount \in Int
  BY <1>1 DEF Create, Insertable, Order
<1>3. Sum(b) \in Int /\ Discount(b) \in Int
  BY <1>1, <1>2, AmountsAreWhole
<1>4. Range(ask[b].lines) \in SUBSET Line
  BY <1>1, OrderFacts DEF Order
<1>5. Given(b) \in Int
  BY <1>1, <1>3 DEF Given, Order
<1>6. [lines |-> Range(ask[b].lines), discount |-> Discount(b), total |-> Sum(b) - Discount(b),
       method |-> ask[b].method, given |-> Given(b)] \in Bill
  BY <1>1, <1>3, <1>4, <1>5 DEF Bill, Order
<1> QED
  BY <1>6 DEF Create, PurchaseInv, TypeOK

LEMMA StepTyped == PurchaseInv /\ [Next]_vars => TypeOK'
<1> SUFFICES ASSUME PurchaseInv, [Next]_vars PROVE TypeOK'
  OBVIOUS
<1> USE DEF PurchaseInv, TypeOK, Goto, stock, sale, report, Requests
<1>1. ASSUME NEW b \in Buys, FindItems(b) PROVE TypeOK'
  <2>1. PICK c \in Carts, d \in Discounts, m \in Methods, g \in Amounts :
            /\ ask' = [ask EXCEPT ![b] = [lines |-> c, discount |-> d, method |-> m, given |-> g]]
            /\ found' = [found EXCEPT ![b] = [i \in Bought(c) |-> price[i]]]
    BY <1>1 DEF FindItems
  <2>2. c \in Seq(Line) /\ Bought(c) \in SUBSET Items
    BY CartsAssumption, OrderFacts
  <2>3. [lines |-> c, discount |-> d, method |-> m, given |-> g] \in Order
    BY <2>2, AmountsAssumption DEF Order
  <2>4. [i \in Bought(c) |-> price[i]] \in [Bought(c) -> Prices \cup {NoItem}]
    BY <2>2
  <2>5. ask' \in [Buys -> Order \cup {Nothing}]
    BY <2>1, <2>3
  <2>6. found' \in [Buys -> PriceList \cup {Nothing}]
    <3>1. [i \in Bought(c) |-> price[i]] \in PriceList
      BY <2>2, <2>4 DEF PriceList
    <3> QED
      BY <2>1, <3>1
  <2>7. phase' \in [Requests -> {"idle"} \cup InFlight \cup Ended]
    BY <1>1 DEF FindItems, InFlight, Ended
  <2> QED
    BY <1>1, <2>5, <2>6, <2>7 DEF FindItems
<1>2. ASSUME NEW b \in Buys, Create(b) PROVE TypeOK'
  <2>1. ask[b] \in Order
    BY <1>2 DEF Create, Placed
  <2>2. Range(ask[b].lines) \in SUBSET Line
    BY <2>1, OrderFacts DEF Order
  <2>3. bill' \in [Buys -> Bill \cup {Nothing}]
    BY <1>2, BillMade DEF Create
  <2> QED
    BY <1>2, <2>2, <2>3 DEF Create, InFlight, Ended
<1>3. ASSUME NEW b \in Buys, CreateFails(b) PROVE TypeOK'
  BY <1>3 DEF CreateFails, InFlight, Ended
<1>4. ASSUME NEW b \in Buys, Emit(b) PROVE TypeOK'
  <2>1. bill[b] \in Bill /\ ask[b] \in Order /\ found[b] \in [Bought(ask[b].lines) -> Prices]
    BY <1>4 DEF Emit, Placed
  <2>2. bill[b].lines = Range(ask[b].lines)
    BY <1>4 DEF Emit, Placed, Billed
  <2>3. \A l \in bill[b].lines : l \in Line /\ l.item \in Bought(ask[b].lines)
    BY <2>1, <2>2 DEF Bill, Order, Bought, Range
  <2>4. \A l \in bill[b].lines : Shown(b, l) \in [item : Items, price : Int, quantity : Nat \ {0}]
    BY <2>1, <2>3, AmountsAssumption DEF Shown, PriceShown, Line
  <2>5. {Shown(b, l) : l \in bill[b].lines} \in SUBSET [item : Items, price : Int, quantity : Nat \ {0}]
    BY <2>4
  <2> DEFINE change == IF bill[b].method = "CASH" THEN bill[b].given - bill[b].total ELSE Nothing
  <2>6. change \in Int \cup {Nothing} /\ bill[b].discount \in Int /\ bill[b].total \in Int
    BY <2>1 DEF Bill
  <2>7. receipt' = [receipt EXCEPT ![b] =
            [lines |-> {Shown(b, l) : l \in bill[b].lines}, discount |-> bill[b].discount,
             total |-> bill[b].total, change |-> change]]
    BY <1>4 DEF Emit
  <2> HIDE DEF change
  <2>8. receipt' \in [Buys -> Receipt \cup {Nothing}]
    BY <2>5, <2>6, <2>7 DEF Receipt
  <2> QED
    BY <1>4, <2>8 DEF Emit, InFlight, Ended
<1>5. ASSUME NEW d \in Deletes, Delete(d) PROVE TypeOK'
  BY <1>5 DEF Delete, InFlight, Ended
<1>6. ASSUME NEW r \in Reports, ReadPurchases(r) PROVE TypeOK'
  <2>1. {[id |-> b, lines |-> lines[b]] : b \in rows} \in SUBSET Row
    BY DEF Row
  <2>2. seen' \in [Reports -> (SUBSET Row) \cup {Nothing}]
    BY <1>6, <2>1 DEF ReadPurchases
  <2>3. phase' \in [Requests -> {"idle"} \cup InFlight \cup Ended]
    BY <1>6 DEF ReadPurchases, InFlight, Ended
  <2> QED
    BY <1>6, <2>2, <2>3 DEF ReadPurchases
<1>7. ASSUME NEW r \in Reports, ReadItems(r) PROVE TypeOK'
  <2>1. \A n \in NamesSold(r) : QuantitySold(r, n) \in Nat
    BY <1>7, SoldIsNatural DEF ReadItems, Reported, Readable
  <2>2. Readable(r)
    BY <1>7 DEF ReadItems, Reported
  <2>3. NamesSold(r) \subseteq Names \cup {Unknown}
    BY <2>2, ItemsAssumption DEF NamesSold, NameOf, Readable, Row, Line
  <2>4. {[name |-> n, quantity |-> QuantitySold(r, n)] : n \in NamesSold(r)} \in SUBSET SheetRow
    BY <2>1, <2>3 DEF SheetRow
  <2>5. sheet' \in [Reports -> (SUBSET SheetRow) \cup {Nothing}]
    BY <1>7, <2>4 DEF ReadItems
  <2>6. phase' \in [Requests -> {"idle"} \cup InFlight \cup Ended]
    BY <1>7 DEF ReadItems, InFlight, Ended
  <2> QED
    BY <1>7, <2>5, <2>6 DEF ReadItems
<1>8. ASSUME NEW i \in Items, CreateItem(i) \/ Reprice(i) \/ DeleteItem(i) PROVE TypeOK'
  BY <1>8 DEF CreateItem, Reprice, DeleteItem
<1>9. CASE Crash
  BY <1>9 DEF Crash, Ended
<1>10. CASE UNCHANGED vars
  BY <1>10 DEF vars
<1> QED
  BY <1>1, <1>2, <1>3, <1>4, <1>5, <1>6, <1>7, <1>8, <1>9, <1>10 DEF Next
-----------------------------------------------------------------------------
(* Purchases and their receipts.                                           *)

LEMMA StepPlaced == PurchaseInv /\ [Next]_vars => Placed'
<1> SUFFICES ASSUME PurchaseInv, [Next]_vars PROVE Placed'
  OBVIOUS
<1> USE DEF PurchaseInv, TypeOK, Placed, Goto, stock, sale, report, Requests
<1> USE KindsAssumption
<1>1. ASSUME NEW b \in Buys, FindItems(b) PROVE Placed'
  <2>1. PICK c \in Carts, d \in Discounts, m \in Methods, g \in Amounts :
            /\ ask' = [ask EXCEPT ![b] = [lines |-> c, discount |-> d, method |-> m, given |-> g]]
            /\ found' = [found EXCEPT ![b] = [i \in Bought(c) |-> price[i]]]
            /\ phase' = [phase EXCEPT ![b] = IF \A i \in Bought(c) : Exists(i) THEN "found" ELSE "failed"]
    BY <1>1 DEF FindItems
  <2>2. c \in Seq(Line) /\ Bought(c) \in SUBSET Items
    BY CartsAssumption, OrderFacts
  <2>3. ask'[b] \in Order /\ ask'[b].lines = c
    BY <2>1, <2>2, AmountsAssumption DEF Order
  <2>4. phase'[b] = "found" => found'[b] \in [Bought(c) -> Prices]
    BY <2>1, <2>2 DEF Exists
  <2>5. bill'[b] = Nothing /\ phase'[b] \in {"found", "failed"}
    BY <1>1, <2>1 DEF FindItems
  <2>6. \A a \in Buys : a # b => ask'[a] = ask[a] /\ found'[a] = found[a] /\ phase'[a] = phase[a]
    BY <2>1
  <2>7. Bought(ask'[b].lines) = Bought(c)
    BY <2>3
  <2>8. \A a \in Buys : Bought(ask[a].lines)' = Bought(ask'[a].lines)
    BY DEF Bought
  <2>9. bill' = bill /\ receipt' = receipt /\ rows' = rows
    BY <1>1 DEF FindItems
  <2> QED
    BY <2>3, <2>4, <2>5, <2>6, <2>7, <2>8, <2>9
<1>2. ASSUME NEW b \in Buys, Create(b) PROVE Placed'
  <2>1. bill'[b] # Nothing
    BY <1>2, BillMade, NothingAssumption
  <2> QED
    BY <1>2, <2>1 DEF Create
<1>3. ASSUME NEW b \in Buys, CreateFails(b) \/ Emit(b) PROVE Placed'
  BY <1>3 DEF CreateFails, Emit
<1>4. ASSUME NEW d \in Deletes, Delete(d) PROVE Placed'
  BY <1>4 DEF Delete
<1>5. ASSUME NEW r \in Reports, ReadPurchases(r) \/ ReadItems(r) PROVE Placed'
  BY <1>5 DEF ReadPurchases, ReadItems
<1>6. ASSUME NEW i \in Items, CreateItem(i) \/ Reprice(i) \/ DeleteItem(i) PROVE Placed'
  BY <1>6 DEF CreateItem, Reprice, DeleteItem
<1>7. CASE Crash
  BY <1>7 DEF Crash, InFlight
<1>8. CASE UNCHANGED vars
  BY <1>8 DEF vars
<1> QED
  BY <1>1, <1>2, <1>3, <1>4, <1>5, <1>6, <1>7, <1>8 DEF Next
LEMMA StepBilled == PurchaseInv /\ [Next]_vars => Billed'
<1> SUFFICES ASSUME PurchaseInv, [Next]_vars PROVE Billed'
  OBVIOUS
<1> USE DEF PurchaseInv, TypeOK, Placed, Billed
\* A step that leaves what a request asked and read leaves its bill right.
<1>1. ASSUME NEW b \in Buys, bill'[b] # Nothing, bill'[b] = bill[b],
             ask'[b] = ask[b], found'[b] = found[b]
      PROVE  /\ ask'[b].discount \in Int
             /\ \A k, l \in DOMAIN ask'[b].lines :
                   ask'[b].lines[k].item = ask'[b].lines[l].item => k = l
             /\ bill'[b].lines = Range(ask'[b].lines)
             /\ bill'[b].discount = Discount(b)'
             /\ bill'[b].total = Sum(b)' - Discount(b)'
  BY <1>1, AmountsStay
<1>2. ASSUME NEW b \in Buys, FindItems(b) PROVE Billed'
  <2>1. bill' = bill /\ bill[b] = Nothing
    BY <1>2 DEF FindItems
  <2>2. \A a \in Buys : a # b => ask'[a] = ask[a] /\ found'[a] = found[a]
    BY <1>2 DEF FindItems
  <2> QED
    BY <1>1, <2>1, <2>2
<1>3. ASSUME NEW b \in Buys, Create(b) PROVE Billed'
  <2>1. ask' = ask /\ found' = found /\ \A a \in Buys : a # b => bill'[a] = bill[a]
    BY <1>3 DEF Create
  <2>2. bill'[b] = [lines |-> Range(ask[b].lines), discount |-> Discount(b),
                    total |-> Sum(b) - Discount(b), method |-> ask[b].method, given |-> Given(b)]
    BY <1>3 DEF Create
  <2>3. ask[b].discount \in Int
    BY <1>3 DEF Create, Insertable, Order
  <2>4. Sum(b)' = Sum(b) /\ Discount(b)' = Discount(b)
    BY <2>1, AmountsStay
  <2>5. \A k, l \in DOMAIN ask[b].lines : ask[b].lines[k].item = ask[b].lines[l].item => k = l
    BY <1>3 DEF Create, Insertable
  <2>6. /\ bill'[b].lines = Range(ask'[b].lines)
        /\ bill'[b].discount = Discount(b)'
        /\ bill'[b].total = Sum(b)' - Discount(b)'
    BY <2>1, <2>2, <2>4
  <2> QED
    BY <1>1, <2>1, <2>3, <2>5, <2>6
<1>4. CASE UNCHANGED <<ask, found, bill>>
  BY <1>1, <1>4
<1>5. \/ \E b \in Buys : FindItems(b) \/ Create(b)
      \/ UNCHANGED <<ask, found, bill>>
  BY DEF Next, CreateFails, Emit, Delete, ReadPurchases, ReadItems, CreateItem, Reprice,
         DeleteItem, Crash, vars, sale
<1> QED
  BY <1>2, <1>3, <1>4, <1>5

LEMMA StepReceipted == PurchaseInv /\ [Next]_vars => Receipted'
<1> SUFFICES ASSUME PurchaseInv, [Next]_vars PROVE Receipted'
  OBVIOUS
<1> USE DEF PurchaseInv, TypeOK, Placed, Receipted
\* What a receipt was made of stays.
<1>1. ASSUME NEW b \in Buys, receipt'[b] # Nothing, receipt'[b] = receipt[b],
             bill'[b] = bill[b], found'[b] = found[b]
      PROVE  /\ receipt'[b].lines = LinesShown(b)'
             /\ receipt'[b].discount = bill'[b].discount
             /\ receipt'[b].total = bill'[b].total
  BY <1>1 DEF LinesShown, Shown, PriceShown
<1>2. ASSUME NEW b \in Buys, FindItems(b) PROVE Receipted'
  <2>1. bill' = bill /\ receipt' = receipt /\ receipt[b] = Nothing
    BY <1>2 DEF FindItems
  <2>2. \A a \in Buys : a # b => found'[a] = found[a]
    BY <1>2 DEF FindItems
  <2> QED
    BY <1>1, <2>1, <2>2
<1>3. ASSUME NEW b \in Buys, Create(b) PROVE Receipted'
  <2>1. receipt' = receipt /\ receipt[b] = Nothing /\ found' = found
    BY <1>3 DEF Create
  <2>2. \A a \in Buys : a # b => bill'[a] = bill[a]
    BY <1>3 DEF Create
  <2> QED
    BY <1>1, <2>1, <2>2
<1>4. ASSUME NEW b \in Buys, Emit(b) PROVE Receipted'
  <2>1. bill' = bill /\ found' = found /\ \A a \in Buys : a # b => receipt'[a] = receipt[a]
    BY <1>4 DEF Emit
  <2>2. /\ receipt'[b].lines = LinesShown(b)
        /\ receipt'[b].discount = bill[b].discount /\ receipt'[b].total = bill[b].total
    BY <1>4 DEF Emit, LinesShown
  <2>3. LinesShown(b)' = LinesShown(b)
    BY <2>1 DEF LinesShown, Shown, PriceShown
  <2> QED
    BY <1>1, <2>1, <2>2, <2>3
<1>5. CASE UNCHANGED <<found, bill, receipt>>
  BY <1>1, <1>5
<1>6. \/ \E b \in Buys : FindItems(b) \/ Create(b) \/ Emit(b)
      \/ UNCHANGED <<found, bill, receipt>>
  BY DEF Next, CreateFails, Delete, ReadPurchases, ReadItems, CreateItem, Reprice,
         DeleteItem, Crash, vars, sale
<1> QED
  BY <1>2, <1>3, <1>4, <1>5, <1>6
-----------------------------------------------------------------------------
(* Items that come and go, and the lines that name them.                   *)

\* No id is used again, so an item that was known stays known.
LEMMA StepStock ==
    ASSUME PurchaseInv, [Next]_vars
    PROVE  /\ gone \subseteq gone'
           /\ \A i \in gone' : ~ Exists(i)'
           /\ \A i \in Items : Exists(i) \/ i \in gone => Exists(i)' \/ i \in gone'
<1> USE AmountsAssumption DEF PurchaseInv, TypeOK, ItemsKnown, Exists
<1>1. ASSUME NEW i \in Items, CreateItem(i) \/ Reprice(i)
      PROVE  /\ gone' = gone /\ i \notin gone /\ price'[i] # NoItem
             /\ \A j \in Items : j # i => price'[j] = price[j]
  BY <1>1 DEF CreateItem, Reprice
<1>2. ASSUME NEW i \in Items, DeleteItem(i)
      PROVE  /\ gone' = gone \cup {i} /\ price'[i] = NoItem
             /\ \A j \in Items : j # i => price'[j] = price[j]
  BY <1>2 DEF DeleteItem
<1>3. \/ \E i \in Items : CreateItem(i) \/ Reprice(i) \/ DeleteItem(i)
      \/ UNCHANGED <<price, gone>>
  BY DEF Next, FindItems, Create, CreateFails, Emit, Delete, ReadPurchases, ReadItems, Crash, vars, stock
<1> QED
  BY <1>1, <1>2, <1>3

LEMMA KnownStays ==
    ASSUME PurchaseInv, [Next]_vars, NEW c, c \in SUBSET Line, Known(c)
    PROVE  \A l \in c : Exists(l.item)' \/ l.item \in gone'
BY StepStock DEF Known, Line

LEMMA StepItemsKnown == PurchaseInv /\ [Next]_vars => ItemsKnown'
<1> SUFFICES ASSUME PurchaseInv, [Next]_vars PROVE ItemsKnown'
  OBVIOUS
<1>1. \A i \in gone' : ~ Exists(i)'
  BY StepStock
<1>2. ASSUME NEW b \in Buys, bill'[b] # Nothing PROVE Known(bill[b].lines)'
  <2>1. CASE bill'[b] = bill[b]
    <3>1. bill[b] \in Bill /\ Known(bill[b].lines)
      BY <1>2, <2>1 DEF PurchaseInv, TypeOK, ItemsKnown
    <3>2. bill[b].lines \in SUBSET Line
      BY <3>1 DEF Bill
    <3> QED
      BY <2>1, <3>1, <3>2, KnownStays DEF Known
  <2>2. CASE Create(b)
    <3>1. bill'[b].lines = Range(ask[b].lines) /\ price' = price
      BY <2>2 DEF Create, PurchaseInv, TypeOK, stock
    <3>2. \A l \in Range(ask[b].lines) : Exists(l.item)
      BY <2>2 DEF Create, Insertable, Bought, Range
    <3> QED
      BY <3>1, <3>2 DEF Known, Exists
  <2>3. bill'[b] = bill[b] \/ Create(b)
    BY DEF PurchaseInv, TypeOK, Next, FindItems, Create, CreateFails, Emit, Delete, ReadPurchases,
           ReadItems, CreateItem, Reprice, DeleteItem, Crash, vars, sale
  <2> QED
    BY <2>1, <2>2, <2>3
<1> QED
  BY <1>1, <1>2 DEF ItemsKnown

LEMMA StepLinesKept == PurchaseInv /\ [Next]_vars => LinesKept' /\ RowsFinite'
<1> SUFFICES ASSUME PurchaseInv, [Next]_vars PROVE LinesKept' /\ RowsFinite'
  OBVIOUS
<1> USE DEF PurchaseInv, TypeOK, LinesKept, RowsFinite
<1>1. ASSUME NEW b \in Buys, Create(b) PROVE LinesKept' /\ RowsFinite'
  <2>1. /\ rows' = rows \cup {b} /\ price' = price
        /\ lines'[b] = Range(ask[b].lines) /\ bill'[b].lines = Range(ask[b].lines)
        /\ \A a \in Buys : a # b => lines'[a] = lines[a] /\ bill'[a] = bill[a]
    BY <1>1 DEF Create, stock
  <2>2. ask[b].lines \in Seq(Line)
    BY <1>1 DEF Create, Placed, Order
  <2>3. \A l \in Range(ask[b].lines) : Exists(l.item)
    BY <1>1 DEF Create, Insertable, Bought, Range
  <2>4. \A l, m \in Range(ask[b].lines) : l.item = m.item => l = m
    BY <1>1 DEF Create, Insertable, Range
  <2>5. IsFiniteSet(rows') /\ IsFiniteSet(lines'[b])
    BY <2>1, <2>2, OrderFacts, FS_AddElement
  <2>6. lines'[b] = {l \in bill'[b].lines : Exists(l.item)'}
    BY <2>1, <2>3 DEF Exists
  <2>7. \A a \in rows : a # b => lines'[a] = {l \in bill'[a].lines : Exists(l.item)'}
    BY <2>1 DEF Exists
  <2>8. \A a \in rows : a # b => /\ IsFiniteSet(lines'[a])
                               /\ \A l, m \in lines'[a] : l.item = m.item => l = m
    BY <2>1
  <2>9. \A l, m \in lines'[b] : l.item = m.item => l = m
    BY <2>1, <2>4
  <2>10. RowsFinite'
    BY <2>1, <2>5, <2>8
  <2>11. LinesKept'
    BY <2>1, <2>6, <2>7, <2>8, <2>9
  <2> QED
    BY <2>10, <2>11
<1>2. ASSUME NEW d \in Deletes, Delete(d) PROVE LinesKept' /\ RowsFinite'
  <2>1. rows' \subseteq rows /\ lines' = lines /\ bill' = bill /\ price' = price
    BY <1>2 DEF Delete, stock
  <2> QED
    BY <2>1, FS_Subset DEF Exists
<1>3. ASSUME NEW i \in Items, CreateItem(i) \/ Reprice(i) PROVE LinesKept' /\ RowsFinite'
  <2>1. rows' = rows /\ lines' = lines /\ bill' = bill
    BY <1>3 DEF CreateItem, Reprice, sale
  <2>2. ASSUME NEW b \in rows, NEW l \in bill[b].lines PROVE Exists(l.item)' <=> Exists(l.item)
    <3>1. l.item \in Items
      BY DEF Placed, Bill, Line
    <3>2. Exists(l.item) \/ l.item \in gone
      BY DEF Placed, ItemsKnown, Known
    <3> QED
      BY <1>3, <3>1, <3>2, AmountsAssumption DEF CreateItem, Reprice, Exists
  <2> QED
    BY <2>1, <2>2
<1>4. ASSUME NEW i \in Items, DeleteItem(i) PROVE LinesKept' /\ RowsFinite'
  <2>1. /\ rows' = rows /\ bill' = bill /\ price' = [price EXCEPT ![i] = NoItem]
        /\ \A b \in Buys : lines'[b] = {l \in lines[b] : l.item # i}
    BY <1>4 DEF DeleteItem
  <2>2. ASSUME NEW b \in rows PROVE lines'[b] = {l \in bill'[b].lines : Exists(l.item)'}
    <3>1. \A l \in bill[b].lines : l.item \in Items
      BY DEF Placed, Bill, Line
    <3> QED
      BY <2>1, <3>1 DEF Exists
  <2>3. \A b \in rows : IsFiniteSet(lines'[b])
    BY <2>1, FS_Subset
  <2> QED
    BY <2>1, <2>2, <2>3
<1>5. CASE UNCHANGED <<rows, lines, bill, price>>
  BY <1>5 DEF Exists
<1>6. \/ \E b \in Buys : Create(b)
      \/ \E d \in Deletes : Delete(d)
      \/ \E i \in Items : CreateItem(i) \/ Reprice(i) \/ DeleteItem(i)
      \/ UNCHANGED <<rows, lines, bill, price>>
  BY DEF Next, FindItems, CreateFails, Emit, ReadPurchases, ReadItems, Crash, vars, stock, sale
<1> QED
  BY <1>1, <1>2, <1>3, <1>4, <1>5, <1>6
-----------------------------------------------------------------------------
(* The report.                                                             *)

\* A line a report may call unknown.
Nameless(l) == l.item \in gone \/ ItemName[l.item] \in {Empty, Unknown}

\* The sheet accounts for every quantity, and calls unknown what was deleted or
\* has no name of its own.
LEMMA SheetAddsUp ==
    ASSUME TypeOK, NEW r \in Reports, Readable(r),
           NEW drawn, drawn = {[name |-> n, quantity |-> QuantitySold(r, n)] : n \in NamesSold(r)}
    PROVE  /\ SumFunction([s \in drawn |-> s.quantity])
                = SumFunction([p \in seen[r] |-> SumFunction([l \in p.lines |-> l.quantity])])
           /\ \A s \in drawn : s.name = Unknown => \E p \in seen[r] : \E l \in p.lines : Nameless(l)
<1> DEFINE P == seen[r]
           N == NamesSold(r)
           f == [n \in N |-> [p \in P |-> Quantity(p.lines, n)]]
           perName == [n \in N |-> SumFunctionOnSet(f[n], P)]
           perRow == [p \in P |-> SumFunctionOnSet([n \in N |-> f[n][p]], N)]
           bought == [p \in P |-> SumFunction([l \in p.lines |-> l.quantity])]
<1>1. \A p \in P : p.lines \in SUBSET Line /\ IsFiniteSet(p.lines)
  BY DEF Row, Readable
<1>2. IsFiniteSet(P) /\ IsFiniteSet(N)
  <2> DEFINE names == [p \in P |-> {NameOf(l.item) : l \in p.lines}]
             All == {names[p] : p \in P}
  <2>1. IsFiniteSet(P)
    BY DEF Readable
  <2>2. IsFiniteSet(All)
    <3>1. names \in Surjection(P, All)
      BY DEF Surjection
    <3> QED
      BY <2>1, <3>1, FS_Surjection
  <2>3. ASSUME NEW p \in P PROVE IsFiniteSet(names[p])
    <3> DEFINE name == [l \in p.lines |-> NameOf(l.item)]
    <3>1. name \in Surjection(p.lines, names[p])
      BY DEF Surjection
    <3> QED
      BY <1>1, <3>1, FS_Surjection
  <2>4. N = UNION All
    BY DEF NamesSold
  <2> HIDE DEF names
  <2> QED
    BY <2>1, <2>2, <2>3, <2>4, FS_UNION
<1>3. f \in [N -> [P -> Int]]
  BY <1>1, QuantityIsNatural
<1>4. SumFunction([s \in drawn |-> s.quantity]) = SumFunctionOnSet(perName, N)
  <2> DEFINE e == [n \in N |-> [name |-> n, quantity |-> QuantitySold(r, n)]]
             q == [s \in drawn |-> s.quantity]
  <2>1. drawn = {e[n] : n \in N} /\ \A m, n \in N : e[m] = e[n] => m = n
    OBVIOUS
  <2>2. ASSUME NEW n \in N PROVE perName[n] \in Int /\ q[e[n]] = perName[n]
    <3>1. QuantitySold(r, n) \in Nat
      BY <1>1, <1>2, SoldIsNatural DEF Readable
    <3>2. perName[n] = QuantitySold(r, n)
      BY DEF QuantitySold, SumFunction
    <3> QED
      BY <3>1, <3>2
  <2>3. SumFunction(q) = SumFunctionOnSet(q, {e[n] : n \in N})
    BY <2>1 DEF SumFunction
  <2>4. SumFunction(q) = SumFunctionOnSet(perName, N)
    <3> HIDE DEF e, q, perName, N
    <3> QED
      BY <1>2, <2>1, <2>2, <2>3, SumRenamed
  <2> QED
    BY <2>4
<1>5. SumFunctionOnSet(perName, N) = SumFunctionOnSet(perRow, P)
  <2> HIDE DEF f, N, P
  <2> QED
    BY <1>2, <1>3, SumExchange
<1>6. ASSUME NEW p \in P PROVE perRow[p] = bought[p]
  <2> DEFINE c == p.lines
             name == [l \in c |-> NameOf(l.item)]
             q == [l \in c |-> l.quantity]
  <2>1. name \in [c -> N] /\ q \in [c -> Int]
    BY <1>1 DEF NamesSold, Line
  <2>2. \A n \in N : f[n][p] = SumFunctionOnSet([l \in c |-> IF name[l] = n THEN q[l] ELSE 0], c)
    BY DEF Quantity, SumFunction
  <2>3. perRow[p] = SumFunctionOnSet([n \in N |-> f[n][p]], N)
    OBVIOUS
  <2>4. bought[p] = SumFunctionOnSet(q, c)
    BY DEF SumFunction
  <2> HIDE DEF f, N, P, name, q, perRow, bought
  <2>5. perRow[p] = SumFunctionOnSet([n \in N |->
            SumFunctionOnSet([l \in c |-> IF name[l] = n THEN q[l] ELSE 0], c)], N)
    BY <1>2, <2>2, <2>3, SumSame
  <2>6. SumFunctionOnSet([n \in N |->
            SumFunctionOnSet([l \in c |-> IF name[l] = n THEN q[l] ELSE 0], c)], N)
            = SumFunctionOnSet(q, c)
    BY <1>1, <1>2, <2>1, SumByName
  <2> QED
    BY <2>4, <2>5, <2>6
<1>7. SumFunctionOnSet(perRow, P) = SumFunctionOnSet(bought, P)
  <2> HIDE DEF perRow, bought
  <2> QED
    BY <1>2, <1>6, SumSame
<1>8. SumFunction(bought) = SumFunctionOnSet(bought, P)
  BY DEF SumFunction
<1>9. ASSUME Unknown \in N PROVE \E p \in P : \E l \in p.lines : Nameless(l)
  <2>1. PICK p \in P : \E l \in p.lines : NameOf(l.item) = Unknown
    BY <1>9 DEF NamesSold
  <2>2. PICK l \in p.lines : NameOf(l.item) = Unknown
    BY <2>1
  <2>3. ~ Exists(l.item) \/ ItemName[l.item] \in {Empty, Unknown}
    BY <2>2 DEF NameOf
  <2>4. Exists(l.item) \/ l.item \in gone
    BY DEF Readable, Known
  <2> QED
    BY <2>3, <2>4 DEF Nameless
<1> QED
  BY <1>4, <1>5, <1>7, <1>8, <1>9

LEMMA StepReported == PurchaseInv /\ [Next]_vars => Reported' /\ ReportAddsUp'
<1> SUFFICES ASSUME PurchaseInv, [Next]_vars PROVE Reported' /\ ReportAddsUp'
  OBVIOUS
<1> USE KindsAssumption DEF PurchaseInv, TypeOK
<1>1. ASSUME NEW r \in Reports, Readable(r), seen'[r] = seen[r] PROVE Readable(r)'
  <2>1. ASSUME NEW p \in seen[r] PROVE Known(p.lines)'
    <3>1. p.lines \in SUBSET Line /\ Known(p.lines)
      BY <1>1 DEF Readable, Row
    <3> QED
      BY <3>1, KnownStays DEF Known
  <2> QED
    BY <1>1, <2>1 DEF Readable
<1>2. ASSUME NEW r \in Reports, sheet[r] # Nothing, seen'[r] = seen[r], sheet'[r] = sheet[r]
      PROVE  AddsUp(r)'
  <2>1. AddsUp(r) /\ gone \subseteq gone'
    BY <1>2, StepStock DEF ReportAddsUp
  <2> QED
    BY <1>2, <2>1 DEF AddsUp
\* What a report at rest, or cut off, has made stays right.
<1>3. ASSUME NEW r \in Reports, seen'[r] = seen[r], sheet'[r] = sheet[r],
             phase'[r] \in {"idle", "purchasesRead"} => phase'[r] = phase[r]
      PROVE  /\ phase'[r] = "idle" => sheet'[r] = Nothing
             /\ phase'[r] = "purchasesRead" => Readable(r)'
             /\ sheet'[r] # Nothing => AddsUp(r)'
  BY <1>1, <1>2, <1>3 DEF Reported
<1>4. ASSUME NEW r \in Reports, ReadPurchases(r) PROVE Reported' /\ ReportAddsUp'
  <2>1. /\ sheet' = sheet /\ sheet[r] = Nothing /\ phase'[r] \in {"purchasesRead", "failed"}
        /\ \A a \in Reports : a # r => seen'[a] = seen[a] /\ phase'[a] = phase[a]
    BY <1>4 DEF ReadPurchases, Reported, Goto, Requests
  <2>2. ASSUME phase'[r] = "purchasesRead" PROVE Readable(r)'
    <3> DEFINE row == [b \in rows |-> [id |-> b, lines |-> lines[b]]]
               read == {[id |-> b, lines |-> lines[b]] : b \in rows}
    <3>1. seen'[r] = read /\ price' = price
      BY <1>4, <2>2 DEF ReadPurchases, Goto, Requests, stock
    <3>2. row \in Surjection(rows, read)
      BY DEF Surjection
    <3>3. IsFiniteSet(read)
      BY <3>2, FS_Surjection DEF RowsFinite
    <3>4. read \in SUBSET Row
      BY DEF Row
    <3>5. \A p \in read : IsFiniteSet(p.lines) /\ \A l \in p.lines : Exists(l.item)
      BY DEF RowsFinite, LinesKept
    <3> HIDE DEF read
    <3> QED
      BY <3>1, <3>3, <3>4, <3>5 DEF Readable, Known, Exists
  <2> QED
    BY <1>3, <2>1, <2>2 DEF Reported, ReportAddsUp
<1>5. ASSUME NEW r \in Reports, ReadItems(r) PROVE Reported' /\ ReportAddsUp'
  <2>1. /\ seen' = seen /\ gone' = gone /\ phase'[r] \in {"done", "failed"}
        /\ \A a \in Reports : a # r => sheet'[a] = sheet[a] /\ phase'[a] = phase[a]
    BY <1>5 DEF ReadItems, Goto, Requests, stock
  <2>2. ASSUME sheet'[r] # sheet[r] PROVE AddsUp(r)'
    <3>1. sheet'[r] = {[name |-> n, quantity |-> QuantitySold(r, n)] : n \in NamesSold(r)}
      BY <1>5, <2>2 DEF ReadItems
    <3>2. Readable(r)
      BY <1>5 DEF ReadItems, Reported
    <3>3. /\ SumFunction([s \in sheet'[r] |-> s.quantity])
               = SumFunction([p \in seen[r] |-> SumFunction([l \in p.lines |-> l.quantity])])
          /\ \A s \in sheet'[r] : s.name = Unknown =>
                \E p \in seen[r] : \E l \in p.lines : Nameless(l)
      BY <3>1, <3>2, SheetAddsUp
    <3> QED
      BY <2>1, <3>3 DEF AddsUp, Nameless
  <2>3. sheet'[r] = sheet[r] /\ sheet[r] # Nothing => AddsUp(r)'
    BY <1>2, <2>1
  <2> QED
    BY <1>3, <2>1, <2>2, <2>3 DEF Reported, ReportAddsUp
<1>6. CASE /\ UNCHANGED <<seen, sheet>>
           /\ \A r \in Reports : phase'[r] = phase[r] \/ phase'[r] = "dropped"
  BY <1>3, <1>6 DEF Reported, ReportAddsUp
<1>7. \/ \E r \in Reports : ReadPurchases(r) \/ ReadItems(r)
      \/ /\ UNCHANGED <<seen, sheet>>
         /\ \A r \in Reports : phase'[r] = phase[r] \/ phase'[r] = "dropped"
  BY DEF Next, FindItems, Create, CreateFails, Emit, Delete, CreateItem, Reprice, DeleteItem,
         Crash, vars, report, Goto, Requests
<1> QED
  BY <1>4, <1>5, <1>6, <1>7
-----------------------------------------------------------------------------
(* The theorems.                                                           *)

LEMMA InitInv == Init => PurchaseInv
<1> SUFFICES ASSUME Init PROVE PurchaseInv
  OBVIOUS
<1> USE DEF Init
<1>1. TypeOK
  <2>1. /\ price \in [Items -> Prices \cup {NoItem}] /\ gone \subseteq Items
        /\ rows \subseteq Buys /\ lines \in [Buys -> SUBSET Line]
    OBVIOUS
  <2>2. /\ ask \in [Buys -> Order \cup {Nothing}] /\ found \in [Buys -> PriceList \cup {Nothing}]
        /\ bill \in [Buys -> Bill \cup {Nothing}] /\ receipt \in [Buys -> Receipt \cup {Nothing}]
    OBVIOUS
  <2>3. /\ seen \in [Reports -> (SUBSET Row) \cup {Nothing}]
        /\ sheet \in [Reports -> (SUBSET SheetRow) \cup {Nothing}]
    OBVIOUS
  <2>4. phase \in [Requests -> {"idle"} \cup InFlight \cup Ended]
    OBVIOUS
  <2> QED
    BY <2>1, <2>2, <2>3, <2>4 DEF TypeOK
<1>2. Placed /\ Billed /\ Receipted
  BY DEF Placed, Billed, Receipted, Requests
<1>3. ItemsKnown /\ LinesKept
  BY DEF ItemsKnown, LinesKept
<1>4. RowsFinite
  BY FS_EmptySet DEF RowsFinite
<1>5. Reported /\ ReportAddsUp
  BY DEF Reported, ReportAddsUp, Requests
<1> QED
  BY <1>1, <1>2, <1>3, <1>4, <1>5 DEF PurchaseInv

LEMMA PurchaseInductive == Spec => []PurchaseInv
<1>1. PurchaseInv /\ [Next]_vars => PurchaseInv'
  BY StepTyped, StepPlaced, StepBilled, StepReceipted, StepItemsKnown, StepLinesKept, StepReported
     DEF PurchaseInv
<1> QED
  BY InitInv, <1>1, PTL DEF Spec

\* Type correctness of purchases, receipts and reports (purchase.service.ts, item.service.ts).
THEOREM TypeCorrect == Spec => []TypeOK
<1>1. PurchaseInv => TypeOK
  BY DEF PurchaseInv
<1> QED
  BY PurchaseInductive, <1>1, PTL

\* The total that create computes (purchase.service.ts:247-256) is never below zero, and
\* a discount that is not negative never raises it.
THEOREM TotalsInRange == Spec => []TotalInRange
<1>1. PurchaseInv => TotalInRange
  <2> SUFFICES ASSUME PurchaseInv, NEW b \in Buys, bill[b] # Nothing
               PROVE  /\ bill[b].total >= 0
                      /\ ask[b].discount >= 0 => bill[b].total <= Max({0, Sum(b)})
    BY DEF TotalInRange
  <2>1. /\ bill[b].total = Sum(b) - Discount(b) /\ ask[b].discount \in Int
        /\ ask[b] \in Order /\ found[b] \in [Bought(ask[b].lines) -> Prices]
    BY DEF PurchaseInv, Billed, Placed
  <2>2. Sum(b) \in Int
    BY <2>1, AmountsAreWhole
  <2>3. Max({0, Sum(b)}) >= 0 /\ Max({0, Sum(b)}) >= Sum(b) /\ Max({0, Sum(b)}) \in Int
    <3> DEFINE M == IF Sum(b) > 0 THEN Sum(b) ELSE 0
    <3>1. M \in {0, Sum(b)} /\ \A y \in {0, Sum(b)} : M >= y
      BY <2>2
    <3> QED
      BY <2>2, <3>1 DEF Max
  <2> QED
    BY <2>1, <2>2, <2>3 DEF Discount
<1> QED
  BY PurchaseInductive, <1>1, PTL

\* What emitPurchaseCreated sends (purchase.service.ts:58-110) adds up for every list of
\* lines: the lines come back from the database, the prices from the first query.
THEOREM ReceiptsAddUp == Spec => []ReceiptAddsUp
<1>1. PurchaseInv => ReceiptAddsUp
  <2> SUFFICES ASSUME PurchaseInv, NEW b \in Buys, receipt[b] # Nothing
               PROVE  receipt[b].total + receipt[b].discount
                          = SumFunction([l \in receipt[b].lines |-> l.price * l.quantity])
    BY DEF ReceiptAddsUp
  <2> DEFINE c == ask[b].lines
             g == [k \in DOMAIN c |-> found[b][c[k].item] * c[k].quantity]
             e == [k \in DOMAIN c |-> Shown(b, c[k])]
             f == [l \in receipt[b].lines |-> l.price * l.quantity]
  <2>1. /\ bill[b] # Nothing /\ ask[b].discount \in Int
        /\ ask[b] \in Order /\ found[b] \in [Bought(c) -> Prices]
    BY DEF PurchaseInv, Placed, Billed
  <2>2. c \in Seq(Line) /\ IsFiniteSet(DOMAIN c)
    BY <2>1, OrderFacts DEF Order
  <2>3. receipt[b].lines = {e[k] : k \in DOMAIN c}
    <3>1. receipt[b].lines = {Shown(b, l) : l \in bill[b].lines} /\ bill[b].lines = {c[k] : k \in DOMAIN c}
      BY <2>1 DEF PurchaseInv, Billed, Receipted, LinesShown, Range
    <3>2. \A k \in DOMAIN c : e[k] = Shown(b, c[k])
      OBVIOUS
    <3> HIDE DEF c, e
    <3> QED
      BY <3>1, <3>2
  <2>4. \A k, l \in DOMAIN c : e[k] = e[l] => k = l
    BY <2>1 DEF PurchaseInv, Billed, Shown
  <2>5. ASSUME NEW k \in DOMAIN c PROVE g[k] \in Int /\ f[e[k]] = g[k]
    <3>1. found[b][c[k].item] \in Int
      BY <2>1, AmountsAssumption DEF Bought
    <3>2. c[k].quantity \in Int
      <4>1. c[k] \in Line
        BY <2>2
      <4> QED
        BY <4>1 DEF Line
    <3>3. e[k].price = found[b][c[k].item] /\ e[k].quantity = c[k].quantity
      BY DEF Shown, PriceShown
    <3>4. e[k] \in receipt[b].lines
      BY <2>3
    <3>5. f[e[k]] = e[k].price * e[k].quantity
      BY <3>4
    <3>6. g[k] = found[b][c[k].item] * c[k].quantity
      OBVIOUS
    <3> HIDE DEF e, f, g
    <3> QED
      BY <3>1, <3>2, <3>3, <3>5, <3>6
  <2>6. SumFunction(f) = SumFunctionOnSet(f, {e[k] : k \in DOMAIN c})
    BY <2>3 DEF SumFunction
  <2>7. Sum(b) = SumFunctionOnSet(g, DOMAIN c)
    BY DEF Sum, SumFunction
  <2>8. Sum(b) = SumFunction(f)
    <3> HIDE DEF e, f, g, c
    <3> QED
      BY <2>2, <2>4, <2>5, <2>6, <2>7, SumRenamed
  <2>9. Sum(b) \in Int /\ Discount(b) \in Int
    BY <2>1, AmountsAreWhole
  <2>10. receipt[b].total = Sum(b) - Discount(b) /\ receipt[b].discount = Discount(b)
    BY <2>1 DEF PurchaseInv, Billed, Receipted
  <2> QED
    BY <2>8, <2>9, <2>10
<1> QED
  BY PurchaseInductive, <1>1, PTL

\* The lines stored with a purchase (schema.prisma:141-149) are those of its bill, less
\* those of deleted items.
THEOREM LinesStay == Spec => []LinesKept
<1>1. PurchaseInv => LinesKept
  BY DEF PurchaseInv
<1> QED
  BY PurchaseInductive, <1>1, PTL

\* The sheet of generatePurchaseReport (purchase.service.ts:162-180) accounts for all it
\* read, in however many purchases, and calls an item unknown only if it was deleted or
\* has no name of its own.
THEOREM ReportsAddUp == Spec => []ReportAddsUp
<1>1. PurchaseInv => ReportAddsUp
  BY DEF PurchaseInv
<1> QED
  BY PurchaseInductive, <1>1, PTL
=============================================================================
