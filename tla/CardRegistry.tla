---------------------------- MODULE CardRegistry ----------------------------
(***************************************************************************)
(* What the assignment of membership cards promises, whatever requests run *)
(* at the same time.  A card has at most one holder.  A request that never *)
(* had a rival is a transaction: it gives a free card to a member without  *)
(* one, whose row is still as the request found it, and nobody loses a     *)
(* card by it; if it is undone, that row is again as the request found it. *)
(* Nothing is said of how a request finds out, or why it is undone.        *)
(***************************************************************************)
CONSTANTS Members, Pool, Requests, NoCard, NoDate, OldDate

VARIABLES
    holds,      \* the card of each member
    since,      \* the date of each member
    args,       \* the member and the card each request names
    at,         \* "idle", "open", "given" or "closed"
    prior,      \* the date each request found
    contested   \* requests that had a rival

vars == <<holds, since, args, at, prior, contested>>

Unshared(h) == \A a, b \in DOMAIN h : h[a] = h[b] /\ h[a] # NoCard => a = b

Init ==
    /\ holds \in [Members -> Pool \cup {NoCard}]
    /\ Unshared(holds)
    /\ since \in [Members -> {NoDate, OldDate}]
    /\ at = [r \in Requests |-> "idle"]
    /\ prior = [r \in Requests |-> NoDate]
    /\ contested = {}

Open == {r \in Requests : at[r] \in {"open", "given"}}
Goto(S, p) == at' = [r \in Requests |-> IF r \in S THEN p ELSE at[r]]

\* The open requests that want the same member or the same card as r.
Rivals(r) == {s \in Open : args[s].member = args[r].member \/ args[s].card = args[r].card}

\* From here on r and its rivals know of each other.
Begin(r) ==
    /\ at[r] = "idle"
    /\ \/ /\ args[r].member \in Members
          /\ prior' = [prior EXCEPT ![r] = since[args[r].member]]
          /\ Goto({r}, "open")
       \/ Goto({r}, "closed") /\ UNCHANGED prior
    /\ contested' = contested \cup Rivals(r) \cup {x \in {r} : Rivals(r) # {}}
    /\ UNCHANGED <<holds, since, args>>

\* What a transaction may count on before it gives, and before it is undone.
AsFound(r) ==
    /\ holds[args[r].member] = NoCard
    /\ \A x \in Members : holds[x] # args[r].card
    /\ since[args[r].member] = prior[r]
AsGiven(r) == holds[args[r].member] = args[r].card /\ since[args[r].member] = r

\* A card that has a holder leaves it: two members never have one card.
Give(r) ==
    LET m == args[r].member IN
    /\ at[r] = "open"
    /\ r \in contested \/ AsFound(r)
    /\ holds'[m] = args[r].card /\ Unshared(holds')
    /\ \A x \in Members \ {m} : holds[x] # args[r].card => holds'[x] = holds[x]
    /\ since' = [since EXCEPT ![m] = r]
    /\ Goto({r}, "given")
    /\ UNCHANGED <<args, prior, contested>>

Undo(r) ==
    /\ at[r] = "given"
    /\ r \in contested \/ AsGiven(r)
    /\ holds' = [holds EXCEPT ![args[r].member] = NoCard]
    /\ since' = [since EXCEPT ![args[r].member] = prior[r]]
    /\ Goto({r}, "closed")
    /\ UNCHANGED <<args, prior, contested>>

\* Refused, confirmed or cut off: the rows stay as they are.
Close(S) ==
    /\ S # {}
    /\ Goto(S, "closed")
    /\ UNCHANGED <<holds, since, args, prior, contested>>

Next ==
    \/ \E r \in Requests : Begin(r) \/ Give(r) \/ Undo(r)
    \/ \E S \in SUBSET Open : Close(S)

Spec == Init /\ [][Next]_vars
=============================================================================
