--------------------------- MODULE MembershipCard ---------------------------
(***************************************************************************)
(* The administrator's request "give card c to member m" (PATCH            *)
(* admin/add-card), AdminService.addMembershipCard, with the row that      *)
(* MembershipPdfService.generateMembershipPdf reads while it runs.  The    *)
(* handler is a chain of awaited calls; one action stands for one awaited  *)
(* call and the code up to the next await, so any two requests interleave  *)
(* between them.  A restart of the process drops every request in flight;  *)
(* the database keeps what was written.                                    *)
(***************************************************************************)
CONSTANTS
    MemberIds,      \* ids an administrator may send
    Members,        \* rows of the Member table
    FormFilled,     \* members whose row has every printed field but the signature
    CardNumbers,    \* card numbers an administrator may send
    Pool,           \* rows of the MembershipCard table
    Requests,
    NoCard,         \* membershipCardNumber is null
    NoDate,         \* memberSince is null
    OldDate         \* a memberSince older than every request

ASSUME MembersAssumption == Members \subseteq MemberIds /\ FormFilled \subseteq Members
ASSUME PoolAssumption == Pool \subseteq CardNumbers /\ NoCard \notin CardNumbers
ASSUME DatesAssumption ==
    NoDate \notin Requests /\ OldDate \notin Requests /\ NoDate # OldDate

VARIABLES
    holds,      \* Member.membershipCardNumber
    since,      \* Member.memberSince, told apart by the request that wrote it
    signed,     \* members with a signatureR2Key
    args,       \* the body of each request
    phase,      \* where each request stands
    snapshot,   \* member.memberSince as the request read it first
    printed,    \* the card number on the PDF of the request
    mailed,     \* requests whose "card assigned" mail was handed to the mailer
    overlaps,   \* history: pairs of requests that were in flight together
    first       \* history: memberSince of each member at the beginning

vars == <<holds, since, signed, args, phase, snapshot, printed, mailed, overlaps, first>>

Dates == {NoDate, OldDate} \cup Requests
Body == [member : MemberIds, card : CardNumbers]

\* Awaiting a call: before the write, and after it.
Checking == {"memberFound", "cardFree"}
Holding == {"connected", "printing", "undo", "printed"}
InFlight == Checking \cup Holding
\* Answered 404, 400 or 500 with nothing written, or dropped before the write.
Refused == {"notFound", "alreadyHasCard", "cardTaken", "failed", "dropped"}
\* "notAssigned" 400 after the rollback; "stuck" 500 because the rollback
\* failed; "unmailed" 500 because the mail template could not be read; "ok"
\* 200; "abandoned" dropped after the write.
Ended == Refused \cup {"notAssigned", "stuck", "unmailed", "ok", "abandoned"}

TypeOK ==
    /\ holds \in [Members -> Pool \cup {NoCard}]
    /\ since \in [Members -> Dates]
    /\ signed \subseteq Members
    /\ args \in [Requests -> Body]
    /\ phase \in [Requests -> {"idle"} \cup InFlight \cup Ended]
    /\ snapshot \in [Requests -> Dates]
    /\ printed \in [Requests -> Pool \cup {NoCard}]
    /\ mailed \subseteq Requests
    /\ overlaps \subseteq Requests \X Requests
    /\ first \in [Members -> {NoDate, OldDate}]

Unshared(h) == \A a, b \in DOMAIN h : h[a] = h[b] /\ h[a] # NoCard => a = b

Init ==
    /\ holds \in [Members -> Pool \cup {NoCard}]
    /\ Unshared(holds)
    /\ since \in [Members -> {NoDate, OldDate}]
    /\ \A m \in Members : holds[m] # NoCard => since[m] = OldDate
    /\ signed \in SUBSET Members
    /\ args \in [Requests -> Body]
    /\ phase = [r \in Requests |-> "idle"]
    /\ snapshot = [r \in Requests |-> NoDate]
    /\ printed = [r \in Requests |-> NoCard]
    /\ mailed = {}
    /\ overlaps = {}
    /\ first = since

Running == {r \in Requests : phase[r] \in InFlight}

Goto(r, p) == phase' = [phase EXCEPT ![r] = p]

-----------------------------------------------------------------------------
(* The checks of the handler, each on what one query returned.             *)

HasCard(m) == holds[m] # NoCard

CardExists(c) == c \in Pool

\* Mutant: the holder of the card is not looked at.
NeverTaken(c) == c \notin CardNumbers
CardTaken(c) == \E m \in Members : holds[m] = c

FindMember(r) ==
    LET m == args[r].member IN
    /\ phase[r] = "idle"
    /\ overlaps' = overlaps \cup ({r} \X Running) \cup (Running \X {r})
    /\ \/ m \notin Members /\ Goto(r, "notFound") /\ UNCHANGED snapshot
       \/ m \in Members /\ HasCard(m) /\ Goto(r, "alreadyHasCard") /\ UNCHANGED snapshot
       \/ /\ m \in Members /\ ~HasCard(m)
          /\ Goto(r, "memberFound")
          /\ snapshot' = [snapshot EXCEPT ![r] = since[m]]
    /\ UNCHANGED <<holds, since, signed, args, printed, mailed, first>>

FindCard(r) ==
    LET c == args[r].card IN
    /\ phase[r] = "memberFound"
    /\ \/ ~CardExists(c) /\ Goto(r, "notFound")
       \/ CardExists(c) /\ CardTaken(c) /\ Goto(r, "cardTaken")
       \/ CardExists(c) /\ ~CardTaken(c) /\ Goto(r, "cardFree")
    /\ UNCHANGED <<holds, since, signed, args, snapshot, printed, mailed, overlaps, first>>

\* A query before the write, or the write itself, rejects: 500, nothing written.
QueryFails(r) ==
    /\ phase[r] \in Checking
    /\ Goto(r, "failed")
    /\ UNCHANGED <<holds, since, signed, args, snapshot, printed, mailed, overlaps, first>>

\* Mutant: the former holder keeps the card.
Shared(m, c) == [holds EXCEPT ![m] = c]
\* The relation is one to one, so a card that meanwhile belongs to somebody
\* else leaves that member.
Transferred(m, c) == [x \in Members |-> IF x = m THEN c
                                        ELSE IF holds[x] = c THEN NoCard ELSE holds[x]]

Connect(r) ==
    LET m == args[r].member IN
    /\ phase[r] = "cardFree"
    /\ holds' = Transferred(m, args[r].card)
    /\ since' = [since EXCEPT ![m] = r]
    /\ Goto(r, "connected")
    /\ UNCHANGED <<signed, args, snapshot, printed, mailed, overlaps, first>>

-----------------------------------------------------------------------------
(* The PDF, and the rollback when it cannot be made.                       *)

\* Mutant: membershipCardNumber is not among the fields.
PrintableWithoutCard(m) == m \in FormFilled \cap signed /\ since[m] # NoDate
\* The fields generateMembershipPdf requires.
Printable(m) ==
    /\ m \in FormFilled \cap signed
    /\ HasCard(m)
    /\ since[m] # NoDate

\* The PDF is drawn from the row as it is now, not as it was checked above.
ReadPdfData(r) ==
    LET m == args[r].member IN
    /\ phase[r] = "connected"
    /\ Printable(m)
    /\ Goto(r, "printing")
    /\ printed' = [printed EXCEPT ![r] = holds[m]]
    /\ UNCHANGED <<holds, since, signed, args, snapshot, mailed, overlaps, first>>

\* The signature is downloaded and the PDF drawn.
RenderPdf(r) ==
    /\ phase[r] = "printing"
    /\ Goto(r, "printed")
    /\ UNCHANGED <<holds, since, signed, args, snapshot, printed, mailed, overlaps, first>>

\* Mutant: an error of the first query is not caught and the answer never comes.
PdfFailsWhilePrinting(r) ==
    /\ phase[r] = "printing"
    /\ Goto(r, "undo")
    /\ UNCHANGED <<holds, since, signed, args, snapshot, printed, mailed, overlaps, first>>

\* Incomplete data, a failed query, a failed download or a drawing error.
PdfFails(r) ==
    /\ phase[r] \in {"connected", "printing"}
    /\ Goto(r, "undo")
    /\ UNCHANGED <<holds, since, signed, args, snapshot, printed, mailed, overlaps, first>>

\* Mutants: the card is not disconnected; memberSince is left alone, or erased.
CardKept(m) == holds
CardRemoved(m) == [holds EXCEPT ![m] = NoCard]
DateKept(r) == since
DateErased(r) == [since EXCEPT ![args[r].member] = NoDate]
DateRestored(r) == [since EXCEPT ![args[r].member] = snapshot[r]]

\* The catch block: disconnect, and put the memberSince read at first back.
Rollback(r) ==
    /\ phase[r] = "undo"
    /\ holds' = CardRemoved(args[r].member)
    /\ since' = DateRestored(r)
    /\ Goto(r, "notAssigned")
    /\ UNCHANGED <<signed, args, snapshot, printed, mailed, overlaps, first>>

\* The update of the catch block rejects: 500, the card stays with the member.
RollbackFails(r) ==
    /\ phase[r] = "undo"
    /\ Goto(r, "stuck")
    /\ UNCHANGED <<holds, since, signed, args, snapshot, printed, mailed, overlaps, first>>

-----------------------------------------------------------------------------
(* The mail and the answer.                                                *)

\* The template is read, the mail is handed over and not waited for.
Answer(r) ==
    /\ phase[r] = "printed"
    /\ mailed' = mailed \cup {r}
    /\ Goto(r, "ok")
    /\ UNCHANGED <<holds, since, signed, args, snapshot, printed, overlaps, first>>

\* readFile rejects: 500, although the card is assigned.
TemplateFails(r) ==
    /\ phase[r] = "printed"
    /\ Goto(r, "unmailed")
    /\ UNCHANGED <<holds, since, signed, args, snapshot, printed, mailed, overlaps, first>>

-----------------------------------------------------------------------------
(* The environment.                                                        *)

\* A member that registered before signatures existed adds one.
AddSignature(m) ==
    /\ m \notin signed
    /\ signed' = signed \cup {m}
    /\ UNCHANGED <<holds, since, args, phase, snapshot, printed, mailed, overlaps, first>>

\* The process restarts: requests in flight are gone, the rows stay.
Crash ==
    /\ Running # {}
    /\ phase' = [r \in Requests |->
                    IF phase[r] \in Checking THEN "dropped"
                    ELSE IF phase[r] \in Holding THEN "abandoned" ELSE phase[r]]
    /\ UNCHANGED <<holds, since, signed, args, snapshot, printed, mailed, overlaps, first>>

Continue(r) ==
    \/ FindCard(r) \/ QueryFails(r) \/ Connect(r)
    \/ ReadPdfData(r) \/ RenderPdf(r) \/ PdfFails(r)
    \/ Rollback(r) \/ RollbackFails(r)
    \/ Answer(r) \/ TemplateFails(r)

Next ==
    \/ \E r \in Requests : FindMember(r) \/ Continue(r)
    \/ \E m \in Members : AddSignature(m)
    \/ Crash

Spec == Init /\ [][Next]_vars

\* An awaited call settles sooner or later; nobody has to send a request.
FairSpec == Spec /\ \A r \in Requests : WF_vars(Continue(r))

-----------------------------------------------------------------------------
(* Properties.                                                             *)

\* Requests that may still take from r what it was given.
SameMember(r, s) == args[s].member = args[r].member
Rival(r, s) == SameMember(r, s) \/ args[s].card = args[r].card
HadTwin(r) == \E s \in Requests \ {r} : <<r, s>> \in overlaps /\ SameMember(r, s)
HadRival(r) == \E s \in Requests \ {r} : <<r, s>> \in overlaps /\ Rival(r, s)

\* Two members never hold the same card, although the check that a card is
\* free and the write are separate calls (admin.service.ts:217-238).
CardsUnshared == Unshared(holds)

\* Whoever holds a card had it from the beginning or since the very request
\* that gave it, which is still at work, made a PDF of complete data, was
\* dropped, or answered 500 because the undoing failed.  A request that
\* answered 400 leaves no card behind (admin.service.ts:246-267).
Justified(m, r) ==
    /\ args[r] = [member |-> m, card |-> holds[m]]
    /\ \/ phase[r] \in {"connected", "undo", "stuck", "abandoned"}
       \/ phase[r] \in {"printing", "printed", "unmailed", "ok"} /\ m \in FormFilled \cap signed
EveryHolderJustified ==
    \A m \in Members : HasCard(m) =>
        since[m] = OldDate \/ \E r \in Requests : since[m] = r /\ Justified(m, r)

\* A request answered 200, or announced by mail, is lasting: the member holds
\* the card unless another request for the same member or card was in flight
\* at the same time (admin.service.ts:199-307).
GrantLostOnlyToRival ==
    \A r \in Requests : phase[r] = "ok" \/ r \in mailed =>
        holds[args[r].member] = args[r].card \/ HadRival(r)

\* The PDF that is attached to the mail shows the card the mail names, unless
\* another request for the same member was in flight: it is drawn from a
\* second read of the row (membership-pdf.service.ts:32).
PdfShowsOwnCard ==
    \A r \in Requests : phase[r] \in {"printing", "printed", "ok"} =>
        printed[r] = args[r].card \/ HadTwin(r)

\* A member without a card has the memberSince it had before any request, set
\* or not, unless it has the date of a request that had a rival: alone, the
\* catch block puts back what the request found (admin.service.ts:246-262).
OriginalDateKept ==
    \A m \in Members : ~HasCard(m) =>
        \/ since[m] = first[m]
        \/ since[m] \in Requests /\ HadRival(since[m])

\* Every request that was begun is answered or dropped by a restart, whatever
\* call rejects: none waits for ever on a card it holds (admin.service.ts:240-267).
EveryRequestEnds ==
    \A r \in Requests : phase[r] \in InFlight ~> phase[r] \in Ended

\* A request without rival is a transaction on the row of its member: it finds
\* no card there and the card free when it writes, and if it is undone the row is
\* as it was found, although five awaits lie between (admin.service.ts:199-262).
Stage(r) ==
    CASE phase[r] = "idle" -> "idle"
      [] phase[r] \in Checking -> "open"
      [] phase[r] \in Holding -> "given"
      [] OTHER -> "closed"
Registry == INSTANCE CardRegistry WITH
    at <- [r \in Requests |-> Stage(r)],
    prior <- snapshot,
    contested <- {r \in Requests : HadRival(r)}
RegistryRefined == Registry!Spec
=============================================================================
