----------------------------- MODULE CardReaders -----------------------------
(***************************************************************************)
(* The requests that read what the card requests write: the spreadsheet of *)
(* AdminService.exportMembersToExcel (GET admin/export-members), whose two *)
(* sheets come from two queries, and the form of one member                *)
(* (GET membership-pdf/:id), drawn after the row was read.  Neither holds  *)
(* a transaction, so card requests run between their calls; the steps of   *)
(* those are the actions of MembershipCard.                                *)
(***************************************************************************)
EXTENDS MembershipCard

CONSTANTS
    Exports,        \* requests for the spreadsheet
    Downloads,      \* requests for the form of a member
    Nobody          \* a card without member

ASSUME ReadersAssumption == Exports \cap Downloads = {} /\ Nobody \notin Members

VARIABLES
    stage,      \* where each reader stands
    subject,    \* the id in the path of each download
    soci,       \* sheet "Members" of each export: the card of every member
    tessere,    \* sheet "Tessere" of each export: the member of every card
    shown,      \* the card number on the form of each download
    beside      \* history: readers and card requests that were in flight together

Readers == Exports \cup Downloads
readers == <<stage, subject, soci, tessere, shown, beside>>

Reading == {x \in Readers : stage[x] \in {"membersRead", "cardsRead", "drawing"}}

ReadersTypeOK ==
    /\ stage \in [Readers -> {"idle", "membersRead", "cardsRead", "drawing",
                              "done", "refused", "failed", "dropped"}]
    /\ subject \in [Downloads -> MemberIds]
    /\ soci \in [Exports -> [Members -> Pool \cup {NoCard}]]
    /\ tessere \in [Exports -> [Pool -> Members \cup {Nobody}]]
    /\ shown \in [Downloads -> Pool \cup {NoCard}]
    /\ beside \subseteq Readers \X Requests

InitReaders ==
    /\ Init
    /\ stage = [x \in Readers |-> "idle"]
    /\ subject \in [Downloads -> MemberIds]
    /\ soci = [e \in Exports |-> [m \in Members |-> NoCard]]
    /\ tessere = [e \in Exports |-> [c \in Pool |-> Nobody]]
    /\ shown = [d \in Downloads |-> NoCard]
    /\ beside = {}

Enter(x, s) == stage' = [stage EXCEPT ![x] = s]
Meet == beside' = beside \cup (Reading \X Running)'

-----------------------------------------------------------------------------
(* The spreadsheet.                                                        *)

ReadMembers(e) ==
    /\ stage[e] = "idle"
    /\ soci' = [soci EXCEPT ![e] = holds]
    /\ Enter(e, "membersRead")
    /\ UNCHANGED <<subject, tessere, shown>>

\* The member a card is joined with.
Holder(c) == IF CardTaken(c) THEN CHOOSE m \in Members : holds[m] = c ELSE Nobody

ReadCards(e) ==
    /\ stage[e] = "membersRead"
    /\ tessere' = [tessere EXCEPT ![e] = [c \in Pool |-> Holder(c)]]
    /\ Enter(e, "cardsRead")
    /\ UNCHANGED <<subject, soci, shown>>

\* The workbook is written to a buffer and sent.
WriteBuffer(e) ==
    /\ stage[e] = "cardsRead"
    /\ Enter(e, "done")
    /\ UNCHANGED <<subject, soci, tessere, shown>>

-----------------------------------------------------------------------------
(* The form of one member.                                                 *)

\* The row is read; 400 if there is none or a printed field is empty.
ReadRow(d) ==
    LET m == subject[d] IN
    /\ stage[d] = "idle"
    /\ \/ /\ m \in Members /\ Printable(m)
          /\ shown' = [shown EXCEPT ![d] = holds[m]]
          /\ Enter(d, "drawing")
       \/ /\ m \in Members => ~Printable(m)
          /\ Enter(d, "refused")
          /\ UNCHANGED shown
    /\ UNCHANGED <<subject, soci, tessere>>

\* The signature is downloaded, the form drawn and sent.
Deliver(d) ==
    /\ stage[d] = "drawing"
    /\ Enter(d, "done")
    /\ UNCHANGED <<subject, soci, tessere, shown>>

-----------------------------------------------------------------------------
\* A query, the download, the drawing or the writing rejects: 500.
ReaderFails(x) ==
    /\ stage[x] = "idle" \/ x \in Reading
    /\ Enter(x, "failed")
    /\ UNCHANGED <<subject, soci, tessere, shown>>

\* The process restarts: requests of both kinds are gone.
Restart ==
    /\ Crash \/ (Running = {} /\ Reading # {} /\ UNCHANGED vars)
    /\ stage' = [x \in Readers |-> IF x \in Reading THEN "dropped" ELSE stage[x]]
    /\ UNCHANGED <<subject, soci, tessere, shown>>

ReaderStep ==
    \/ \E e \in Exports : ReadMembers(e) \/ ReadCards(e) \/ WriteBuffer(e)
    \/ \E d \in Downloads : ReadRow(d) \/ Deliver(d)
    \/ \E x \in Readers : ReaderFails(x)

CardStep ==
    \/ \E r \in Requests : FindMember(r) \/ Continue(r)
    \/ \E m \in Members : AddSignature(m)

NextReaders ==
    /\ \/ CardStep /\ UNCHANGED <<stage, subject, soci, tessere, shown>>
       \/ ReaderStep /\ UNCHANGED vars
       \/ Restart
    /\ Meet

SpecReaders == InitReaders /\ [][NextReaders]_<<vars, readers>>

-----------------------------------------------------------------------------
(* Properties.                                                             *)

\* A card request for member m or card c was in flight with the reader.
Disturbed(x, m, c) ==
    \E r \in Requests : <<x, r>> \in beside /\ (args[r].member = m \/ args[r].card = c)

\* The two sheets of a spreadsheet tell the same of every member and card,
\* except where a card request for that member or card ran with the export:
\* the queries are two calls without a transaction (admin.service.ts:46-65).
SheetsAgree ==
    \A e \in Exports, m \in Members, c \in Pool : stage[e] = "done" =>
        (soci[e][m] = c <=> tessere[e][c] = m) \/ Disturbed(e, m, c)

\* A form that was handed out shows a card its member still holds, unless a
\* card request for that member or card ran while the form was made
\* (membership-pdf.service.ts:32-92, admin.service.ts:213-262).
FormLasts ==
    \A d \in Downloads : stage[d] = "done" =>
        \/ holds[subject[d]] = shown[d]
        \/ Disturbed(d, subject[d], shown[d])
=============================================================================
