------------------------------- MODULE Expense ------------------------------
(***************************************************************************)
(* ExpenseService: an expense is a row, and where there is a receipt also  *)
(* a picture in the object store.  The two are written, and deleted, by    *)
(* different calls, the picture first.  One action is one awaited call and *)
(* the code up to the next.                                                *)
(***************************************************************************)
EXTENDS Integers, FiniteSets

CONSTANTS
    Creates,    \* requests to create an expense; also the ids of the expenses,
                \* and the keys (a uuid each) of their pictures
    Repays,     \* requests to set an expense repaid, or not
    Deletes,    \* requests to delete one
    Contents    \* the values of user, description, amount and date

ASSUME RequestsAssumption ==
    Creates \cap Repays = {} /\ Creates \cap Deletes = {} /\ Repays \cap Deletes = {}

VARIABLES
    rows,       \* expenses that exist
    repaid,     \* Expense.repaid
    pictures,   \* keys in the object store
    content,    \* what each request asks to create
    pictured,   \* requests that come with a picture
    target,     \* the expense each other request names
    phase       \* where each request stands

vars == <<rows, repaid, pictures, content, pictured, target, phase>>
input == <<content, pictured, target>>

Requests == Creates \cup Repays \cup Deletes
\* "insert": the row is next; "unlink": the picture is to be deleted; "remove":
\* the row is.
InFlight == {"insert", "unlink", "remove"}
\* "absent": 400 "Expense not found"; "unread": the first call of a deletion failed;
\* "failed": any later call did; "dropped": the process stopped.
Ended == {"done", "absent", "unread", "failed", "dropped"}

TypeOK ==
    /\ rows \subseteq Creates
    /\ repaid \in [Creates -> BOOLEAN]
    /\ pictures \subseteq pictured
    /\ content \in [Creates -> Contents]
    /\ pictured \subseteq Creates
    /\ target \in [Repays \cup Deletes -> Creates]
    /\ phase \in [Requests -> {"idle"} \cup InFlight \cup Ended]

Init ==
    /\ rows = {}
    /\ repaid = [c \in Creates |-> FALSE]
    /\ pictures = {}
    /\ content \in [Creates -> Contents]
    /\ pictured \in SUBSET Creates
    /\ target \in [Repays \cup Deletes -> Creates]
    /\ phase = [r \in Requests |-> "idle"]

Goto(r, p) == phase' = [phase EXCEPT ![r] = p]

-----------------------------------------------------------------------------
(* createExpense.                                                          *)

\* An empty picture is none.
Start(c) ==
    /\ phase[c] = "idle" /\ c \notin pictured
    /\ Goto(c, "insert")
    /\ UNCHANGED <<rows, repaid, pictures, input>>

Upload(c) ==
    /\ phase[c] = "idle" /\ c \in pictured
    /\ pictures' = pictures \cup {c}
    /\ Goto(c, "insert")
    /\ UNCHANGED <<rows, repaid, input>>

\* Mutant: the row is written although the upload failed.
UploadFailsSilently(c) ==
    /\ phase[c] = "idle" /\ c \in pictured
    /\ pictures' \in {pictures, pictures \cup {c}}
    /\ Goto(c, "insert")
    /\ UNCHANGED <<rows, repaid, input>>
\* The picture cannot be converted, or the store rejects it; it may have it anyway.
UploadFails(c) ==
    /\ phase[c] = "idle" /\ c \in pictured
    /\ pictures' \in {pictures, pictures \cup {c}}
    /\ Goto(c, "failed")
    /\ UNCHANGED <<rows, repaid, input>>

Insertable(c) == \A d \in rows : content[d] # content[c]

Insert(c) == \E r \in BOOLEAN :
    /\ phase[c] = "insert"
    /\ Insertable(c)
    /\ rows' = rows \cup {c}
    /\ repaid' = [repaid EXCEPT ![c] = r]
    /\ Goto(c, "done")
    /\ UNCHANGED <<pictures, input>>

InsertFails(c) ==
    /\ phase[c] = "insert"
    /\ Goto(c, "failed")
    /\ UNCHANGED <<rows, repaid, pictures, input>>

-----------------------------------------------------------------------------
(* setExpenseRepaid.                                                       *)

SetRepaid(r) == \E v \in BOOLEAN :
    /\ phase[r] = "idle"
    /\ target[r] \in rows
    /\ repaid' = [repaid EXCEPT ![target[r]] = v]
    /\ Goto(r, "done")
    /\ UNCHANGED <<rows, pictures, input>>

SetRepaidFails(r) ==
    /\ phase[r] = "idle"
    /\ Goto(r, "failed")
    /\ UNCHANGED <<rows, repaid, pictures, input>>

-----------------------------------------------------------------------------
(* deleteExpense.                                                          *)

\* Mutant: the picture is forgotten.
RowOnly(d) == "remove"
FirstOf(d) == IF target[d] \in pictured THEN "unlink" ELSE "remove"

Find(d) ==
    /\ phase[d] = "idle"
    /\ \/ target[d] \in rows /\ Goto(d, FirstOf(d))
       \/ target[d] \notin rows /\ Goto(d, "absent")
       \/ Goto(d, "unread")
    /\ UNCHANGED <<rows, repaid, pictures, input>>

\* The store does not mind a key it does not have.
Unlink(d) ==
    /\ phase[d] = "unlink"
    /\ pictures' = pictures \ {target[d]}
    /\ Goto(d, "remove")
    /\ UNCHANGED <<rows, repaid, input>>

\* The picture may be gone anyway.
UnlinkFails(d) ==
    /\ phase[d] = "unlink"
    /\ pictures' \in {pictures, pictures \ {target[d]}}
    /\ Goto(d, "failed")
    /\ UNCHANGED <<rows, repaid, input>>

\* Mutant: to delete a row that is gone is no error.
Always(d) == TRUE
Removable(d) == target[d] \in rows

Remove(d) ==
    /\ phase[d] = "remove"
    /\ Removable(d)
    /\ rows' = rows \ {target[d]}
    /\ Goto(d, "done")
    /\ UNCHANGED <<repaid, pictures, input>>

RemoveFails(d) ==
    /\ phase[d] = "remove"
    /\ Goto(d, "failed")
    /\ UNCHANGED <<rows, repaid, pictures, input>>

-----------------------------------------------------------------------------

Crash ==
    /\ \E r \in Requests : phase[r] \in InFlight
    /\ phase' = [r \in Requests |-> IF phase[r] \in InFlight THEN "dropped" ELSE phase[r]]
    /\ UNCHANGED <<rows, repaid, pictures, input>>

Next ==
    \/ \E c \in Creates : Start(c) \/ Upload(c) \/ UploadFails(c) \/ Insert(c) \/ InsertFails(c)
    \/ \E r \in Repays : SetRepaid(r) \/ SetRepaidFails(r)
    \/ \E d \in Deletes : Find(d) \/ Unlink(d) \/ UnlinkFails(d) \/ Remove(d) \/ RemoveFails(d)
    \/ Crash

Spec == Init /\ [][Next]_vars

-----------------------------------------------------------------------------
(* Properties.                                                             *)

\* Deletions of an expense that have found it and gone on.
Deleting(c) == {d \in Deletes : target[d] = c /\ phase[d] \notin {"idle", "absent", "unread"}}

\* An expense that was created with a picture has it in the store until a deletion
\* of that expense has begun: rows do not point at nothing.
PictureKept == \A c \in rows \cap pictured : c \in pictures \/ Deleting(c) # {}

\* Once an expense that was created is deleted, by however many requests and after
\* however many failures, its picture is gone with it: a picture without a row is
\* the trace of a creation that failed or is still going on.
NoPictureLeft == \A c \in pictures \ rows : phase[c] # "done"

\* What was deleted stays deleted, whatever requests about it are under way, and
\* at most one of the requests that delete it is answered with success.
DeletedOnce == \A c \in Creates :
    LET finished == {d \in Deletes : target[d] = c /\ phase[d] = "done"}
    IN Cardinality(finished) <= 1 /\ (finished # {} => c \notin rows)
=============================================================================
