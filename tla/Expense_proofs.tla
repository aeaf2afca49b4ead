--------------------------- MODULE Expense_proofs ---------------------------
(***************************************************************************)
(* The expenses' rows and pictures stay together for any number of         *)
(* expenses, updates and deletions.                                        *)
(***************************************************************************)
EXTENDS Expense, FiniteSetTheorems, TLAPS

USE DEF Requests, input

-----------------------------------------------------------------------------
(* Type correctness.                                                       *)

\* The initial states have their types.
LEMMA InitTypes == Init => TypeOK
  BY DEF Init, TypeOK

\* Every step keeps the types: pictures are uploaded for expenses that come with
\* one.
LEMMA StepTypes == TypeOK /\ [Next]_vars => TypeOK'
<1> SUFFICES ASSUME TypeOK, [Next]_vars PROVE TypeOK'
  OBVIOUS
<1> USE DEF TypeOK, Goto, InFlight, Ended
<1>1. ASSUME NEW c \in Creates, Start(c) \/ Upload(c) \/ UploadFails(c)
      PROVE  TypeOK'
  BY <1>1 DEF Start, Upload, UploadFails
<1>2. ASSUME NEW c \in Creates, Insert(c) \/ InsertFails(c)
      PROVE  TypeOK'
  BY <1>2 DEF Insert, InsertFails
<1>3. ASSUME NEW r \in Repays, SetRepaid(r) \/ SetRepaidFails(r)
      PROVE  TypeOK'
  BY <1>3 DEF SetRepaid, SetRepaidFails
<1>4. ASSUME NEW d \in Deletes, Find(d) \/ Remove(d) \/ RemoveFails(d)
      PROVE  TypeOK'
  BY <1>4 DEF Find, FirstOf, Remove, RemoveFails
<1>5. ASSUME NEW d \in Deletes, Unlink(d) \/ UnlinkFails(d)
      PROVE  TypeOK'
  BY <1>5 DEF Unlink, UnlinkFails
<1>6. CASE Crash
  BY <1>6 DEF Crash
<1>7. CASE UNCHANGED vars
  BY <1>7 DEF vars
<1> QED
  BY <1>1, <1>2, <1>3, <1>4, <1>5, <1>6, <1>7 DEF Next

\* The expense service is type correct.
THEOREM TypeCorrect == Spec => []TypeOK
  BY InitTypes, StepTypes, PTL DEF Spec

-----------------------------------------------------------------------------
(* The inductive invariant.  A row is of a creation that is done; a        *)
(* deletion that has gone on is of an expense whose creation is done, and  *)
(* so no creation interferes with it any more.                             *)

\* A deletion that found its expense and went on.
Gone(d) == phase[d] \notin {"idle", "absent", "unread"}

RowsAreDone == \A c \in rows : phase[c] = "done"
DeletionsFollow == \A d \in Deletes : Gone(d) => phase[target[d]] = "done"
InsertHasPicture == \A c \in pictured : phase[c] = "insert" => c \in pictures
RemoveHasNone == \A d \in Deletes : phase[d] = "remove" => target[d] \notin pictures
DoneHasNoRow == \A d \in Deletes : phase[d] = "done" => target[d] \notin rows
DoneIsOne ==
    \A d, e \in Deletes : phase[d] = "done" /\ phase[e] = "done" /\ target[d] = target[e] => d = e

Kept == \A c \in rows \cap pictured :
    c \in pictures \/ \E d \in Deletes : target[d] = c /\ Gone(d)

IInv ==
    /\ TypeOK /\ RowsAreDone /\ DeletionsFollow /\ InsertHasPicture
    /\ RemoveHasNone /\ DoneHasNoRow /\ DoneIsOne /\ Kept /\ NoPictureLeft

\* It holds when nothing has been created.
LEMMA InitIInv == Init => IInv
<1> SUFFICES ASSUME Init PROVE IInv
  OBVIOUS
<1>1. TypeOK
  BY InitTypes
<1>2. \A r \in Requests : phase[r] = "idle"
  BY DEF Init
<1>3. rows = {} /\ pictures = {}
  BY DEF Init
<1> QED
  BY <1>1, <1>2, <1>3 DEF IInv, TypeOK, RowsAreDone, DeletionsFollow, InsertHasPicture, RemoveHasNone,
     DoneHasNoRow, DoneIsOne, Kept, NoPictureLeft, Gone

\* A step of a creation.
LEMMA CreateIInv ==
  ASSUME IInv, TypeOK', NEW c \in Creates,
         Start(c) \/ Upload(c) \/ UploadFails(c) \/ Insert(c) \/ InsertFails(c)
  PROVE  IInv'
<1> USE RequestsAssumption DEF IInv, TypeOK, Goto, Gone, InFlight, Ended
<1>1. RowsAreDone'
  BY DEF RowsAreDone, Start, Upload, UploadFails, Insert, InsertFails
<1>2. DeletionsFollow'
  BY DEF DeletionsFollow, Start, Upload, UploadFails, Insert, InsertFails
<1>3. InsertHasPicture'
  BY DEF InsertHasPicture, Start, Upload, UploadFails, Insert, InsertFails
<1>4. RemoveHasNone'
  BY DEF RemoveHasNone, DeletionsFollow, Start, Upload, UploadFails, Insert, InsertFails
<1>5. DoneHasNoRow'
  BY DEF DoneHasNoRow, DeletionsFollow, Start, Upload, UploadFails, Insert, InsertFails
<1>6. DoneIsOne'
  BY DEF DoneIsOne, Start, Upload, UploadFails, Insert, InsertFails
<1>7. Kept'
  BY DEF Kept, InsertHasPicture, Start, Upload, UploadFails, Insert, InsertFails
<1>8. NoPictureLeft'
  BY DEF NoPictureLeft, RowsAreDone, Start, Upload, UploadFails, Insert, InsertFails
<1> QED
  BY <1>1, <1>2, <1>3, <1>4, <1>5, <1>6, <1>7, <1>8

\* An update changes neither rows nor pictures.
LEMMA RepayIInv ==
  ASSUME IInv, TypeOK', NEW r \in Repays, SetRepaid(r) \/ SetRepaidFails(r)
  PROVE  IInv'
<1>1. /\ UNCHANGED <<rows, pictures, content, pictured, target>>
      /\ \A q \in Creates \cup Deletes : phase'[q] = phase[q]
  BY RequestsAssumption DEF SetRepaid, SetRepaidFails, Goto, IInv, TypeOK
<1> QED
  BY <1>1 DEF IInv, TypeOK, RowsAreDone, DeletionsFollow, InsertHasPicture, RemoveHasNone,
     DoneHasNoRow, DoneIsOne, Kept, NoPictureLeft, Gone

\* A step of a deletion.
LEMMA DeleteIInv ==
  ASSUME IInv, TypeOK', NEW d \in Deletes,
         Find(d) \/ Unlink(d) \/ UnlinkFails(d) \/ Remove(d) \/ RemoveFails(d)
  PROVE  IInv'
<1> USE RequestsAssumption DEF IInv, TypeOK, Goto, Gone, InFlight, Ended
<1>1. RowsAreDone'
  BY DEF RowsAreDone, Find, Unlink, UnlinkFails, Remove, RemoveFails
<1>2. DeletionsFollow'
  BY DEF DeletionsFollow, RowsAreDone, Find, Unlink, UnlinkFails, Remove, RemoveFails
<1>3. InsertHasPicture'
  BY DEF InsertHasPicture, DeletionsFollow, Find, Unlink, UnlinkFails, Remove, RemoveFails
<1>4. RemoveHasNone'
  BY DEF RemoveHasNone, Find, FirstOf, Unlink, UnlinkFails, Remove, RemoveFails
<1>5. DoneHasNoRow'
  BY DEF DoneHasNoRow, Find, FirstOf, Unlink, UnlinkFails, Remove, Removable, RemoveFails
<1>6. DoneIsOne'
  BY DEF DoneIsOne, DoneHasNoRow, Find, FirstOf, Unlink, UnlinkFails, Remove, Removable, RemoveFails
<1>7. Kept'
  BY DEF Kept, Find, FirstOf, Unlink, UnlinkFails, Remove, RemoveFails
<1>8. NoPictureLeft'
  BY DEF NoPictureLeft, RemoveHasNone, Find, FirstOf, Unlink, UnlinkFails, Remove, RemoveFails
<1> QED
  BY <1>1, <1>2, <1>3, <1>4, <1>5, <1>6, <1>7, <1>8

\* A restart ends requests and leaves both stores alone.
LEMMA CrashIInv ==
  ASSUME IInv, TypeOK', Crash
  PROVE  IInv'
<1>1. /\ UNCHANGED <<rows, pictures, content, pictured, target>>
      /\ \A q \in Requests :
            \/ phase'[q] = phase[q] /\ phase[q] \notin InFlight
            \/ phase'[q] = "dropped" /\ phase[q] \in InFlight
  BY DEF Crash, IInv, TypeOK
<1> QED
  BY <1>1 DEF IInv, TypeOK, RowsAreDone, DeletionsFollow, InsertHasPicture, RemoveHasNone,
     DoneHasNoRow, DoneIsOne, Kept, NoPictureLeft, Gone, InFlight

\* It is inductive.
LEMMA StepIInv == IInv /\ [Next]_vars => IInv'
<1> SUFFICES ASSUME IInv, [Next]_vars PROVE IInv'
  OBVIOUS
<1>1. TypeOK'
  BY StepTypes DEF IInv
<1>2. CASE UNCHANGED vars
  BY <1>2 DEF vars, IInv, TypeOK, RowsAreDone, DeletionsFollow, InsertHasPicture, RemoveHasNone,
     DoneHasNoRow, DoneIsOne, Kept, NoPictureLeft, Gone
<1> QED
  BY <1>1, <1>2, CreateIInv, RepayIInv, DeleteIInv, CrashIInv DEF Next

\* All of it holds throughout.
LEMMA Invariance == Spec => []IInv
  BY InitIInv, StepIInv, PTL DEF Spec

-----------------------------------------------------------------------------
(* The theorems.                                                           *)

\* The row of an expense that came with a picture has it until a deletion begins.
THEOREM PicturesKept == Spec => []PictureKept
<1>1. IInv => PictureKept
  BY DEF IInv, Kept, PictureKept, Deleting, Gone
<1> QED
  BY <1>1, Invariance, PTL

\* No deletion that removes the row leaves the picture.
THEOREM NoPicturesLeft == Spec => []NoPictureLeft
<1>1. IInv => NoPictureLeft
  BY DEF IInv
<1> QED
  BY <1>1, Invariance, PTL

\* An expense is deleted once and for all.
THEOREM DeletedOnceOnly == Spec => []DeletedOnce
<1>1. ASSUME IInv PROVE DeletedOnce
  <2> SUFFICES ASSUME NEW c \in Creates
               PROVE  LET finished == {d \in Deletes : target[d] = c /\ phase[d] = "done"}
                      IN Cardinality(finished) <= 1 /\ (finished # {} => c \notin rows)
    BY DEF DeletedOnce
  <2> DEFINE finished == {d \in Deletes : target[d] = c /\ phase[d] = "done"}
  <2>1. finished # {} => c \notin rows
    BY <1>1 DEF IInv, DoneHasNoRow
  <2>2. CASE finished = {}
    BY <2>1, <2>2, FS_EmptySet
  <2>3. CASE finished # {}
    <3>1. PICK d \in finished : TRUE
      BY <2>3
    <3>2. finished = {d}
      BY <3>1, <1>1 DEF IInv, DoneIsOne
    <3>3. Cardinality({d}) = 1
      BY FS_Singleton
    <3> QED
      BY <2>1, <3>2, <3>3
  <2> QED
    BY <2>2, <2>3
<1> QED
  BY <1>1, Invariance, PTL
=============================================================================
