--------------------------- MODULE Attendance_proofs ---------------------------
(***************************************************************************)
(* Check-ins, for any number of members, events and scans.  The invariant  *)
(* says which scan every row comes from, and that a scan about to create   *)
(* its row was looked at after every earlier scan for it had ended.        *)
(***************************************************************************)
EXTENDS Attendance, TLAPS

\* A code is made and scanned for an event that had a row.
CodesMade ==
    /\ \A r \in Prints : phase[r] = "eventFound" => event[r] \in Events
    /\ \A s \in Scans :
          phase[s] \in {"verified", "first", "second", "create", "already", "done", "taken"} =>
              code[s] \in Codes

\* The check-in time is taken before the second query.
Timed == \A s \in Scans : phase[s] \in {"second", "create", "done"} => time[s] \in Minutes

Rivals ==
    /\ \A r, q \in Requests : Together(r, q) => Together(q, r)
    /\ \A r, q \in Running : r # q => Together(r, q)

\* Every row was created by a scan that is done.
RowsMade ==
    \A m \in Members, e \in EventIds : checkIn[m][e] # NoTime /\ e \in open =>
        \E t \in Scans : /\ phase[t] = "done" /\ member[t] = m
                         /\ code[t] # NotQr /\ code[t].event = e

\* A scan that creates its row has found none of a scan that was done before.
CreatesFirst ==
    \A s, t \in Scans : phase[s] = "create" /\ phase[t] = "done" /\ SameRow(s, t) =>
        Together(s, t) \/ Gone(s)

-----------------------------------------------------------------------------
LEMMA StepTyped ==
    ASSUME TypeOK, CodesMade, [Next]_vars
    PROVE  TypeOK' /\ CodesMade'
<1> USE EventsAssumption, TimeAssumption, RequestsAssumption, CodeAssumption
    DEF TypeOK, CodesMade, Requests, Running, InFlight, Ended, Refused, Minutes, Codes, Goto, Begin
<1>1. CASE UNCHANGED vars
  BY <1>1 DEF vars
<1>2. ASSUME NEW r \in Prints, FindEventToPrint(r) PROVE TypeOK' /\ CodesMade'
  <2>1. \E p \in {"noEvent", "eventFound", "failed"} :
            Goto(r, p) /\ (p = "eventFound" => event[r] \in open)
    BY <1>2 DEF FindEventToPrint
  <2>2. phase' \in [Requests -> {"idle"} \cup InFlight \cup Ended]  BY <2>1
  <2>3. overlaps' \subseteq Requests \X Requests  BY <1>2 DEF FindEventToPrint
  <2>4. UNCHANGED <<now, open, registered, checkIn, codes, member, code, event, time>>
    BY <1>2 DEF FindEventToPrint
  <2>5. CodesMade'  BY <2>1, <2>4
  <2>6. QED  BY <2>2, <2>3, <2>4, <2>5
<1>3. ASSUME NEW r \in Prints, MakeCode(r) PROVE TypeOK' /\ CodesMade'
  BY <1>3 DEF MakeCode
<1>4. ASSUME NEW s \in Scans, Verify(s) PROVE TypeOK' /\ CodesMade'
  <2>1. PICK c \in codes \cup {NotQr} :
            code' = [code EXCEPT ![s] = c] /\ (phase'[s] = "verified" => c # NotQr)
    BY <1>4 DEF Verify
  <2>2. c \in Codes \cup {NotQr}  OBVIOUS
  <2>3. phase' \in [Requests -> {"idle"} \cup InFlight \cup Ended]
        /\ phase'[s] \in {"invalid", "expired", "verified"}
        /\ \A r \in Requests \ {s} : phase'[r] = phase[r]
    BY <1>4 DEF Verify
  <2>4. overlaps' \subseteq Requests \X Requests  BY <1>4 DEF Verify
  <2>5. UNCHANGED <<now, open, registered, checkIn, codes, member, event, time>>  BY <1>4 DEF Verify
  <2>6. QED  BY <2>1, <2>2, <2>3, <2>4, <2>5
<1>5. ASSUME NEW s \in Scans, FindEvent(s) PROVE TypeOK' /\ CodesMade'
  BY <1>5 DEF FindEvent
<1>6. ASSUME NEW s \in Scans, FindFirst(s) PROVE TypeOK' /\ CodesMade'
  <2>1. time' \in [Scans -> Minutes \cup {NoTime}]  BY <1>6 DEF FindFirst
  <2>2. phase[s] = "first"
        /\ phase' \in {[phase EXCEPT ![s] = "second"], [phase EXCEPT ![s] = "already"]}
    BY <1>6 DEF FindFirst
  <2>3. UNCHANGED <<now, open, registered, checkIn, codes, member, code, event, overlaps>>
    BY <1>6 DEF FindFirst
  <2>4. phase' \in [Requests -> {"idle"} \cup InFlight \cup Ended]  BY <2>2
  <2>5. \A x \in Scans : phase'[x] \in {"second", "already"} =>
            phase[x] \in {"first", "second", "already"}
    BY <2>2
  <2>6. \A x \in Requests \ {s} : phase'[x] = phase[x]  BY <2>2
  <2>7. CodesMade'  BY <2>2, <2>3, <2>5, <2>6
  <2>8. QED  BY <2>1, <2>3, <2>4, <2>7
<1>7. ASSUME NEW s \in Scans, FindSecond(s) PROVE TypeOK' /\ CodesMade'
  BY <1>7 DEF FindSecond
<1>8. ASSUME NEW s \in Scans, Create(s) PROVE TypeOK' /\ CodesMade'
  BY <1>8 DEF Create
<1>9. ASSUME NEW s \in Scans, CreateRefused(s) PROVE TypeOK' /\ CodesMade'
  BY <1>9 DEF CreateRefused
<1>10. ASSUME NEW s \in Scans, CallFails(s) PROVE TypeOK' /\ CodesMade'
  BY <1>10 DEF CallFails
<1>11. ASSUME NEW e \in Events, DeleteEvent(e) PROVE TypeOK' /\ CodesMade'
  BY <1>11 DEF DeleteEvent
<1>12. ASSUME NEW m \in Members, DeleteMember(m) PROVE TypeOK' /\ CodesMade'
  BY <1>12 DEF DeleteMember
<1>13. CASE Tick
  BY <1>13 DEF Tick
<1>14. CASE Crash
  BY <1>14 DEF Crash
<1>15. QED
  BY <1>1, <1>2, <1>3, <1>4, <1>5, <1>6, <1>7,
     <1>8, <1>9, <1>10, <1>11, <1>12, <1>13, <1>14 DEF Next, Scan

LEMMA StepTimed ==
    ASSUME TypeOK, Timed, [Next]_vars
    PROVE  Timed'
<1> USE RequestsAssumption DEF TypeOK, Timed, Requests, Running, InFlight, Goto, Begin
<1>1. CASE UNCHANGED vars
  BY <1>1 DEF vars
<1>2. ASSUME NEW r \in Prints, FindEventToPrint(r) PROVE Timed'
  BY <1>2 DEF FindEventToPrint
<1>3. ASSUME NEW r \in Prints, MakeCode(r) PROVE Timed'
  BY <1>3 DEF MakeCode
<1>4. ASSUME NEW s \in Scans, Verify(s) PROVE Timed'
  BY <1>4 DEF Verify
<1>5. ASSUME NEW s \in Scans, FindEvent(s) PROVE Timed'
  BY <1>5 DEF FindEvent
<1>6. ASSUME NEW s \in Scans, FindFirst(s) PROVE Timed'
  BY <1>6 DEF FindFirst
<1>7. ASSUME NEW s \in Scans, FindSecond(s) PROVE Timed'
  BY <1>7 DEF FindSecond
<1>8. ASSUME NEW s \in Scans, Create(s) PROVE Timed'
  BY <1>8 DEF Create
<1>9. ASSUME NEW s \in Scans, CreateRefused(s) PROVE Timed'
  BY <1>9 DEF CreateRefused
<1>10. ASSUME NEW s \in Scans, CallFails(s) PROVE Timed'
  BY <1>10 DEF CallFails
<1>11. ASSUME NEW e \in Events, DeleteEvent(e) PROVE Timed'
  BY <1>11 DEF DeleteEvent
<1>12. ASSUME NEW m \in Members, DeleteMember(m) PROVE Timed'
  BY <1>12 DEF DeleteMember
<1>13. CASE Tick
  BY <1>13 DEF Tick
<1>14. CASE Crash
  BY <1>14 DEF Crash
<1>15. QED
  BY <1>1, <1>2, <1>3, <1>4, <1>5, <1>6, <1>7,
     <1>8, <1>9, <1>10, <1>11, <1>12, <1>13, <1>14 DEF Next, Scan

LEMMA StepRivals ==
    ASSUME TypeOK, Rivals, [Next]_vars
    PROVE  Rivals'
<1> USE RequestsAssumption DEF TypeOK, Rivals, Together, Requests, Running, InFlight, Goto, Begin
<1>1. CASE UNCHANGED vars
  BY <1>1 DEF vars
<1>2. ASSUME NEW r \in Prints, FindEventToPrint(r) PROVE Rivals'
  BY <1>2 DEF FindEventToPrint
<1>3. ASSUME NEW r \in Prints, MakeCode(r) PROVE Rivals'
  BY <1>3 DEF MakeCode
<1>4. ASSUME NEW s \in Scans, Verify(s) PROVE Rivals'
  BY <1>4 DEF Verify
<1>5. ASSUME NEW s \in Scans, FindEvent(s) PROVE Rivals'
  BY <1>5 DEF FindEvent
<1>6. ASSUME NEW s \in Scans, FindFirst(s) PROVE Rivals'
  BY <1>6 DEF FindFirst
<1>7. ASSUME NEW s \in Scans, FindSecond(s) PROVE Rivals'
  BY <1>7 DEF FindSecond
<1>8. ASSUME NEW s \in Scans, Create(s) PROVE Rivals'
  BY <1>8 DEF Create
<1>9. ASSUME NEW s \in Scans, CreateRefused(s) PROVE Rivals'
  BY <1>9 DEF CreateRefused
<1>10. ASSUME NEW s \in Scans, CallFails(s) PROVE Rivals'
  BY <1>10 DEF CallFails
<1>11. ASSUME NEW e \in Events, DeleteEvent(e) PROVE Rivals'
  BY <1>11 DEF DeleteEvent
<1>12. ASSUME NEW m \in Members, DeleteMember(m) PROVE Rivals'
  BY <1>12 DEF DeleteMember
<1>13. CASE Tick
  BY <1>13 DEF Tick
<1>14. CASE Crash
  BY <1>14 DEF Crash
<1>15. QED
  BY <1>1, <1>2, <1>3, <1>4, <1>5, <1>6, <1>7,
     <1>8, <1>9, <1>10, <1>11, <1>12, <1>13, <1>14 DEF Next, Scan

LEMMA StepAnswered ==
    ASSUME TypeOK, CodesMade, Timed, AnsweredMeansPresent, [Next]_vars
    PROVE  AnsweredMeansPresent'
<1> USE RequestsAssumption, TimeAssumption, EventsAssumption
    DEF TypeOK, CodesMade, AnsweredMeansPresent, Row, Gone, Codes, Minutes,
        Requests, Running, InFlight, Goto, Begin
<1>1. CASE UNCHANGED vars
  BY <1>1 DEF vars
<1>2. ASSUME NEW r \in Prints, FindEventToPrint(r) PROVE AnsweredMeansPresent'
  BY <1>2 DEF FindEventToPrint
<1>3. ASSUME NEW r \in Prints, MakeCode(r) PROVE AnsweredMeansPresent'
  BY <1>3 DEF MakeCode
<1>4. ASSUME NEW s \in Scans, Verify(s) PROVE AnsweredMeansPresent'
  BY <1>4 DEF Verify
<1>5. ASSUME NEW s \in Scans, FindEvent(s) PROVE AnsweredMeansPresent'
  BY <1>5 DEF FindEvent
<1>6. ASSUME NEW s \in Scans, FindFirst(s) PROVE AnsweredMeansPresent'
  BY <1>6 DEF FindFirst
<1>7. ASSUME NEW s \in Scans, FindSecond(s) PROVE AnsweredMeansPresent'
  BY <1>7 DEF FindSecond
<1>8. ASSUME NEW s \in Scans, Create(s) PROVE AnsweredMeansPresent'
  <2>1. code[s].event \in EventIds /\ time[s] \in Minutes  BY <1>8 DEF Create, Timed
  <2>2. \A m \in Members, e \in EventIds :
            checkIn'[m][e] = IF m = member[s] /\ e = code[s].event THEN time[s] ELSE checkIn[m][e]
    BY <1>8, <2>1 DEF Create
  <2>3. \A t \in Scans : phase'[t] \in {"done", "already"} =>
            t = s \/ phase[t] \in {"done", "already"}
    BY <1>8 DEF Create
  <2>4. UNCHANGED <<member, code, open, registered>>  BY <1>8 DEF Create
  <2>5. QED  BY <2>1, <2>2, <2>3, <2>4
<1>9. ASSUME NEW s \in Scans, CreateRefused(s) PROVE AnsweredMeansPresent'
  BY <1>9 DEF CreateRefused
<1>10. ASSUME NEW s \in Scans, CallFails(s) PROVE AnsweredMeansPresent'
  BY <1>10 DEF CallFails
<1>11. ASSUME NEW e \in Events, DeleteEvent(e) PROVE AnsweredMeansPresent'
  BY <1>11 DEF DeleteEvent
<1>12. ASSUME NEW m \in Members, DeleteMember(m) PROVE AnsweredMeansPresent'
  BY <1>12 DEF DeleteMember
<1>13. CASE Tick
  BY <1>13 DEF Tick
<1>14. CASE Crash
  BY <1>14 DEF Crash
<1>15. QED
  BY <1>1, <1>2, <1>3, <1>4, <1>5, <1>6, <1>7,
     <1>8, <1>9, <1>10, <1>11, <1>12, <1>13, <1>14 DEF Next, Scan

LEMMA StepRows ==
    ASSUME TypeOK, CodesMade, RowsMade, [Next]_vars
    PROVE  RowsMade'
<1> USE RequestsAssumption, CodeAssumption
    DEF TypeOK, CodesMade, RowsMade, Requests, Running, InFlight, Goto, Begin
<1>1. CASE UNCHANGED vars
  BY <1>1 DEF vars
<1>2. ASSUME NEW r \in Prints, FindEventToPrint(r) PROVE RowsMade'
  BY <1>2 DEF FindEventToPrint
<1>3. ASSUME NEW r \in Prints, MakeCode(r) PROVE RowsMade'
  BY <1>3 DEF MakeCode
<1>4. ASSUME NEW s \in Scans, Verify(s) PROVE RowsMade'
  BY <1>4 DEF Verify
<1>5. ASSUME NEW s \in Scans, FindEvent(s) PROVE RowsMade'
  BY <1>5 DEF FindEvent
<1>6. ASSUME NEW s \in Scans, FindFirst(s) PROVE RowsMade'
  BY <1>6 DEF FindFirst
<1>7. ASSUME NEW s \in Scans, FindSecond(s) PROVE RowsMade'
  BY <1>7 DEF FindSecond
<1>8. ASSUME NEW s \in Scans, Create(s) PROVE RowsMade'
  BY <1>8 DEF Create
<1>9. ASSUME NEW s \in Scans, CreateRefused(s) PROVE RowsMade'
  BY <1>9 DEF CreateRefused
<1>10. ASSUME NEW s \in Scans, CallFails(s) PROVE RowsMade'
  BY <1>10 DEF CallFails
<1>11. ASSUME NEW e \in Events, DeleteEvent(e) PROVE RowsMade'
  BY <1>11 DEF DeleteEvent
<1>12. ASSUME NEW m \in Members, DeleteMember(m) PROVE RowsMade'
  BY <1>12 DEF DeleteMember
<1>13. CASE Tick
  BY <1>13 DEF Tick
<1>14. CASE Crash
  <2>1. UNCHANGED <<checkIn, open, member, code>>  BY <1>14 DEF Crash
  <2>2. \A t \in Scans : phase[t] = "done" => phase'[t] = "done"  BY <1>14 DEF Crash
  <2>3. QED  BY <2>1, <2>2
<1>15. QED
  BY <1>1, <1>2, <1>3, <1>4, <1>5, <1>6, <1>7,
     <1>8, <1>9, <1>10, <1>11, <1>12, <1>13, <1>14 DEF Next, Scan

LEMMA StepFirst ==
    ASSUME TypeOK, CodesMade, Rivals, AnsweredMeansPresent, CreatesFirst, [Next]_vars
    PROVE  CreatesFirst'
<1> USE RequestsAssumption
    DEF TypeOK, Rivals, CreatesFirst, Together, SameRow, Gone, Requests, Running, InFlight, Goto, Begin
<1>1. CASE UNCHANGED vars
  BY <1>1 DEF vars
<1>2. ASSUME NEW r \in Prints, FindEventToPrint(r) PROVE CreatesFirst'
  BY <1>2 DEF FindEventToPrint
<1>3. ASSUME NEW r \in Prints, MakeCode(r) PROVE CreatesFirst'
  BY <1>3 DEF MakeCode
<1>4. ASSUME NEW s \in Scans, Verify(s) PROVE CreatesFirst'
  BY <1>4 DEF Verify
<1>5. ASSUME NEW s \in Scans, FindEvent(s) PROVE CreatesFirst'
  BY <1>5 DEF FindEvent
<1>6. ASSUME NEW s \in Scans, FindFirst(s) PROVE CreatesFirst'
  BY <1>6 DEF FindFirst
<1>7. ASSUME NEW s \in Scans, FindSecond(s) PROVE CreatesFirst'
  <2>1. UNCHANGED <<member, code, open, registered, overlaps, checkIn>> /\ phase[s] = "second"
    BY <1>7 DEF FindSecond
  <2>2. phase'[s] \in {"create", "already"} /\ (phase'[s] = "create" => Row(s) = NoTime)
        /\ \A t \in Scans \ {s} : phase'[t] = phase[t]
    BY <1>7 DEF FindSecond
  <2>3. ASSUME NEW t \in Scans, phase[t] = "done", SameRow(s, t), Row(s) = NoTime
        PROVE  Gone(s)
    BY <2>3 DEF AnsweredMeansPresent, Row
  <2>4. QED  BY <2>1, <2>2, <2>3
<1>8. ASSUME NEW s \in Scans, Create(s) PROVE CreatesFirst'
  BY <1>8 DEF Create
<1>9. ASSUME NEW s \in Scans, CreateRefused(s) PROVE CreatesFirst'
  BY <1>9 DEF CreateRefused
<1>10. ASSUME NEW s \in Scans, CallFails(s) PROVE CreatesFirst'
  BY <1>10 DEF CallFails
<1>11. ASSUME NEW e \in Events, DeleteEvent(e) PROVE CreatesFirst'
  BY <1>11 DEF DeleteEvent
<1>12. ASSUME NEW m \in Members, DeleteMember(m) PROVE CreatesFirst'
  BY <1>12 DEF DeleteMember
<1>13. CASE Tick
  BY <1>13 DEF Tick
<1>14. CASE Crash
  BY <1>14 DEF Crash
<1>15. QED
  BY <1>1, <1>2, <1>3, <1>4, <1>5, <1>6, <1>7,
     <1>8, <1>9, <1>10, <1>11, <1>12, <1>13, <1>14 DEF Next, Scan

\* A scan that is done stays so, and histories grow.
LEMMA DoneStays ==
    ASSUME TypeOK, [Next]_vars
    PROVE  /\ open' \subseteq open /\ registered' \subseteq registered
           /\ overlaps \subseteq overlaps' /\ UNCHANGED member
           /\ \A s \in Scans : phase[s] # "idle" => code'[s] = code[s]
           /\ \A s \in Scans : phase[s] = "done" => phase'[s] = "done"
           /\ \A s \in Scans : phase'[s] = "taken" => phase[s] = "taken" \/ CreateRefused(s)
<1> USE RequestsAssumption DEF TypeOK, Requests, Running, InFlight, Goto, Begin
<1>1. open' \subseteq open /\ registered' \subseteq registered
      /\ overlaps \subseteq overlaps' /\ UNCHANGED member
  BY DEF Next, Scan, vars, FindEventToPrint, MakeCode, Verify, FindEvent, FindFirst, FindSecond,
         Create, CreateRefused, CallFails, DeleteEvent, DeleteMember, Tick, Crash
<1>2. ASSUME NEW s \in Scans, phase[s] # "idle" PROVE code'[s] = code[s]
  BY <1>2
  DEF Next, Scan, vars, FindEventToPrint, MakeCode, Verify, FindEvent, FindFirst, FindSecond,
      Create, CreateRefused, CallFails, DeleteEvent, DeleteMember, Tick, Crash
<1>3. ASSUME NEW s \in Scans, phase[s] = "done" PROVE phase'[s] = "done"
  <2>1. ASSUME NEW x \in Scans, Verify(x) \/ Scan(x) PROVE phase'[s] = "done"
    BY <1>3, <2>1
    DEF Scan, Verify, FindEvent, FindFirst, FindSecond, Create, CreateRefused, CallFails
  <2>2. ASSUME NEW r \in Prints, FindEventToPrint(r) \/ MakeCode(r) PROVE phase'[s] = "done"
    BY <1>3, <2>2 DEF FindEventToPrint, MakeCode
  <2>3. CASE \/ \E e \in Events : DeleteEvent(e)
            \/ \E m \in Members : DeleteMember(m)
            \/ Tick \/ Crash \/ UNCHANGED vars
    BY <1>3, <2>3 DEF DeleteEvent, DeleteMember, Tick, Crash, vars
  <2>4. QED  BY <2>1, <2>2, <2>3 DEF Next
<1>4. ASSUME NEW s \in Scans, phase'[s] = "taken" PROVE phase[s] = "taken" \/ CreateRefused(s)
  <2>1. ASSUME NEW x \in Scans, Verify(x) \/ Scan(x), ~CreateRefused(x) PROVE phase[s] = "taken"
    BY <1>4, <2>1 DEF Scan, Verify, FindEvent, FindFirst, FindSecond, Create, CallFails
  <2>2. ASSUME NEW x \in Scans, CreateRefused(x) PROVE phase[s] = "taken" \/ x = s
    BY <1>4, <2>2 DEF CreateRefused
  <2>3. ASSUME NEW r \in Prints, FindEventToPrint(r) \/ MakeCode(r) PROVE phase[s] = "taken"
    BY <1>4, <2>3 DEF FindEventToPrint, MakeCode
  <2>4. CASE \/ \E e \in Events : DeleteEvent(e)
            \/ \E m \in Members : DeleteMember(m)
            \/ Tick \/ Crash \/ UNCHANGED vars
    BY <1>4, <2>4 DEF DeleteEvent, DeleteMember, Tick, Crash, vars
  <2>5. QED  BY <2>1, <2>2, <2>3, <2>4 DEF Next
<1>5. QED  BY <1>1, <1>2, <1>3, <1>4

LEMMA StepTaken ==
    ASSUME TypeOK, CodesMade, RowsMade, CreatesFirst, TakenByRival, [Next]_vars
    PROVE  TakenByRival'
<1> SUFFICES ASSUME NEW s \in Scans, phase'[s] = "taken"
             PROVE  \/ Gone(s)'
                    \/ \E t \in Scans \ {s} :
                          (Together(s, t) /\ SameRow(s, t) /\ phase[t] = "done")'
  BY DEF TakenByRival
<1>1. code'[s] = code[s] /\ code[s] \in Codes
  BY DoneStays DEF CreateRefused, CodesMade
<1>2. \/ Gone(s)
      \/ \E t \in Scans \ {s} : Together(s, t) /\ SameRow(s, t) /\ phase[t] = "done"
  <2>1. CASE phase[s] = "taken"  BY <2>1 DEF TakenByRival
  <2>2. CASE CreateRefused(s) /\ ~ Gone(s)
    <3>1. phase[s] = "create" /\ Row(s) # NoTime  BY <2>2 DEF CreateRefused, Insertable
    <3>2. PICK t \in Scans : /\ phase[t] = "done" /\ member[t] = member[s]
                             /\ code[t] # NotQr /\ code[t].event = code[s].event
      BY <1>1, <2>2, <3>1 DEF RowsMade, Row, Gone, Codes, TypeOK
    <3>3. t # s /\ SameRow(s, t)  BY <1>1, <3>1, <3>2, CodeAssumption DEF SameRow
    <3>4. QED  BY <2>2, <3>1, <3>2, <3>3 DEF CreatesFirst
  <2>3. QED  BY <2>1, <2>2, DoneStays
<1>3. CASE Gone(s)  BY <1>1, <1>3, DoneStays DEF Gone
<1>4. ASSUME NEW t \in Scans \ {s}, Together(s, t), SameRow(s, t), phase[t] = "done"
      PROVE  (Together(s, t) /\ SameRow(s, t) /\ phase[t] = "done")'
  BY <1>1, <1>4, DoneStays DEF Together, SameRow
<1>5. QED  BY <1>2, <1>3, <1>4

\* A scan about to create a row finds none where a scan is done that has its own.
LEMMA NoneDone ==
    ASSUME Timed, ConfirmedOnce, TimeAssumption,
           NEW s \in Scans, NEW t \in Scans, Insertable(s), phase[t] = "done",
           member[t] = member[s], code[t].event = code[s].event
    PROVE  FALSE
BY DEF Timed, ConfirmedOnce, Insertable, Row, Gone, Minutes

LEMMA StepConfirmed ==
    ASSUME TypeOK, CodesMade, Timed, ConfirmedOnce, [Next]_vars
    PROVE  ConfirmedOnce'
<1> USE RequestsAssumption
    DEF TypeOK, ConfirmedOnce, Row, Gone, SameRow, Requests, Running, InFlight, Goto, Begin
<1>1. CASE UNCHANGED vars
  BY <1>1 DEF vars
<1>2. ASSUME NEW r \in Prints, FindEventToPrint(r) PROVE ConfirmedOnce'
  BY <1>2 DEF FindEventToPrint
<1>3. ASSUME NEW r \in Prints, MakeCode(r) PROVE ConfirmedOnce'
  BY <1>3 DEF MakeCode
<1>4. ASSUME NEW s \in Scans, Verify(s) PROVE ConfirmedOnce'
  BY <1>4 DEF Verify
<1>5. ASSUME NEW s \in Scans, FindEvent(s) PROVE ConfirmedOnce'
  BY <1>5 DEF FindEvent
<1>6. ASSUME NEW s \in Scans, FindFirst(s) PROVE ConfirmedOnce'
  BY <1>6 DEF FindFirst
<1>7. ASSUME NEW s \in Scans, FindSecond(s) PROVE ConfirmedOnce'
  BY <1>7 DEF FindSecond
<1>8. ASSUME NEW s \in Scans, Create(s) PROVE ConfirmedOnce'
  <2>1. \A t \in Scans : phase[t] = "done" =>
            member[t] # member[s] \/ code[t].event # code[s].event
    BY <1>8, NoneDone, TimeAssumption DEF Create
  <2>2. code[s].event \in EventIds  BY <1>8 DEF Create, CodesMade, Codes
  <2>3. \A m \in Members, e \in EventIds :
            checkIn'[m][e] = IF m = member[s] /\ e = code[s].event THEN time[s] ELSE checkIn[m][e]
    BY <1>8, <2>2 DEF Create
  <2>4. \A t \in Scans : phase'[t] = "done" => t = s \/ phase[t] = "done"
    BY <1>8 DEF Create
  <2>5. UNCHANGED <<member, code, open, registered, time>>  BY <1>8 DEF Create
  <2>6. \A t \in Scans : phase[t] = "done" => code[t].event \in EventIds
    BY DEF CodesMade, Codes
  <2>7. QED  BY <2>1, <2>2, <2>3, <2>4, <2>5, <2>6
<1>9. ASSUME NEW s \in Scans, CreateRefused(s) PROVE ConfirmedOnce'
  BY <1>9 DEF CreateRefused
<1>10. ASSUME NEW s \in Scans, CallFails(s) PROVE ConfirmedOnce'
  BY <1>10 DEF CallFails
<1>11. ASSUME NEW e \in Events, DeleteEvent(e) PROVE ConfirmedOnce'
  BY <1>11 DEF DeleteEvent, CodesMade, Codes
<1>12. ASSUME NEW m \in Members, DeleteMember(m) PROVE ConfirmedOnce'
  BY <1>12 DEF DeleteMember
<1>13. CASE Tick
  BY <1>13 DEF Tick
<1>14. CASE Crash
  BY <1>14 DEF Crash
<1>15. QED
  BY <1>1, <1>2, <1>3, <1>4, <1>5, <1>6, <1>7,
     <1>8, <1>9, <1>10, <1>11, <1>12, <1>13, <1>14 DEF Next, Scan

-----------------------------------------------------------------------------
Inv ==
    /\ TypeOK /\ CodesMade /\ Timed /\ Rivals /\ RowsMade /\ CreatesFirst
    /\ AnsweredMeansPresent /\ ConfirmedOnce /\ TakenByRival

LEMMA InitInv == Init => Inv
<1> HAVE Init
<1> USE RequestsAssumption DEF Requests
<1>1. TypeOK  BY TimeAssumption, CodeAssumption DEF Init, TypeOK, Minutes
<1>2. /\ \A r \in Requests : phase[r] = "idle"
      /\ overlaps = {}
      /\ \A m \in Members, e \in EventIds : checkIn[m][e] = NoTime
  BY DEF Init
<1>3. CodesMade /\ Timed /\ Rivals /\ RowsMade /\ CreatesFirst
  BY <1>2 DEF CodesMade, Timed, Rivals, RowsMade, CreatesFirst, Running, InFlight, Together
<1>4. AnsweredMeansPresent /\ ConfirmedOnce /\ TakenByRival
  BY <1>2 DEF AnsweredMeansPresent, ConfirmedOnce, TakenByRival
<1>5. QED  BY <1>1, <1>3, <1>4 DEF Inv

LEMMA StepInv == Inv /\ [Next]_vars => Inv'
BY StepTyped, StepTimed, StepRivals, StepAnswered, StepConfirmed, StepRows, StepFirst, StepTaken
DEF Inv

\* Type correctness (TypeOK).
THEOREM TypeCorrect == Spec => []TypeOK
<1>1. Inv => TypeOK  BY DEF Inv
<1>2. QED  BY <1>1, InitInv, StepInv, PTL DEF Spec

\* A scan answered 200 has a row while its event and its member have one
\* (AnsweredMeansPresent).
THEOREM AnsweredArePresent == Spec => []AnsweredMeansPresent
<1>1. Inv => AnsweredMeansPresent  BY DEF Inv
<1>2. QED  BY <1>1, InitInv, StepInv, PTL DEF Spec

\* Only a scan for the same row that ran with it, or the deletion of the event or
\* of the member, turns a scan away (TakenByRival).
THEOREM OnlyRivalsTake == Spec => []TakenByRival
<1>1. Inv => TakenByRival  BY DEF Inv
<1>2. QED  BY <1>1, InitInv, StepInv, PTL DEF Spec

\* However many scans overlap, a member is checked in at an event by one of them,
\* and its time is the one that stays (ConfirmedOnce).
THEOREM CheckedInOnce == Spec => []ConfirmedOnce
<1>1. Inv => ConfirmedOnce  BY DEF Inv
<1>2. QED  BY <1>1, InitInv, StepInv, PTL DEF Spec
================================================================================
