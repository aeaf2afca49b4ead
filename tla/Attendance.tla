----------------------------- MODULE Attendance -----------------------------
(***************************************************************************)
(* AttendanceService: an administrator makes the QR code of an event, a    *)
(* member scans it and is checked in.  The check that the member is not    *)
(* there yet is made twice, before and after the check-in time is taken,   *)
(* and the row is created by a third call.  One action is one awaited call *)
(* and the code up to the next.                                            *)
(***************************************************************************)
EXTENDS Integers

CONSTANTS
    Prints,         \* requests for a QR code
    Scans,          \* check-in requests
    Members,        \* rows of the Member table at the beginning
    EventIds,       \* ids an administrator may send
    Events,         \* rows of the OpeningDay table at the beginning
    LastMinute,     \* bound: the clock stops there
    Life,           \* a QR code is valid for so long
    NotQr,          \* a scanned text that is no token
    NoTime          \* no check-in row

ASSUME EventsAssumption == Events \subseteq EventIds
ASSUME TimeAssumption == LastMinute \in Nat /\ Life \in Nat /\ NoTime \notin 0 .. LastMinute
ASSUME RequestsAssumption == Prints \cap Scans = {}

Minutes == 0 .. LastMinute
Requests == Prints \cup Scans
Codes == [event : EventIds, iat : Minutes]

ASSUME CodeAssumption == NotQr \notin Codes

VARIABLES
    now,
    open,       \* events that have a row
    registered, \* members that have a row
    checkIn,    \* Attendance.checkInUTC of each member at each event
    codes,      \* QR codes that were made
    member,     \* the member who sends each scan
    code,       \* what was scanned
    event,      \* the event a request for a code names
    time,       \* checkInTime of each scan
    phase,      \* where each request stands
    overlaps    \* history: pairs of requests that were in flight together

vars == <<now, open, registered, checkIn, codes, member, code, event, time, phase, overlaps>>

InFlight == {"eventFound", "verified", "first", "second", "create"}
\* "done": 200 and checked in by this scan; "already": 200, a row was found;
\* "invalid", "errored" and "taken" are one answer, 401 "Invalid QR code": the
\* text is no code, a call failed, the row exists already.
Refused == {"invalid", "errored", "taken"}
Ended == {"made", "noEvent", "failed", "expired", "already", "done", "dropped"} \cup Refused
Running == {r \in Requests : phase[r] \in InFlight}

\* The types; a code is only ever made for an event that had a row.
TypeOK ==
    /\ now \in Minutes
    /\ open \subseteq Events
    /\ registered \subseteq Members
    /\ checkIn \in [Members -> [EventIds -> Minutes \cup {NoTime}]]
    /\ codes \subseteq [event : Events, iat : Minutes]
    /\ member \in [Scans -> Members]
    /\ code \in [Scans -> Codes \cup {NotQr}]
    /\ event \in [Prints -> EventIds]
    /\ time \in [Scans -> Minutes \cup {NoTime}]
    /\ phase \in [Requests -> {"idle"} \cup InFlight \cup Ended]
    /\ overlaps \subseteq Requests \X Requests

Init ==
    /\ now = 0
    /\ open = Events
    /\ registered = Members
    /\ checkIn = [m \in Members |-> [e \in EventIds |-> NoTime]]
    /\ codes = {}
    /\ member \in [Scans -> Members]
    /\ code = [s \in Scans |-> NotQr]
    /\ event \in [Prints -> EventIds]
    /\ time = [s \in Scans |-> NoTime]
    /\ phase = [r \in Requests |-> "idle"]
    /\ overlaps = {}

Goto(r, p) == phase' = [phase EXCEPT ![r] = p]
Begin(r) ==
    /\ phase[r] = "idle"
    /\ overlaps' = overlaps \cup ({r} \X Running) \cup (Running \X {r})
Row(s) == checkIn[member[s]][code[s].event]

-----------------------------------------------------------------------------
(* generateEventJwt.                                                       *)

FindEventToPrint(r) ==
    /\ Begin(r)
    /\ \/ event[r] \notin open /\ Goto(r, "noEvent")
       \/ event[r] \in open /\ Goto(r, "eventFound")
       \/ Goto(r, "failed")
    /\ UNCHANGED <<now, open, registered, checkIn, codes, member, code, event, time>>

\* The token is signed and the picture drawn.
MakeCode(r) ==
    /\ phase[r] = "eventFound"
    /\ \/ codes' = codes \cup {[event |-> event[r], iat |-> now]} /\ Goto(r, "made")
       \/ UNCHANGED codes /\ Goto(r, "failed")
    /\ UNCHANGED <<now, open, registered, checkIn, member, code, event, time, overlaps>>

-----------------------------------------------------------------------------
(* logAttendance.                                                          *)

Verify(s) == \E c \in codes \cup {NotQr} :
    /\ Begin(s)
    /\ code' = [code EXCEPT ![s] = c]
    /\ \/ c = NotQr /\ Goto(s, "invalid")
       \/ c # NotQr /\ now >= c.iat + Life /\ Goto(s, "expired")
       \/ c # NotQr /\ now < c.iat + Life /\ Goto(s, "verified")
    /\ UNCHANGED <<now, open, registered, checkIn, codes, member, event, time>>

FindEvent(s) ==
    /\ phase[s] = "verified"
    /\ Goto(s, IF code[s].event \in open THEN "first" ELSE "noEvent")
    /\ UNCHANGED <<now, open, registered, checkIn, codes, member, code, event, time, overlaps>>

\* Where there is no row, the check-in time is taken before the second query.
FindFirst(s) ==
    /\ phase[s] = "first"
    /\ IF Row(s) = NoTime THEN Goto(s, "second") /\ time' = [time EXCEPT ![s] = now]
                        ELSE Goto(s, "already") /\ UNCHANGED time
    /\ UNCHANGED <<now, open, registered, checkIn, codes, member, code, event, overlaps>>

FindSecond(s) ==
    /\ phase[s] = "second"
    /\ Goto(s, IF Row(s) = NoTime THEN "create" ELSE "already")
    /\ UNCHANGED <<now, open, registered, checkIn, codes, member, code, event, time, overlaps>>

\* The two rows a check-in refers to, one of them gone.
Gone(s) == code[s].event \notin open \/ member[s] \notin registered

\* Mutant: there is no unique index.
Anyway(s) == ~ Gone(s)
\* Mutant: the index is on the member alone.
OncePerMember(s) == ~ Gone(s) /\ \A e \in EventIds : checkIn[member[s]][e] = NoTime
\* The member and the event are foreign keys, and together a unique one.
Insertable(s) == ~ Gone(s) /\ Row(s) = NoTime

Create(s) ==
    /\ phase[s] = "create"
    /\ Insertable(s)
    /\ checkIn' = [checkIn EXCEPT ![member[s]][code[s].event] = time[s]]
    /\ Goto(s, "done")
    /\ UNCHANGED <<now, open, registered, codes, member, code, event, time, overlaps>>

\* A violated key is caught with every other error.
CreateRefused(s) ==
    /\ phase[s] = "create"
    /\ ~ Insertable(s)
    /\ Goto(s, "taken")
    /\ UNCHANGED <<now, open, registered, checkIn, codes, member, code, event, time, overlaps>>

\* Mutant: an error of the last call is logged and forgotten.
ErrorSwallowed(s) ==
    /\ phase[s] \in {"verified", "first", "second", "create"}
    /\ Goto(s, IF phase[s] = "create" THEN "done" ELSE "errored")
    /\ UNCHANGED <<now, open, registered, checkIn, codes, member, code, event, time, overlaps>>
CallFails(s) ==
    /\ phase[s] \in {"verified", "first", "second", "create"}
    /\ Goto(s, "errored")
    /\ UNCHANGED <<now, open, registered, checkIn, codes, member, code, event, time, overlaps>>

-----------------------------------------------------------------------------
(* The environment.                                                        *)

Tick ==
    /\ now < LastMinute
    /\ now' = now + 1
    /\ UNCHANGED <<open, registered, checkIn, codes, member, code, event, time, phase, overlaps>>

\* An event is deleted by hand, with its attendances (onDelete: Cascade).
DeleteEvent(e) ==
    /\ open' = open \ {e}
    /\ checkIn' = [m \in Members |-> [checkIn[m] EXCEPT ![e] = NoTime]]
    /\ UNCHANGED <<now, registered, codes, member, code, event, time, phase, overlaps>>

\* So is a member; the tokens it has are still taken (JwtStrategy reads no row).
DeleteMember(m) ==
    /\ m \in registered
    /\ registered' = registered \ {m}
    /\ checkIn' = [checkIn EXCEPT ![m] = [e \in EventIds |-> NoTime]]
    /\ UNCHANGED <<now, open, codes, member, code, event, time, phase, overlaps>>

Crash ==
    /\ Running # {}
    /\ phase' = [r \in Requests |-> IF r \in Running THEN "dropped" ELSE phase[r]]
    /\ UNCHANGED <<now, open, registered, checkIn, codes, member, code, event, time, overlaps>>

Scan(s) == FindEvent(s) \/ FindFirst(s) \/ FindSecond(s) \/ Create(s) \/ CreateRefused(s) \/ CallFails(s)

Next ==
    \/ \E r \in Prints : FindEventToPrint(r) \/ MakeCode(r)
    \/ \E s \in Scans : Verify(s) \/ Scan(s)
    \/ \E e \in Events : DeleteEvent(e)
    \/ \E m \in Members : DeleteMember(m)
    \/ Tick \/ Crash

Spec == Init /\ [][Next]_vars

-----------------------------------------------------------------------------
(* Properties.                                                             *)

Together(s, t) == <<s, t>> \in overlaps
SameRow(s, t) == member[s] = member[t] /\ NotQr \notin {code[s], code[t]} /\ code[s].event = code[t].event

\* A check-in answered 200 has a row, its own or an earlier one, until its
\* event or its member is deleted by hand: the row goes with either
\* (schema.prisma:165-167), and no failed call is answered with success.
AnsweredMeansPresent == \A s \in Scans :
    phase[s] \in {"done", "already"} => Row(s) # NoTime \/ Gone(s)

\* Scans of one member for one event that overlap, both past the two queries,
\* check the member in once: a scan answered as the one that did so has its own
\* time in the row, whatever scans follow, and no other was answered so.
ConfirmedOnce == \A s, t \in Scans : phase[s] = "done" =>
    /\ Row(s) = time[s] \/ Gone(s)
    /\ phase[t] = "done" /\ SameRow(s, t) => s = t

\* The unique key turns a scan away only where another scan by the same member
\* for the same event ran at the same time, or where the event or the member was
\* deleted: the two queries before it keep every later scan from reaching it.
TakenByRival == \A s \in Scans :
    phase[s] = "taken" =>
        \/ Gone(s)
        \/ \E t \in Scans \ {s} : Together(s, t) /\ SameRow(s, t) /\ phase[t] = "done"
=============================================================================
