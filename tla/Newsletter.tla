----------------------------- MODULE Newsletter -----------------------------
(***************************************************************************)
(* NewsletterService.sendScheduledNewsletters: a cron job that fires every *)
(* minute whether or not the previous runs are over, takes the newsletters *)
(* that are due from a cache or from the database, mails each subscriber   *)
(* and records each delivery.  A run is named by the minute it starts in.  *)
(* One action is one awaited call; any of them may reject.  A restart of   *)
(* the process ends the runs; database and cache keep what was written.    *)
(* Newsletters are written by hand: no endpoint creates them.              *)
(***************************************************************************)
EXTENDS Integers

CONSTANTS
    Newsletters, Members,
    Horizon,        \* bound: the last minute the model looks at
    Lead, Late,     \* minutes before and after scheduledAt a query still finds it
    CacheTtl,       \* minutes a stored list is served
    Nobody          \* no member, or no newsletter

ASSUME TimeAssumption ==
    Horizon \in Nat /\ Lead \in Nat /\ Late \in Nat /\ CacheTtl \in Nat
ASSUME NobodyAssumption == Nobody \notin Members \cup Newsletters

VARIABLES
    clock,          \* the current minute
    scheduledAt,    \* Newsletter.scheduledAt
    status,         \* Newsletter.status, "absent" until it is written
    delivery,       \* NewsletterDelivery.status, "none" where there is no row
    subscribed,     \* members with newsletterSubscriptionStatus SUBSCRIBED
    cache,          \* the entry under CACHE_KEY
    stage,          \* where each run stands
    due,            \* newsletters a run has still to take
    known,          \* the deliveries that came with the list of the run
    current,        \* the newsletter a run is working on
    todo,           \* its recipients still to be mailed
    target,         \* the recipient being mailed
    mails,          \* mails that reached each member, per newsletter
    found,          \* history: the recipients the run found
    fromCache,      \* history: the list of the run came from the cache
    alone           \* history: no other run was active since this one began

database == <<scheduledAt, status, delivery, subscribed>>
control == <<stage, due, known, current, todo, target>>
history == <<found, fromCache, alone>>
vars == <<clock, database, cache, control, mails, history>>

Runs == 1 .. Horizon
Hours == 1 .. Horizon + Lead    \* a later newsletter is never due
Statuses == {"absent", "PENDING", "SENDING", "SENT", "FAILED"}
Listing == {"lookup", "query", "store", "pick"}
Mailing == {"recipients", "send", "recordSent", "recordFailed", "markSent", "markFailed"}
Stopped == {"aborted", "dead"}
Active == {r \in Runs : stage[r] \in Listing \cup Mailing}

Known == [Newsletters -> SUBSET Members]
NoEntry == [until |-> 0, due |-> {}, known |-> [n \in Newsletters |-> {}]]

TypeOK ==
    /\ clock \in 0 .. Horizon
    /\ scheduledAt \in [Newsletters -> Hours]
    /\ status \in [Newsletters -> Statuses]
    /\ delivery \in [Newsletters -> [Members -> {"none", "SENT", "FAILED"}]]
    /\ subscribed \subseteq Members
    /\ cache \in [until : Nat, due : SUBSET Newsletters, known : Known]
    /\ stage \in [Runs -> {"off", "done"} \cup Listing \cup Mailing \cup Stopped]
    /\ due \in [Runs -> SUBSET Newsletters]
    /\ known \in [Runs -> Known]
    /\ current \in [Runs -> Newsletters \cup {Nobody}]
    /\ todo \in [Runs -> SUBSET Members]
    /\ target \in [Runs -> Members \cup {Nobody}]
    /\ mails \in [Newsletters -> [Members -> Nat]]
    /\ found \in [Runs -> SUBSET Members]
    /\ fromCache \in [Runs -> BOOLEAN]
    /\ alone \in [Runs -> BOOLEAN]

Init ==
    /\ clock = 0
    /\ scheduledAt \in [Newsletters -> Hours]
    /\ status = [n \in Newsletters |-> "absent"]
    /\ delivery = [n \in Newsletters |-> [m \in Members |-> "none"]]
    /\ subscribed = Members
    /\ cache = NoEntry
    /\ stage = [r \in Runs |-> "off"]
    /\ due = [r \in Runs |-> {}]
    /\ known = [r \in Runs |-> NoEntry.known]
    /\ current = [r \in Runs |-> Nobody]
    /\ todo = [r \in Runs |-> {}]
    /\ target = [r \in Runs |-> Nobody]
    /\ mails = [n \in Newsletters |-> [m \in Members |-> 0]]
    /\ found = [r \in Runs |-> {}]
    /\ fromCache = [r \in Runs |-> FALSE]
    /\ alone = [r \in Runs |-> FALSE]

Goto(r, s) == stage' = [stage EXCEPT ![r] = s]

-----------------------------------------------------------------------------
(* Which newsletters are due.                                              *)

\* A minute passes and the cron job starts a run, whatever is still active.
Tick ==
    LET now == clock + 1 IN
    /\ clock < Horizon
    /\ clock' = now
    /\ Goto(now, "lookup")
    /\ alone' = [r \in Runs |-> IF r = now THEN Active = {} ELSE alone[r] /\ r \notin Active]
    /\ UNCHANGED <<database, cache, due, known, current, todo, target, mails, found, fromCache>>

\* An expired entry is none.  A list that was stored counts even if it is
\* empty: [] is truthy.
Cached == clock < cache.until

LookupHits(r) ==
    /\ stage[r] = "lookup" /\ Cached
    /\ due' = [due EXCEPT ![r] = cache.due]
    /\ known' = [known EXCEPT ![r] = cache.known]
    /\ fromCache' = [fromCache EXCEPT ![r] = TRUE]
    /\ Goto(r, IF cache.due = {} THEN "done" ELSE "pick")
    /\ UNCHANGED <<clock, database, cache, current, todo, target, mails, found, alone>>

\* Nothing in the cache, or the cache cannot be read.
LookupMisses(r) ==
    /\ stage[r] = "lookup"
    /\ Goto(r, "query")
    /\ UNCHANGED <<clock, database, cache, due, known, current, todo, target, mails, history>>

\* Mutant: the window has no upper end.
WindowWithoutLead(r, n) == r <= scheduledAt[n] + Late
\* The window around the minute the run started in.
Window(r, n) == r - Late <= scheduledAt[n] /\ scheduledAt[n] <= r + Lead

\* Mutant: the deliveries are not included in the query.
NothingRecorded(n) == {m \in Members : delivery[n][m] = "absent"}
Recorded(n) == {m \in Members : delivery[n][m] # "none"}

Query(r) ==
    /\ stage[r] = "query"
    /\ due' = [due EXCEPT ![r] =
                {n \in Newsletters : Window(r, n) /\ status[n] \in {"PENDING", "FAILED"}}]
    /\ known' = [known EXCEPT ![r] = [n \in Newsletters |-> Recorded(n)]]
    /\ Goto(r, "store")
    /\ UNCHANGED <<clock, database, cache, current, todo, target, mails, history>>

\* Nothing catches a query that rejects: the run is over.
QueryFails(r) ==
    /\ stage[r] = "query"
    /\ Goto(r, "aborted")
    /\ UNCHANGED <<clock, database, cache, due, known, current, todo, target, mails, history>>

\* Mutant: a run goes on to the next newsletter when there is none.
NextEvenIfNone(r) == "pick"
NextNewsletter(r) == IF due[r] = {} THEN "done" ELSE "pick"

\* The list is stored for CacheTtl, or the cache rejects it and the run goes on.
Store(r) ==
    /\ stage[r] = "store"
    /\ \/ cache' = [until |-> clock + CacheTtl, due |-> due[r], known |-> known[r]]
       \/ UNCHANGED cache
    /\ Goto(r, NextNewsletter(r))
    /\ UNCHANGED <<clock, database, due, known, current, todo, target, mails, history>>

-----------------------------------------------------------------------------
(* One newsletter: the outer try block.                                    *)

\* The status of a cached newsletter is not looked at again.
Pick(r) == \E n \in due[r] :
    /\ stage[r] = "pick"
    /\ due' = [due EXCEPT ![r] = @ \ {n}]
    /\ current' = [current EXCEPT ![r] = n]
    /\ \/ status' = [status EXCEPT ![n] = "SENDING"] /\ Goto(r, "recipients")
       \/ UNCHANGED status /\ Goto(r, "markFailed")
    /\ UNCHANGED <<clock, scheduledAt, delivery, subscribed, cache, known, todo, target, mails, history>>

NextRecipient(left) == IF left = {} THEN "markSent" ELSE "send"

FindRecipients(r) ==
    LET recipients == subscribed \ known[r][current[r]] IN
    /\ stage[r] = "recipients"
    /\ todo' = [todo EXCEPT ![r] = recipients]
    /\ found' = [found EXCEPT ![r] = recipients]
    /\ Goto(r, NextRecipient(recipients))
    /\ UNCHANGED <<clock, database, cache, due, known, current, target, mails, fromCache, alone>>

\* Mutant: what sendEmail returned is not looked at.
ResultIgnored(reached, accepted) == "recordSent"
AfterMail(reached, accepted) == IF reached /\ accepted THEN "recordSent" ELSE "recordFailed"

\* sendEmail answers true only for a mail that was accepted; it answers false,
\* or the template throws, for one that may or may not have reached the member.
Send(r) == \E m \in todo[r], reached \in BOOLEAN, accepted \in BOOLEAN :
    /\ stage[r] = "send"
    /\ accepted => reached
    /\ mails' = IF reached THEN [mails EXCEPT ![current[r]][m] = @ + 1] ELSE mails
    /\ todo' = [todo EXCEPT ![r] = @ \ {m}]
    /\ target' = [target EXCEPT ![r] = m]
    /\ Goto(r, AfterMail(reached, accepted))
    /\ UNCHANGED <<clock, database, cache, due, known, current, history>>

SentRow(r) == [delivery EXCEPT ![current[r]][target[r]] = "SENT"]

RecordSent(r) ==
    /\ stage[r] = "recordSent"
    /\ \/ /\ delivery[current[r]][target[r]] = "none"
          /\ delivery' = SentRow(r)
          /\ Goto(r, NextRecipient(todo[r]))
       \/ Goto(r, "recordFailed") /\ UNCHANGED delivery  \* a row exists, or the call rejects
    /\ UNCHANGED <<clock, scheduledAt, status, subscribed, cache, due, known, current, todo,
                   target, mails, history>>

\* Mutants: a row that exists is overwritten; no row is written.
RecordOver(r) ==
    /\ stage[r] = "recordFailed"
    /\ delivery' = [delivery EXCEPT ![current[r]][target[r]] = "FAILED"]
    /\ Goto(r, NextRecipient(todo[r]))
    /\ UNCHANGED <<clock, scheduledAt, status, subscribed, cache, due, known, current, todo,
                   target, mails, history>>
RecordNothing(r) ==
    /\ stage[r] = "recordFailed"
    /\ Goto(r, NextRecipient(todo[r]))
    /\ UNCHANGED <<clock, database, cache, due, known, current, todo, target, mails, history>>

\* The inner catch block; what rejects in it is caught by the outer one.
RecordFailed(r) ==
    /\ stage[r] = "recordFailed"
    /\ \/ /\ delivery[current[r]][target[r]] = "none"
          /\ delivery' = [delivery EXCEPT ![current[r]][target[r]] = "FAILED"]
          /\ Goto(r, NextRecipient(todo[r]))
       \/ Goto(r, "markFailed") /\ UNCHANGED delivery
    /\ UNCHANGED <<clock, scheduledAt, status, subscribed, cache, due, known, current, todo,
                   target, mails, history>>

MarkSent(r) ==
    /\ stage[r] = "markSent"
    /\ status' = [status EXCEPT ![current[r]] = "SENT"]
    /\ Goto(r, NextNewsletter(r))
    /\ UNCHANGED <<clock, scheduledAt, delivery, subscribed, cache, due, known, current, todo,
                   target, mails, history>>

\* Finding the recipients or marking the newsletter SENT rejects.
UpdateFails(r) ==
    /\ stage[r] \in {"recipients", "markSent"}
    /\ Goto(r, "markFailed")
    /\ UNCHANGED <<clock, database, cache, due, known, current, todo, target, mails, history>>

\* Mutant: the outer catch block only logs.
StatusKept(r) == status
StatusFailed(r) == [status EXCEPT ![current[r]] = "FAILED"]

\* The outer catch block; if its own update rejects, the run is over.
MarkFailed(r) ==
    /\ stage[r] = "markFailed"
    /\ \/ status' = StatusFailed(r) /\ Goto(r, NextNewsletter(r))
       \/ UNCHANGED status /\ Goto(r, "aborted")
    /\ UNCHANGED <<clock, scheduledAt, delivery, subscribed, cache, due, known, current, todo,
                   target, mails, history>>

-----------------------------------------------------------------------------
(* The environment.                                                        *)

Create(n) ==
    /\ status[n] = "absent"
    /\ status' = [status EXCEPT ![n] = "PENDING"]
    /\ UNCHANGED <<clock, scheduledAt, delivery, subscribed, cache, control, mails, history>>

Subscribe(m) ==
    /\ subscribed' = subscribed \cup {m}
    /\ UNCHANGED <<clock, scheduledAt, status, delivery, cache, control, mails, history>>

Unsubscribe(m) ==
    /\ subscribed' = subscribed \ {m}
    /\ UNCHANGED <<clock, scheduledAt, status, delivery, cache, control, mails, history>>

\* The process restarts: its runs are gone, database and cache stay.
Crash ==
    /\ Active # {}
    /\ stage' = [r \in Runs |-> IF r \in Active THEN "dead" ELSE stage[r]]
    /\ UNCHANGED <<clock, database, cache, due, known, current, todo, target, mails, history>>

Step(r) ==
    \/ LookupHits(r) \/ LookupMisses(r) \/ Query(r) \/ QueryFails(r) \/ Store(r)
    \/ Pick(r) \/ FindRecipients(r) \/ Send(r) \/ RecordSent(r) \/ RecordFailed(r)
    \/ MarkSent(r) \/ UpdateFails(r) \/ MarkFailed(r)

Next ==
    \/ Tick \/ Crash
    \/ \E r \in Runs : Step(r)
    \/ \E n \in Newsletters : Create(n)
    \/ \E m \in Members : Subscribe(m) \/ Unsubscribe(m)

Spec == Init /\ [][Next]_vars

\* An awaited call of a run settles; the clock and the operators may stop.
FairSpec == Spec /\ \A r \in Runs : WF_vars(Step(r))

-----------------------------------------------------------------------------
(* Properties.                                                             *)

\* A delivery recorded as SENT is of a mail that reached the member; one
\* recorded as FAILED may be too (newsletter.service.ts:149-192).
SentWasMailed ==
    \A n \in Newsletters, m \in Members : delivery[n][m] = "SENT" => mails[n][m] > 0

\* What a delivery says is said once: runs that overlap, or repeat a newsletter,
\* never rewrite each other's rows (newsletter.service.ts:160-191).
DeliveriesFinal ==
    [][\A n \in Newsletters, m \in Members :
        delivery[n][m] # "none" => delivery'[n][m] = delivery[n][m]]_vars

\* Nobody is mailed earlier than Lead minutes before the hour the newsletter is
\* scheduled for, not even from a list that was stored by an earlier run
\* (newsletter.service.ts:83-93).
NeverEarly ==
    \A n \in Newsletters, m \in Members :
        mails[n][m] > 0 => scheduledAt[n] <= clock + Lead

\* Whatever failed on the way, a run is about to mark a newsletter SENT only
\* when each member it found, or found recorded, has a delivery row
\* (newsletter.service.ts:145-203).
EveryoneRecorded ==
    \A r \in Runs : stage[r] = "markSent" =>
        \A m \in found[r] \cup known[r][current[r]] : delivery[current[r]][m] # "none"

\* A newsletter in status SENDING is being worked on, or the last to work on it
\* was cut off by a restart or by its own catch block rejecting: no other
\* failure and no overlap leaves it in that status (newsletter.service.ts:127-211).
\* No query ever selects it again.
SendingHasRun ==
    \A n \in Newsletters : status[n] = "SENDING" =>
        \E r \in Runs : current[r] = n /\ stage[r] \in Mailing \cup Stopped

\* A run that was alone and read the database itself mails nobody who has a
\* delivery row: the retry of a FAILED newsletter skips whom an earlier run
\* served (newsletter.service.ts:94-96, 132-139).
RetrySkipsRecorded ==
    \A r \in Runs : stage[r] = "send" /\ alone[r] /\ ~fromCache[r] =>
        \A m \in todo[r] : delivery[current[r]][m] = "none"

\* Every run that starts comes to an end, whatever rejects on the way
\* (newsletter.service.ts:59-215).
EveryRunEnds ==
    \A r \in Runs : stage[r] \in Listing \cup Mailing ~> stage[r] \in {"done"} \cup Stopped

\* The runs so far neither overlapped nor were cut off.
Orderly == \A r \in Runs : stage[r] # "off" => alone[r] /\ stage[r] \notin Stopped

\* @@unique([newsletterId, memberId]) (schema.prisma:89), read as what it is
\* for: a member gets one mail of a newsletter, at least while runs are orderly.
OneMailPerMember ==
    Orderly => \A n \in Newsletters, m \in Members : mails[n][m] <= 1
=============================================================================
