-------------------------- MODULE Newsletter_proofs --------------------------
(***************************************************************************)
(* The invariants of Newsletter hold for any number of newsletters and     *)
(* members, any window and any time a list stays in the cache.             *)
(***************************************************************************)
EXTENDS Newsletter, TLAPS

\* What the stage of a run says about its local variables.
Placed ==
    \A r \in Runs :
        /\ r > clock => stage[r] = "off"
        /\ stage[r] \in Mailing => current[r] \in Newsletters
        /\ stage[r] \in {"recordSent", "recordFailed"} => target[r] \in Members
        /\ stage[r] = "recordSent" => mails[current[r]][target[r]] > 0
        /\ stage[r] = "markSent" => todo[r] = {}

\* What is due, or being worked on, is scheduled within Lead of the clock.
DueNear ==
    /\ \A n \in cache.due : scheduledAt[n] <= clock + Lead
    /\ \A r \in Runs :
        /\ \A n \in due[r] : scheduledAt[n] <= clock + Lead
        /\ stage[r] \in Mailing => scheduledAt[current[r]] <= clock + Lead

\* The deliveries a list came with are rows of the table.
KnownAreRows ==
    \A n \in Newsletters, m \in Members :
        m \in cache.known[n] \/ (\E r \in Runs : m \in known[r][n]) => delivery[n][m] # "none"

\* A recipient a run found is still to be mailed, is being mailed, or has a row.
FoundTraced ==
    \A r \in Runs : stage[r] \in {"send", "recordSent", "recordFailed", "markSent"} =>
        \A m \in found[r] :
            \/ m \in todo[r]
            \/ m = target[r] /\ stage[r] \in {"recordSent", "recordFailed"}
            \/ delivery[current[r]][m] # "none"

-----------------------------------------------------------------------------
(* Types.                                                                  *)

LEMMA InitTyped == Init => TypeOK /\ Placed
BY TimeAssumption DEF Init, TypeOK, Placed, NoEntry, Known, Statuses, Mailing, Runs

\* Writing one row keeps a table of rows a table of rows.
LEMMA RowWritten ==
    ASSUME NEW S, NEW f \in [Newsletters -> [Members -> S]],
           NEW n \in Newsletters, NEW m \in Members, NEW v \in S
    PROVE  /\ [f EXCEPT ![n][m] = v] \in [Newsletters -> [Members -> S]]
           /\ [f EXCEPT ![n][m] = v][n][m] = v
           /\ \A x \in Newsletters, y \in Members :
                 x # n \/ y # m => [f EXCEPT ![n][m] = v][x][y] = f[x][y]
OBVIOUS

\* Moving one run to a stage keeps the table of stages a table of stages.
LEMMA StageMoved ==
    ASSUME NEW S, stage \in [Runs -> S], NEW r \in Runs, NEW T, T \subseteq S,
           \E s \in T : stage' = [stage EXCEPT ![r] = s]
    PROVE  stage' \in [Runs -> S]
OBVIOUS

LEMMA StepTyped ==
    ASSUME TypeOK, [Next]_vars
    PROVE  Placed => TypeOK' /\ Placed'
<1> SUFFICES ASSUME Placed PROVE (TypeOK /\ Placed)'
  OBVIOUS
<1> USE TimeAssumption DEF TypeOK, Placed, Listing, Mailing, Stopped, Known, Statuses, Runs, Goto, database,
            history, control
<1>1. CASE UNCHANGED vars
  BY <1>1 DEF vars
<1>2. CASE Tick
  <2>1. clock' \in 0 .. Horizon /\ clock + 1 \in Runs  BY <1>2 DEF Tick
  <2>a. alone' \in [Runs -> BOOLEAN]
    <3>1. alone' = [r \in Runs |-> IF r = clock + 1 THEN Active = {}
                                   ELSE alone[r] /\ r \notin Active]  BY <1>2 DEF Tick
    <3>2. \A r \in Runs : (IF r = clock + 1 THEN Active = {}
                            ELSE alone[r] /\ r \notin Active) \in BOOLEAN  OBVIOUS
    <3>3. QED  BY <3>1, <3>2, Zenon
  <2>b. TypeOK'  BY <1>2, <2>1, <2>a DEF Tick
  <2>2. Placed'  BY <1>2 DEF Tick
  <2>3. QED  BY <2>b, <2>2
<1>3. CASE Crash
  BY <1>3 DEF Crash, Active
<1>4. ASSUME NEW r \in Runs, LookupHits(r) PROVE (TypeOK /\ Placed)'
  BY <1>4 DEF LookupHits
<1>5. ASSUME NEW r \in Runs, LookupMisses(r) PROVE (TypeOK /\ Placed)'
  BY <1>5 DEF LookupMisses
<1>6. ASSUME NEW r \in Runs, Query(r) PROVE (TypeOK /\ Placed)'
  BY <1>6 DEF Query, Recorded
<1>7. ASSUME NEW r \in Runs, QueryFails(r) PROVE (TypeOK /\ Placed)'
  BY <1>7 DEF QueryFails
<1>8. ASSUME NEW r \in Runs, Store(r) PROVE (TypeOK /\ Placed)'
  <2>1. TypeOK'  BY <1>8 DEF Store, NextNewsletter
  <2>2. Placed'  BY <1>8 DEF Store, NextNewsletter
  <2>3. QED  BY <2>1, <2>2
<1>9. ASSUME NEW r \in Runs, Pick(r) PROVE (TypeOK /\ Placed)'
  <2> PICK n \in due[r] : /\ stage[r] = "pick"
                          /\ due' = [due EXCEPT ![r] = @ \ {n}]
                          /\ current' = [current EXCEPT ![r] = n]
    BY <1>9 DEF Pick
  <2>a. status' \in [Newsletters -> Statuses]  BY <1>9 DEF Pick
  <2>b. stage' \in [Runs -> {"off", "done"} \cup Listing \cup Mailing \cup Stopped]
    <3>1. \E s \in {"recipients", "markFailed"} : stage' = [stage EXCEPT ![r] = s]
      BY <1>9 DEF Pick
    <3>2. QED  BY <3>1, StageMoved
  <2>c. UNCHANGED <<clock, scheduledAt, delivery, subscribed, cache, known, todo, target, mails,
                    history>>
    BY <1>9 DEF Pick
  <2>1. TypeOK'  BY <2>a, <2>b, <2>c
  <2>d. /\ stage'[r] \in {"recipients", "markFailed"}
        /\ \A q \in Runs \ {r} : stage'[q] = stage[q]
    BY <1>9 DEF Pick
  <2>2. Placed'  BY <2>c, <2>d
  <2>3. QED  BY <2>1, <2>2
<1>10. ASSUME NEW r \in Runs, FindRecipients(r) PROVE (TypeOK /\ Placed)'
  BY <1>10 DEF FindRecipients, NextRecipient
<1>11. ASSUME NEW r \in Runs, Send(r) PROVE (TypeOK /\ Placed)'
  <2> PICK m \in todo[r], reached \in BOOLEAN :
            /\ mails' = IF reached THEN [mails EXCEPT ![current[r]][m] = @ + 1] ELSE mails
            /\ todo' = [todo EXCEPT ![r] = @ \ {m}]
            /\ target' = [target EXCEPT ![r] = m]
            /\ stage[r] = "send" /\ stage'[r] \in {"recordSent", "recordFailed"}
    BY <1>11 DEF Send, AfterMail
  <2>c. current[r] \in Newsletters /\ m \in Members  BY <1>11 DEF Send
  <2>a. mails' \in [Newsletters -> [Members -> Nat]]
    <3>1. mails \in [Newsletters -> [Members -> Nat]]  OBVIOUS
    <3>2. [mails EXCEPT ![current[r]][m] = @ + 1] \in [Newsletters -> [Members -> Nat]]
      BY ONLY <2>c, <3>1
    <3>3. QED  BY <3>1, <3>2
  <2>b. stage' \in [Runs -> {"off", "done"} \cup Listing \cup Mailing \cup Stopped]
    <3>1. \E s \in {"recordSent", "recordFailed"} : stage' = [stage EXCEPT ![r] = s]
      BY <1>11 DEF Send, AfterMail
    <3>2. QED  BY <3>1, StageMoved
  <2>d. target' \in [Runs -> Members \cup {Nobody}] /\ todo' \in [Runs -> SUBSET Members]
    BY <2>c
  <2>e. UNCHANGED <<clock, database, cache, due, known, current, history>>  BY <1>11 DEF Send
  <2>1. TypeOK'  BY <2>a, <2>b, <2>d, <2>e
  <2>2. Placed'  BY <1>11 DEF Send, AfterMail
  <2>3. QED  BY <2>1, <2>2
<1>12. ASSUME NEW r \in Runs, RecordSent(r) PROVE (TypeOK /\ Placed)'
  <2>c. current[r] \in Newsletters /\ target[r] \in Members  BY <1>12 DEF RecordSent
  <2>a. delivery' \in [Newsletters -> [Members -> {"none", "SENT", "FAILED"}]]
    <3>1. \/ delivery' = delivery
          \/ delivery' = [delivery EXCEPT ![current[r]][target[r]] = "SENT"]
      BY <1>12 DEF RecordSent, SentRow
    <3>2. delivery \in [Newsletters -> [Members -> {"none", "SENT", "FAILED"}]]  OBVIOUS
    <3>3. [delivery EXCEPT ![current[r]][target[r]] = "SENT"]
            \in [Newsletters -> [Members -> {"none", "SENT", "FAILED"}]]
      BY ONLY <2>c, <3>2, RowWritten
    <3>4. QED  BY ONLY <3>1, <3>2, <3>3
  <2>b. stage' \in [Runs -> {"off", "done"} \cup Listing \cup Mailing \cup Stopped]
    <3>1. \E s \in {"markSent", "send", "recordFailed"} : stage' = [stage EXCEPT ![r] = s]
      BY <1>12 DEF RecordSent, NextRecipient
    <3>2. QED  BY <3>1, StageMoved
  <2>d. UNCHANGED <<clock, scheduledAt, status, subscribed, cache, due, known, current, todo,
                    target, mails, history>>
    BY <1>12 DEF RecordSent
  <2>1. TypeOK'  BY <2>a, <2>b, <2>d
  <2>e. /\ stage'[r] \in {"markSent", "send", "recordFailed"}
        /\ stage'[r] = "markSent" => todo[r] = {}
        /\ stage[r] = "recordSent"
        /\ \A q \in Runs \ {r} : stage'[q] = stage[q]
    BY <1>12 DEF RecordSent, NextRecipient
  <2>2. Placed'  BY <2>d, <2>e
  <2>3. QED  BY <2>1, <2>2
<1>13. ASSUME NEW r \in Runs, RecordFailed(r) PROVE (TypeOK /\ Placed)'
  <2>c. current[r] \in Newsletters /\ target[r] \in Members  BY <1>13 DEF RecordFailed
  <2>a. delivery' \in [Newsletters -> [Members -> {"none", "SENT", "FAILED"}]]
    <3>1. \/ delivery' = delivery
          \/ delivery' = [delivery EXCEPT ![current[r]][target[r]] = "FAILED"]
      BY <1>13 DEF RecordFailed
    <3>2. delivery \in [Newsletters -> [Members -> {"none", "SENT", "FAILED"}]]  OBVIOUS
    <3>3. [delivery EXCEPT ![current[r]][target[r]] = "FAILED"]
            \in [Newsletters -> [Members -> {"none", "SENT", "FAILED"}]]
      BY ONLY <2>c, <3>2, RowWritten
    <3>4. QED  BY ONLY <3>1, <3>2, <3>3
  <2>b. stage' \in [Runs -> {"off", "done"} \cup Listing \cup Mailing \cup Stopped]
    <3>1. \E s \in {"markSent", "send", "markFailed"} : stage' = [stage EXCEPT ![r] = s]
      BY <1>13 DEF RecordFailed, NextRecipient
    <3>2. QED  BY <3>1, StageMoved
  <2>d. UNCHANGED <<clock, scheduledAt, status, subscribed, cache, due, known, current, todo,
                    target, mails, history>>
    BY <1>13 DEF RecordFailed
  <2>1. TypeOK'  BY <2>a, <2>b, <2>d
  <2>e. /\ stage'[r] \in {"markSent", "send", "markFailed"}
        /\ stage'[r] = "markSent" => todo[r] = {}
        /\ stage[r] = "recordFailed"
        /\ \A q \in Runs \ {r} : stage'[q] = stage[q]
    BY <1>13 DEF RecordFailed, NextRecipient
  <2>2. Placed'  BY <2>d, <2>e
  <2>3. QED  BY <2>1, <2>2
<1>14. ASSUME NEW r \in Runs, MarkSent(r) PROVE (TypeOK /\ Placed)'
  BY <1>14 DEF MarkSent, NextNewsletter
<1>15. ASSUME NEW r \in Runs, UpdateFails(r) PROVE (TypeOK /\ Placed)'
  BY <1>15 DEF UpdateFails
<1>16. ASSUME NEW r \in Runs, MarkFailed(r) PROVE (TypeOK /\ Placed)'
  <2>a. status' \in [Newsletters -> Statuses]  BY <1>16 DEF MarkFailed, StatusFailed
  <2>b. stage' \in [Runs -> {"off", "done"} \cup Listing \cup Mailing \cup Stopped]
    <3>1. \E s \in {"done", "pick", "aborted"} : stage' = [stage EXCEPT ![r] = s]
      BY <1>16 DEF MarkFailed, NextNewsletter
    <3>2. QED  BY <3>1, StageMoved
  <2>d. UNCHANGED <<clock, scheduledAt, delivery, subscribed, cache, due, known, current, todo,
                    target, mails, history>>
    BY <1>16 DEF MarkFailed
  <2>1. TypeOK'  BY <2>a, <2>b, <2>d
  <2>2. Placed'  BY <1>16 DEF MarkFailed, StatusFailed, NextNewsletter
  <2>3. QED  BY <2>1, <2>2
<1>17. ASSUME NEW n \in Newsletters, Create(n) PROVE (TypeOK /\ Placed)'
  BY <1>17 DEF Create
<1>18. ASSUME NEW m \in Members, Subscribe(m) PROVE (TypeOK /\ Placed)'
  BY <1>18 DEF Subscribe
<1>19. ASSUME NEW m \in Members, Unsubscribe(m) PROVE (TypeOK /\ Placed)'
  BY <1>19 DEF Unsubscribe
<1>20. QED
  BY <1>1, <1>2, <1>3, <1>4, <1>5, <1>6, <1>7, <1>8, <1>9,
     <1>10, <1>11, <1>12, <1>13, <1>14, <1>15, <1>16, <1>17, <1>18, <1>19
  DEF Next, Step

\* Every variable keeps its type (see TypeOK); no delivery row is ever PENDING.
THEOREM TypeCorrect == Spec => []TypeOK
<1>1. Init => TypeOK /\ Placed  BY InitTyped
<1>2. (TypeOK /\ Placed) /\ [Next]_vars => (TypeOK /\ Placed)'  BY StepTyped
<1>3. QED  BY <1>1, <1>2, PTL DEF Spec

-----------------------------------------------------------------------------
(* SENDING is never left behind by a run that goes on.                     *)

LEMMA StepSending ==
    ASSUME TypeOK, Placed, SendingHasRun, [Next]_vars
    PROVE  SendingHasRun'
<1> SUFFICES ASSUME NEW k \in Newsletters, status'[k] = "SENDING"
             PROVE  \E q \in Runs : current'[q] = k /\ stage'[q] \in Mailing \cup Stopped
  BY DEF SendingHasRun
<1> DEFINE HasRun == \E q \in Runs : current[q] = k /\ stage[q] \in Mailing \cup Stopped
<1>0. status[k] = "SENDING" => HasRun  BY DEF SendingHasRun
<1> USE DEF TypeOK, Placed, Mailing, Stopped, Goto, database, control, history
<1>1. CASE UNCHANGED vars
  BY <1>0, <1>1 DEF vars
<1>2. CASE Tick
  <2>1. PICK q \in Runs : current[q] = k /\ stage[q] \in Mailing \cup Stopped
    BY <1>0, <1>2 DEF Tick
  <2>2. clock + 1 > clock /\ q # clock + 1  BY <2>1, TimeAssumption DEF Runs
  <2>3. current'[q] = k /\ stage'[q] = stage[q]  BY <1>2, <2>1, <2>2 DEF Tick
  <2>4. QED  BY <2>1, <2>3
<1>3. CASE Crash
  BY <1>0, <1>3 DEF Crash, Active
<1>4. ASSUME NEW r \in Runs, LookupHits(r) PROVE HasRun'
  BY <1>0, <1>4 DEF LookupHits
<1>5. ASSUME NEW r \in Runs, LookupMisses(r) PROVE HasRun'
  BY <1>0, <1>5 DEF LookupMisses
<1>6. ASSUME NEW r \in Runs, Query(r) PROVE HasRun'
  BY <1>0, <1>6 DEF Query, Recorded
<1>7. ASSUME NEW r \in Runs, QueryFails(r) PROVE HasRun'
  BY <1>0, <1>7 DEF QueryFails
<1>8. ASSUME NEW r \in Runs, Store(r) PROVE HasRun'
  BY <1>0, <1>8 DEF Store, NextNewsletter
<1>9. ASSUME NEW r \in Runs, Pick(r) PROVE HasRun'
  <2>1. PICK n \in due[r] :
          /\ stage[r] = "pick"
          /\ current' = [current EXCEPT ![r] = n]
          /\ \/ status' = [status EXCEPT ![n] = "SENDING"] /\ Goto(r, "recipients")
             \/ UNCHANGED status /\ Goto(r, "markFailed")
    BY <1>9 DEF Pick
  <2>2. CASE k = n
    <3>1. current'[r] = k /\ stage'[r] \in Mailing  BY <2>1, <2>2
    <3>2. QED  BY <3>1
  <2>3. CASE k # n
    <3>1. status[k] = "SENDING"  BY <2>1, <2>3
    <3>2. PICK q \in Runs : current[q] = k /\ stage[q] \in Mailing \cup Stopped  BY <1>0, <3>1
    <3>3. q # r  BY <2>1, <3>2
    <3>4. current'[q] = k /\ stage'[q] = stage[q]  BY <2>1, <3>2, <3>3
    <3>5. QED  BY <3>2, <3>4
  <2>4. QED  BY <2>2, <2>3
<1>10. ASSUME NEW r \in Runs, FindRecipients(r) PROVE HasRun'
  BY <1>0, <1>10 DEF FindRecipients, NextRecipient
<1>11. ASSUME NEW r \in Runs, Send(r) PROVE HasRun'
  BY <1>0, <1>11 DEF Send, AfterMail
<1>12. ASSUME NEW r \in Runs, RecordSent(r) PROVE HasRun'
  BY <1>0, <1>12 DEF RecordSent, SentRow, NextRecipient
<1>13. ASSUME NEW r \in Runs, RecordFailed(r) PROVE HasRun'
  BY <1>0, <1>13 DEF RecordFailed, NextRecipient
<1>14. ASSUME NEW r \in Runs, MarkSent(r) PROVE HasRun'
  BY <1>0, <1>14 DEF MarkSent, NextNewsletter
<1>15. ASSUME NEW r \in Runs, UpdateFails(r) PROVE HasRun'
  BY <1>0, <1>15 DEF UpdateFails
<1>16. ASSUME NEW r \in Runs, MarkFailed(r) PROVE HasRun'
  BY <1>0, <1>16 DEF MarkFailed, StatusFailed, NextNewsletter
<1>17. ASSUME NEW n \in Newsletters, Create(n) PROVE HasRun'
  BY <1>0, <1>17 DEF Create
<1>18. ASSUME NEW m \in Members, Subscribe(m) PROVE HasRun'
  BY <1>0, <1>18 DEF Subscribe
<1>19. ASSUME NEW m \in Members, Unsubscribe(m) PROVE HasRun'
  BY <1>0, <1>19 DEF Unsubscribe
<1>20. QED
  BY <1>1, <1>2, <1>3, <1>4, <1>5, <1>6, <1>7, <1>8, <1>9,
     <1>10, <1>11, <1>12, <1>13, <1>14, <1>15, <1>16, <1>17, <1>18, <1>19
  DEF Next, Step

\* A newsletter in status SENDING is at work, or was cut off (SendingHasRun).
THEOREM SendingKeepsRun == Spec => []SendingHasRun
<1> DEFINE Inv == TypeOK /\ Placed /\ SendingHasRun
<1>1. Init => Inv  BY InitTyped DEF Init, SendingHasRun
<1>2. Inv /\ [Next]_vars => Inv'  BY StepTyped, StepSending
<1>3. QED  BY <1>1, <1>2, PTL DEF Spec

-----------------------------------------------------------------------------
(* Nobody is mailed too early.                                             *)

LEMMA StepEarly ==
    ASSUME TypeOK, Placed, DueNear, NeverEarly, [Next]_vars
    PROVE  DueNear' /\ NeverEarly'
<1> USE TimeAssumption DEF TypeOK, Placed, DueNear, NeverEarly, Mailing, Runs, Hours, Goto, database, control, history
<1>1. CASE UNCHANGED vars
  BY <1>1 DEF vars
<1>2. CASE Tick
  BY <1>2 DEF Tick
<1>3. CASE Crash
  BY <1>3 DEF Crash, Active
<1>4. ASSUME NEW r \in Runs, LookupHits(r) PROVE (DueNear /\ NeverEarly)'
  BY <1>4 DEF LookupHits
<1>5. ASSUME NEW r \in Runs, LookupMisses(r) PROVE (DueNear /\ NeverEarly)'
  BY <1>5 DEF LookupMisses
<1>6. ASSUME NEW r \in Runs, Query(r) PROVE (DueNear /\ NeverEarly)'
  BY <1>6 DEF Query, Window
<1>7. ASSUME NEW r \in Runs, QueryFails(r) PROVE (DueNear /\ NeverEarly)'
  BY <1>7 DEF QueryFails
<1>8. ASSUME NEW r \in Runs, Store(r) PROVE (DueNear /\ NeverEarly)'
  BY <1>8 DEF Store, NextNewsletter
<1>9. ASSUME NEW r \in Runs, Pick(r) PROVE (DueNear /\ NeverEarly)'
  BY <1>9 DEF Pick
<1>10. ASSUME NEW r \in Runs, FindRecipients(r) PROVE (DueNear /\ NeverEarly)'
  BY <1>10 DEF FindRecipients, NextRecipient
<1>11. ASSUME NEW r \in Runs, Send(r) PROVE (DueNear /\ NeverEarly)'
  BY <1>11 DEF Send, AfterMail
<1>12. ASSUME NEW r \in Runs, RecordSent(r) PROVE (DueNear /\ NeverEarly)'
  BY <1>12 DEF RecordSent, SentRow, NextRecipient
<1>13. ASSUME NEW r \in Runs, RecordFailed(r) PROVE (DueNear /\ NeverEarly)'
  BY <1>13 DEF RecordFailed, NextRecipient
<1>14. ASSUME NEW r \in Runs, MarkSent(r) PROVE (DueNear /\ NeverEarly)'
  BY <1>14 DEF MarkSent, NextNewsletter
<1>15. ASSUME NEW r \in Runs, UpdateFails(r) PROVE (DueNear /\ NeverEarly)'
  BY <1>15 DEF UpdateFails
<1>16. ASSUME NEW r \in Runs, MarkFailed(r) PROVE (DueNear /\ NeverEarly)'
  BY <1>16 DEF MarkFailed, StatusFailed, NextNewsletter
<1>17. ASSUME NEW n \in Newsletters, Create(n) PROVE (DueNear /\ NeverEarly)'
  BY <1>17 DEF Create
<1>18. ASSUME NEW m \in Members, Subscribe(m) PROVE (DueNear /\ NeverEarly)'
  BY <1>18 DEF Subscribe
<1>19. ASSUME NEW m \in Members, Unsubscribe(m) PROVE (DueNear /\ NeverEarly)'
  BY <1>19 DEF Unsubscribe
<1>20. QED
  BY <1>1, <1>2, <1>3, <1>4, <1>5, <1>6, <1>7, <1>8, <1>9,
     <1>10, <1>11, <1>12, <1>13, <1>14, <1>15, <1>16, <1>17, <1>18, <1>19
  DEF Next, Step

\* A mail is never earlier than Lead minutes before its hour (NeverEarly).
THEOREM MailsNeverEarly == Spec => []NeverEarly
<1> DEFINE Inv == TypeOK /\ Placed /\ DueNear /\ NeverEarly
<1>1. Init => Inv
  BY InitTyped, TimeAssumption DEF Init, DueNear, NeverEarly, NoEntry, Mailing
<1>2. Inv /\ [Next]_vars => Inv'  BY StepTyped, StepEarly
<1>3. QED  BY <1>1, <1>2, PTL DEF Spec

-----------------------------------------------------------------------------
(* Delivery rows.                                                          *)

\* What recording one delivery does to the table.
LEMMA RowOfRun ==
    ASSUME TypeOK, Placed, NEW r \in Runs, RecordSent(r) \/ RecordFailed(r)
    PROVE  /\ current[r] \in Newsletters /\ target[r] \in Members
           /\ \/ stage'[r] \in {"recordFailed", "markFailed"}
              \/ delivery'[current[r]][target[r]] # "none"
           /\ \A n \in Newsletters, m \in Members :
                 \/ delivery'[n][m] = delivery[n][m]
                 \/ /\ n = current[r] /\ m = target[r] /\ delivery[n][m] = "none"
                    /\ delivery'[n][m] = IF stage[r] = "recordSent" THEN "SENT" ELSE "FAILED"
<1> DEFINE row == IF stage[r] = "recordSent" THEN "SENT" ELSE "FAILED"
<1>1. current[r] \in Newsletters /\ target[r] \in Members
  BY DEF Placed, RecordSent, RecordFailed, Mailing
<1>2. \/ delivery' = delivery /\ stage'[r] \in {"recordFailed", "markFailed"}
      \/ /\ delivery[current[r]][target[r]] = "none"
         /\ delivery' = [delivery EXCEPT ![current[r]][target[r]] = row]
  BY DEF RecordSent, RecordFailed, SentRow, Goto, TypeOK
<1>3. delivery \in [Newsletters -> [Members -> {"none", "SENT", "FAILED"}]]  BY DEF TypeOK
<1>4. row \in {"none", "SENT", "FAILED"}  OBVIOUS
<1> HIDE DEF row
<1>5. QED  BY ONLY <1>1, <1>2, <1>3, <1>4, RowWritten DEF row

\* No step rewrites a row, and no step takes a mail back.
LEMMA RowsStay ==
    ASSUME TypeOK, Placed, [Next]_vars, NEW k \in Newsletters, NEW p \in Members
    PROVE  /\ delivery[k][p] # "none" => delivery'[k][p] = delivery[k][p]
           /\ mails[k][p] <= mails'[k][p]
<1> DEFINE Stay == /\ delivery[k][p] # "none" => delivery'[k][p] = delivery[k][p]
                   /\ mails[k][p] <= mails'[k][p]
<1> USE DEF TypeOK, database, control, history
<1>1. CASE UNCHANGED vars
  BY <1>1 DEF vars
<1>2. CASE Tick
  BY <1>2 DEF Tick
<1>3. CASE Crash
  BY <1>3 DEF Crash, Active
<1>4. ASSUME NEW r \in Runs, LookupHits(r) PROVE Stay
  BY <1>4 DEF LookupHits
<1>5. ASSUME NEW r \in Runs, LookupMisses(r) PROVE Stay
  BY <1>5 DEF LookupMisses
<1>6. ASSUME NEW r \in Runs, Query(r) PROVE Stay
  BY <1>6 DEF Query, Recorded
<1>7. ASSUME NEW r \in Runs, QueryFails(r) PROVE Stay
  BY <1>7 DEF QueryFails
<1>8. ASSUME NEW r \in Runs, Store(r) PROVE Stay
  BY <1>8 DEF Store, NextNewsletter
<1>9. ASSUME NEW r \in Runs, Pick(r) PROVE Stay
  BY <1>9 DEF Pick
<1>10. ASSUME NEW r \in Runs, FindRecipients(r) PROVE Stay
  BY <1>10 DEF FindRecipients, NextRecipient
<1>11. ASSUME NEW r \in Runs, Send(r) PROVE Stay
  BY <1>11 DEF Send, AfterMail
<1>12. ASSUME NEW r \in Runs, RecordSent(r) PROVE Stay
  <2>1. mails' = mails  BY <1>12 DEF RecordSent
  <2>2. delivery[k][p] # "none" => delivery'[k][p] = delivery[k][p]  BY <1>12, RowOfRun
  <2>3. QED  BY <2>1, <2>2
<1>13. ASSUME NEW r \in Runs, RecordFailed(r) PROVE Stay
  <2>1. mails' = mails  BY <1>13 DEF RecordFailed
  <2>2. delivery[k][p] # "none" => delivery'[k][p] = delivery[k][p]  BY <1>13, RowOfRun
  <2>3. QED  BY <2>1, <2>2
<1>14. ASSUME NEW r \in Runs, MarkSent(r) PROVE Stay
  BY <1>14 DEF MarkSent, NextNewsletter
<1>15. ASSUME NEW r \in Runs, UpdateFails(r) PROVE Stay
  BY <1>15 DEF UpdateFails
<1>16. ASSUME NEW r \in Runs, MarkFailed(r) PROVE Stay
  BY <1>16 DEF MarkFailed, StatusFailed, NextNewsletter
<1>17. ASSUME NEW n \in Newsletters, Create(n) PROVE Stay
  BY <1>17 DEF Create
<1>18. ASSUME NEW m \in Members, Subscribe(m) PROVE Stay
  BY <1>18 DEF Subscribe
<1>19. ASSUME NEW m \in Members, Unsubscribe(m) PROVE Stay
  BY <1>19 DEF Unsubscribe
<1>20. QED
  BY <1>1, <1>2, <1>3, <1>4, <1>5, <1>6, <1>7, <1>8, <1>9,
     <1>10, <1>11, <1>12, <1>13, <1>14, <1>15, <1>16, <1>17, <1>18, <1>19
  DEF Next, Step

\* A delivery row, once written, never changes (DeliveriesFinal).
THEOREM RowsAreFinal == Spec => DeliveriesFinal
<1>1. Init => TypeOK /\ Placed  BY InitTyped
<1>2. (TypeOK /\ Placed) /\ [Next]_vars => (TypeOK /\ Placed)'  BY StepTyped
<1>3. TypeOK /\ Placed /\ [Next]_vars =>
        [\A n \in Newsletters, m \in Members :
            delivery[n][m] # "none" => delivery'[n][m] = delivery[n][m]]_vars
  BY RowsStay
<1>4. QED  BY <1>1, <1>2, <1>3, PTL DEF Spec, DeliveriesFinal

LEMMA StepSentMailed ==
    ASSUME TypeOK, Placed, SentWasMailed, [Next]_vars
    PROVE  SentWasMailed'
<1> SUFFICES ASSUME NEW k \in Newsletters, NEW p \in Members, delivery'[k][p] = "SENT"
             PROVE  mails'[k][p] > 0
  BY DEF SentWasMailed
<1> DEFINE Mailed == mails[k][p] > 0
<1>0. delivery[k][p] = "SENT" => mails'[k][p] > 0
  BY StepTyped, RowsStay DEF SentWasMailed, TypeOK
<1> USE DEF TypeOK, Placed, Goto, database, control, history
<1>1. CASE UNCHANGED vars
  BY <1>0, <1>1 DEF vars
<1>2. CASE Tick
  BY <1>0, <1>2 DEF Tick
<1>3. CASE Crash
  BY <1>0, <1>3 DEF Crash, Active
<1>4. ASSUME NEW r \in Runs, LookupHits(r) PROVE Mailed'
  BY <1>0, <1>4 DEF LookupHits
<1>5. ASSUME NEW r \in Runs, LookupMisses(r) PROVE Mailed'
  BY <1>0, <1>5 DEF LookupMisses
<1>6. ASSUME NEW r \in Runs, Query(r) PROVE Mailed'
  BY <1>0, <1>6 DEF Query, Recorded
<1>7. ASSUME NEW r \in Runs, QueryFails(r) PROVE Mailed'
  BY <1>0, <1>7 DEF QueryFails
<1>8. ASSUME NEW r \in Runs, Store(r) PROVE Mailed'
  BY <1>0, <1>8 DEF Store, NextNewsletter
<1>9. ASSUME NEW r \in Runs, Pick(r) PROVE Mailed'
  BY <1>0, <1>9 DEF Pick
<1>10. ASSUME NEW r \in Runs, FindRecipients(r) PROVE Mailed'
  BY <1>0, <1>10 DEF FindRecipients, NextRecipient
<1>11. ASSUME NEW r \in Runs, Send(r) PROVE Mailed'
  BY <1>0, <1>11 DEF Send, AfterMail
<1>12. ASSUME NEW r \in Runs, RecordSent(r) PROVE Mailed'
  <2>1. mails' = mails  BY <1>12 DEF RecordSent
  <2>2. CASE k = current[r] /\ p = target[r]
    <3>1. mails[k][p] > 0  BY <1>12, <2>2 DEF RecordSent
    <3>2. QED  BY <2>1, <3>1
  <2>3. CASE ~(k = current[r] /\ p = target[r])
    <3>1. delivery'[k][p] = delivery[k][p]  BY <1>12, <2>3, RowOfRun
    <3>2. QED  BY <1>0, <3>1
  <2>4. QED  BY <2>2, <2>3
<1>13. ASSUME NEW r \in Runs, RecordFailed(r) PROVE Mailed'
  <2>1. mails' = mails  BY <1>13 DEF RecordFailed
  <2>2. stage[r] # "recordSent"  BY <1>13 DEF RecordFailed
  <2>3. delivery'[k][p] = delivery[k][p] \/ delivery'[k][p] = "FAILED"
    BY <1>13, <2>2, RowOfRun
  <2>4. QED  BY <1>0, <2>3
<1>14. ASSUME NEW r \in Runs, MarkSent(r) PROVE Mailed'
  BY <1>0, <1>14 DEF MarkSent, NextNewsletter
<1>15. ASSUME NEW r \in Runs, UpdateFails(r) PROVE Mailed'
  BY <1>0, <1>15 DEF UpdateFails
<1>16. ASSUME NEW r \in Runs, MarkFailed(r) PROVE Mailed'
  BY <1>0, <1>16 DEF MarkFailed, StatusFailed, NextNewsletter
<1>17. ASSUME NEW n \in Newsletters, Create(n) PROVE Mailed'
  BY <1>0, <1>17 DEF Create
<1>18. ASSUME NEW m \in Members, Subscribe(m) PROVE Mailed'
  BY <1>0, <1>18 DEF Subscribe
<1>19. ASSUME NEW m \in Members, Unsubscribe(m) PROVE Mailed'
  BY <1>0, <1>19 DEF Unsubscribe
<1>20. QED
  BY <1>1, <1>2, <1>3, <1>4, <1>5, <1>6, <1>7, <1>8, <1>9,
     <1>10, <1>11, <1>12, <1>13, <1>14, <1>15, <1>16, <1>17, <1>18, <1>19
  DEF Next, Step

\* A delivery recorded as SENT is of a mail that arrived (SentWasMailed).
THEOREM SentIsMailed == Spec => []SentWasMailed
<1> DEFINE Inv == TypeOK /\ Placed /\ SentWasMailed
<1>1. Init => Inv  BY InitTyped DEF Init, SentWasMailed
<1>2. Inv /\ [Next]_vars => Inv'  BY StepTyped, StepSentMailed
<1>3. QED  BY <1>1, <1>2, PTL DEF Spec

LEMMA StepKnown ==
    ASSUME TypeOK, Placed, KnownAreRows, [Next]_vars
    PROVE  KnownAreRows'
<1> SUFFICES ASSUME NEW k \in Newsletters, NEW p \in Members, delivery'[k][p] = "none"
             PROVE  p \notin cache'.known[k] /\ \A q \in Runs : p \notin known'[q][k]
  BY DEF KnownAreRows
<1> DEFINE Unknown == p \notin cache.known[k] /\ \A q \in Runs : p \notin known[q][k]
<1>0. delivery[k][p] = "none" /\ Unknown  BY RowsStay DEF KnownAreRows
<1> USE DEF TypeOK, Known, database, control, history
<1>1. CASE UNCHANGED vars
  BY <1>0, <1>1 DEF vars
<1>2. CASE Tick
  BY <1>0, <1>2 DEF Tick
<1>3. CASE Crash
  BY <1>0, <1>3 DEF Crash, Active
<1>4. ASSUME NEW r \in Runs, LookupHits(r) PROVE Unknown'
  BY <1>0, <1>4 DEF LookupHits
<1>5. ASSUME NEW r \in Runs, LookupMisses(r) PROVE Unknown'
  BY <1>0, <1>5 DEF LookupMisses
<1>6. ASSUME NEW r \in Runs, Query(r) PROVE Unknown'
  BY <1>0, <1>6 DEF Query, Recorded
<1>7. ASSUME NEW r \in Runs, QueryFails(r) PROVE Unknown'
  BY <1>0, <1>7 DEF QueryFails
<1>8. ASSUME NEW r \in Runs, Store(r) PROVE Unknown'
  BY <1>0, <1>8 DEF Store, NextNewsletter
<1>9. ASSUME NEW r \in Runs, Pick(r) PROVE Unknown'
  BY <1>0, <1>9 DEF Pick
<1>10. ASSUME NEW r \in Runs, FindRecipients(r) PROVE Unknown'
  BY <1>0, <1>10 DEF FindRecipients, NextRecipient
<1>11. ASSUME NEW r \in Runs, Send(r) PROVE Unknown'
  BY <1>0, <1>11 DEF Send, AfterMail
<1>12. ASSUME NEW r \in Runs, RecordSent(r) PROVE Unknown'
  BY <1>0, <1>12 DEF RecordSent, SentRow, NextRecipient
<1>13. ASSUME NEW r \in Runs, RecordFailed(r) PROVE Unknown'
  BY <1>0, <1>13 DEF RecordFailed, NextRecipient
<1>14. ASSUME NEW r \in Runs, MarkSent(r) PROVE Unknown'
  BY <1>0, <1>14 DEF MarkSent, NextNewsletter
<1>15. ASSUME NEW r \in Runs, UpdateFails(r) PROVE Unknown'
  BY <1>0, <1>15 DEF UpdateFails
<1>16. ASSUME NEW r \in Runs, MarkFailed(r) PROVE Unknown'
  BY <1>0, <1>16 DEF MarkFailed, StatusFailed, NextNewsletter
<1>17. ASSUME NEW n \in Newsletters, Create(n) PROVE Unknown'
  BY <1>0, <1>17 DEF Create
<1>18. ASSUME NEW m \in Members, Subscribe(m) PROVE Unknown'
  BY <1>0, <1>18 DEF Subscribe
<1>19. ASSUME NEW m \in Members, Unsubscribe(m) PROVE Unknown'
  BY <1>0, <1>19 DEF Unsubscribe
<1>20. QED
  BY <1>1, <1>2, <1>3, <1>4, <1>5, <1>6, <1>7, <1>8, <1>9,
     <1>10, <1>11, <1>12, <1>13, <1>14, <1>15, <1>16, <1>17, <1>18, <1>19
  DEF Next, Step

LEMMA StepFound ==
    ASSUME TypeOK, Placed, FoundTraced, [Next]_vars
    PROVE  FoundTraced'
<1> SUFFICES ASSUME NEW q \in Runs, NEW p \in found'[q],
                    stage'[q] \in {"send", "recordSent", "recordFailed", "markSent"}
             PROVE  (\/ p \in todo[q]
                     \/ p = target[q] /\ stage[q] \in {"recordSent", "recordFailed"}
                     \/ delivery[current[q]][p] # "none")'
  BY DEF FoundTraced
<1> DEFINE Traced == \/ p \in todo[q]
                     \/ p = target[q] /\ stage[q] \in {"recordSent", "recordFailed"}
                     \/ delivery[current[q]][p] # "none"
<1> USE DEF TypeOK, Placed, FoundTraced, Mailing, Goto, database, control, history
<1>1. CASE UNCHANGED vars
  BY <1>1 DEF vars
<1>2. CASE Tick
  BY <1>2 DEF Tick
<1>3. CASE Crash
  BY <1>3 DEF Crash, Active
<1>4. ASSUME NEW r \in Runs, LookupHits(r) PROVE Traced'
  BY <1>4 DEF LookupHits
<1>5. ASSUME NEW r \in Runs, LookupMisses(r) PROVE Traced'
  BY <1>5 DEF LookupMisses
<1>6. ASSUME NEW r \in Runs, Query(r) PROVE Traced'
  BY <1>6 DEF Query, Recorded
<1>7. ASSUME NEW r \in Runs, QueryFails(r) PROVE Traced'
  BY <1>7 DEF QueryFails
<1>8. ASSUME NEW r \in Runs, Store(r) PROVE Traced'
  BY <1>8 DEF Store, NextNewsletter
<1>9. ASSUME NEW r \in Runs, Pick(r) PROVE Traced'
  BY <1>9 DEF Pick
<1>10. ASSUME NEW r \in Runs, FindRecipients(r) PROVE Traced'
  BY <1>10 DEF FindRecipients, NextRecipient
<1>11. ASSUME NEW r \in Runs, Send(r) PROVE Traced'
  BY <1>11 DEF Send, AfterMail
<1>12. ASSUME NEW r \in Runs, RecordSent(r) PROVE Traced'
  <2>1. found' = found /\ todo' = todo /\ target' = target /\ current' = current
    BY <1>12 DEF RecordSent
  <2>2. current[q] \in Newsletters /\ p \in Members
    BY <1>12, <2>1 DEF RecordSent, NextRecipient
  <2>3. delivery[current[q]][p] # "none" => delivery'[current[q]][p] # "none"
    BY <1>12, <2>2, RowOfRun
  <2>4. CASE q = r
    <3>1. p \in todo[q] \/ p = target[q] \/ delivery[current[q]][p] # "none"
      BY <1>12, <2>1, <2>4 DEF RecordSent
    <3>2. p = target[q] => stage'[q] = "recordFailed" \/ delivery'[current[q]][p] # "none"
      BY <1>12, <2>4, RowOfRun
    <3>3. QED  BY <2>1, <2>3, <3>1, <3>2
  <2>5. CASE q # r
    <3>1. stage'[q] = stage[q]  BY <1>12, <2>5 DEF RecordSent
    <3>2. QED  BY <2>1, <2>3, <3>1
  <2>6. QED  BY <2>4, <2>5
<1>13. ASSUME NEW r \in Runs, RecordFailed(r) PROVE Traced'
  <2>1. found' = found /\ todo' = todo /\ target' = target /\ current' = current
    BY <1>13 DEF RecordFailed
  <2>2. current[q] \in Newsletters /\ p \in Members
    BY <1>13, <2>1 DEF RecordFailed, NextRecipient
  <2>3. delivery[current[q]][p] # "none" => delivery'[current[q]][p] # "none"
    BY <1>13, <2>2, RowOfRun
  <2>4. CASE q = r
    <3>1. p \in todo[q] \/ p = target[q] \/ delivery[current[q]][p] # "none"
      BY <1>13, <2>1, <2>4 DEF RecordFailed
    <3>2. p = target[q] => stage'[q] = "recordFailed" \/ delivery'[current[q]][p] # "none"
      BY <1>13, <2>4, RowOfRun
    <3>3. QED  BY <2>1, <2>3, <3>1, <3>2
  <2>5. CASE q # r
    <3>1. stage'[q] = stage[q]  BY <1>13, <2>5 DEF RecordFailed
    <3>2. QED  BY <2>1, <2>3, <3>1
  <2>6. QED  BY <2>4, <2>5
<1>14. ASSUME NEW r \in Runs, MarkSent(r) PROVE Traced'
  BY <1>14 DEF MarkSent, NextNewsletter
<1>15. ASSUME NEW r \in Runs, UpdateFails(r) PROVE Traced'
  BY <1>15 DEF UpdateFails
<1>16. ASSUME NEW r \in Runs, MarkFailed(r) PROVE Traced'
  BY <1>16 DEF MarkFailed, StatusFailed, NextNewsletter
<1>17. ASSUME NEW n \in Newsletters, Create(n) PROVE Traced'
  BY <1>17 DEF Create
<1>18. ASSUME NEW m \in Members, Subscribe(m) PROVE Traced'
  BY <1>18 DEF Subscribe
<1>19. ASSUME NEW m \in Members, Unsubscribe(m) PROVE Traced'
  BY <1>19 DEF Unsubscribe
<1>20. QED
  BY <1>1, <1>2, <1>3, <1>4, <1>5, <1>6, <1>7, <1>8, <1>9,
     <1>10, <1>11, <1>12, <1>13, <1>14, <1>15, <1>16, <1>17, <1>18, <1>19
  DEF Next, Step

\* A run marks a newsletter SENT only when everyone has a row (EveryoneRecorded).
THEOREM SentCoversEveryone == Spec => []EveryoneRecorded
<1> DEFINE Inv == TypeOK /\ Placed /\ KnownAreRows /\ FoundTraced
<1>1. Init => Inv  BY InitTyped DEF Init, KnownAreRows, FoundTraced, NoEntry
<1>2. Inv /\ [Next]_vars => Inv'  BY StepTyped, StepKnown, StepFound
<1>3. Inv => EveryoneRecorded
  <2> SUFFICES ASSUME Inv, NEW r \in Runs, stage[r] = "markSent",
                      NEW m \in found[r] \cup known[r][current[r]]
               PROVE  delivery[current[r]][m] # "none"
    BY DEF EveryoneRecorded
  <2>1. current[r] \in Newsletters /\ todo[r] = {}  BY DEF Placed, Mailing
  <2>2. m \in Members  BY <2>1 DEF TypeOK, Known
  <2>3. CASE m \in found[r]  BY <2>1, <2>3 DEF FoundTraced
  <2>4. CASE m \in known[r][current[r]]  BY <2>1, <2>2, <2>4 DEF KnownAreRows
  <2>5. QED  BY <2>3, <2>4
<1>4. QED  BY <1>1, <1>2, <1>3, PTL DEF Spec
-----------------------------------------------------------------------------
(* Retries.                                                                *)

\* A run that began alone and is still told so is the only one at work.
AloneIsOnly ==
    \A r, q \in Runs : alone[r] /\ r \in Active /\ q \in Active => q = r

\* A run at work that has been alone since it read the database itself.
Retrying(r) == alone[r] /\ ~fromCache[r] /\ stage[r] \in {"store", "pick"} \cup Mailing

\* Whom such a run did not find recorded has no row until the run writes it.
Fresh(r) ==
    /\ \A n \in due[r], m \in Members : m \notin known[r][n] => delivery[n][m] = "none"
    /\ stage[r] \in Mailing => current[r] \notin due[r]
    /\ stage[r] = "recipients" =>
          \A m \in Members : m \notin known[r][current[r]] => delivery[current[r]][m] = "none"
    /\ stage[r] \in {"send", "recordSent", "recordFailed", "markSent"} =>
          \A m \in todo[r] : delivery[current[r]][m] = "none"
    /\ stage[r] \in {"recordSent", "recordFailed"} => target[r] \notin todo[r]
RetriesFresh == \A r \in Runs : Retrying(r) => Fresh(r)

\* Only the clock starts a run, and a run that starts is alone or makes the others
\* not alone.
LEMMA StepAlone ==
    ASSUME TypeOK, AloneIsOnly, [Next]_vars
    PROVE  AloneIsOnly'
<1> USE DEF TypeOK, AloneIsOnly, Active, Listing, Mailing, Goto, database, control, history
<1>1. CASE UNCHANGED vars
  BY <1>1 DEF vars
<1>2. CASE Tick
  <2>1. clock + 1 \in Runs  BY <1>2, TimeAssumption DEF Tick, Runs
  <2>2. \A r \in Runs : r # clock + 1 => stage'[r] = stage[r] /\ (alone'[r] <=> alone[r] /\ r \notin Active)
    BY <1>2, <2>1 DEF Tick
  <2>3. alone'[clock + 1] <=> Active = {}  BY <1>2, <2>1 DEF Tick
  <2>4. QED  BY <2>1, <2>2, <2>3
<1>3. CASE Crash
  BY <1>3 DEF Crash, Stopped
<1>4. ASSUME NEW r \in Runs, LookupHits(r) PROVE AloneIsOnly'
  BY <1>4 DEF LookupHits
<1>5. ASSUME NEW r \in Runs, LookupMisses(r) PROVE AloneIsOnly'
  BY <1>5 DEF LookupMisses
<1>6. ASSUME NEW r \in Runs, Query(r) PROVE AloneIsOnly'
  BY <1>6 DEF Query, Recorded
<1>7. ASSUME NEW r \in Runs, QueryFails(r) PROVE AloneIsOnly'
  BY <1>7 DEF QueryFails
<1>8. ASSUME NEW r \in Runs, Store(r) PROVE AloneIsOnly'
  BY <1>8 DEF Store, NextNewsletter
<1>9. ASSUME NEW r \in Runs, Pick(r) PROVE AloneIsOnly'
  <2>1. alone' = alone /\ r \in Active  BY <1>9 DEF Pick
  <2>2. \A q \in Runs : q # r => stage'[q] = stage[q]  BY <1>9 DEF Pick
  <2>3. Active' \subseteq Active  BY <2>1, <2>2
  <2>4. QED  BY ONLY <2>1, <2>3, AloneIsOnly DEF AloneIsOnly
<1>10. ASSUME NEW r \in Runs, FindRecipients(r) PROVE AloneIsOnly'
  BY <1>10 DEF FindRecipients, NextRecipient
<1>11. ASSUME NEW r \in Runs, Send(r) PROVE AloneIsOnly'
  BY <1>11 DEF Send, AfterMail
<1>12. ASSUME NEW r \in Runs, RecordSent(r) PROVE AloneIsOnly'
  <2>1. alone' = alone /\ r \in Active  BY <1>12 DEF RecordSent
  <2>2. \A q \in Runs : q # r => stage'[q] = stage[q]  BY <1>12 DEF RecordSent
  <2>3. Active' \subseteq Active  BY <2>1, <2>2
  <2>4. QED  BY ONLY <2>1, <2>3, AloneIsOnly DEF AloneIsOnly
<1>13. ASSUME NEW r \in Runs, RecordFailed(r) PROVE AloneIsOnly'
  <2>1. alone' = alone /\ r \in Active  BY <1>13 DEF RecordFailed
  <2>2. \A q \in Runs : q # r => stage'[q] = stage[q]  BY <1>13 DEF RecordFailed
  <2>3. Active' \subseteq Active  BY <2>1, <2>2
  <2>4. QED  BY ONLY <2>1, <2>3, AloneIsOnly DEF AloneIsOnly
<1>14. ASSUME NEW r \in Runs, MarkSent(r) PROVE AloneIsOnly'
  BY <1>14 DEF MarkSent, NextNewsletter
<1>15. ASSUME NEW r \in Runs, UpdateFails(r) PROVE AloneIsOnly'
  BY <1>15 DEF UpdateFails
<1>16. ASSUME NEW r \in Runs, MarkFailed(r) PROVE AloneIsOnly'
  BY <1>16 DEF MarkFailed, StatusFailed, NextNewsletter
<1>17. ASSUME NEW n \in Newsletters, Create(n) PROVE AloneIsOnly'
  BY <1>17 DEF Create
<1>18. ASSUME NEW m \in Members, Subscribe(m) PROVE AloneIsOnly'
  BY <1>18 DEF Subscribe
<1>19. ASSUME NEW m \in Members, Unsubscribe(m) PROVE AloneIsOnly'
  BY <1>19 DEF Unsubscribe
<1>20. QED
  BY <1>1, <1>2, <1>3, <1>4, <1>5, <1>6, <1>7, <1>8, <1>9,
     <1>10, <1>11, <1>12, <1>13, <1>14, <1>15, <1>16, <1>17, <1>18, <1>19
  DEF Next, Step

\* While a run is retrying no other run takes a step.
LEMMA OnlyItSteps ==
    ASSUME TypeOK, AloneIsOnly, NEW r \in Runs, Step(r), NEW q \in Runs, Retrying(q)'
    PROVE  r = q /\ alone[q]
<1>1. r \in Active
  BY DEF Step, Active, Listing, Mailing, LookupHits, LookupMisses, Query, QueryFails, Store, Pick,
         FindRecipients, Send, RecordSent, RecordFailed, MarkSent, UpdateFails, MarkFailed
<1>2. alone' = alone
  BY DEF Step, history, LookupHits, LookupMisses, Query, QueryFails, Store, Pick,
         FindRecipients, Send, RecordSent, RecordFailed, MarkSent, UpdateFails, MarkFailed
<1>3. q # r => stage'[q] = stage[q]
  BY DEF Step, TypeOK, Goto, LookupHits, LookupMisses, Query, QueryFails, Store, Pick,
         FindRecipients, Send, RecordSent, RecordFailed, MarkSent, UpdateFails, MarkFailed
<1>4. alone[q]  BY <1>2 DEF Retrying
<1>5. q # r => q \in Active  BY <1>3 DEF Retrying, Active, Listing
<1>6. QED  BY <1>1, <1>4, <1>5 DEF AloneIsOnly

LEMMA StepFresh ==
    ASSUME TypeOK, Placed, AloneIsOnly, RetriesFresh, [Next]_vars
    PROVE  RetriesFresh'
<1> SUFFICES ASSUME NEW q \in Runs, Retrying(q)' PROVE Fresh(q)'
  BY DEF RetriesFresh
<1>0. Retrying(q) => Fresh(q)  BY DEF RetriesFresh
<1> USE DEF TypeOK, Known, Retrying, Fresh, Mailing, Goto, database, control, history
<1>1. CASE UNCHANGED vars
  BY <1>0, <1>1 DEF vars
<1>2. CASE Tick
  BY <1>2 DEF Tick, Active, Listing
<1>3. CASE Crash
  BY <1>3 DEF Crash, Active, Listing
<1>4. ASSUME NEW r \in Runs, LookupHits(r) PROVE Fresh(q)'
  <2>1. r = q /\ alone[q]  BY <1>4, OnlyItSteps DEF Step
  <2>2. QED  BY <1>0, <1>4, <2>1 DEF LookupHits
<1>5. ASSUME NEW r \in Runs, LookupMisses(r) PROVE Fresh(q)'
  <2>1. r = q /\ alone[q]  BY <1>5, OnlyItSteps DEF Step
  <2>2. QED  BY <1>0, <1>5, <2>1 DEF LookupMisses
<1>6. ASSUME NEW r \in Runs, Query(r) PROVE Fresh(q)'
  <2>1. r = q /\ alone[q]  BY <1>6, OnlyItSteps DEF Step
  <2>2. QED  BY <1>0, <1>6, <2>1 DEF Query, Recorded
<1>7. ASSUME NEW r \in Runs, QueryFails(r) PROVE Fresh(q)'
  <2>1. r = q /\ alone[q]  BY <1>7, OnlyItSteps DEF Step
  <2>2. QED  BY <1>0, <1>7, <2>1 DEF QueryFails
<1>8. ASSUME NEW r \in Runs, Store(r) PROVE Fresh(q)'
  <2>1. r = q /\ alone[q]  BY <1>8, OnlyItSteps DEF Step
  <2>2. QED  BY <1>0, <1>8, <2>1 DEF Store, NextNewsletter
<1>9. ASSUME NEW r \in Runs, Pick(r) PROVE Fresh(q)'
  <2>1. r = q /\ alone[q]  BY <1>9, OnlyItSteps DEF Step
  <2>2. QED  BY <1>0, <1>9, <2>1 DEF Pick
<1>10. ASSUME NEW r \in Runs, FindRecipients(r) PROVE Fresh(q)'
  <2>1. r = q /\ alone[q]  BY <1>10, OnlyItSteps DEF Step
  <2>2. QED  BY <1>0, <1>10, <2>1 DEF FindRecipients, NextRecipient
<1>11. ASSUME NEW r \in Runs, Send(r) PROVE Fresh(q)'
  <2>1. r = q /\ alone[q]  BY <1>11, OnlyItSteps DEF Step
  <2>2. QED  BY <1>0, <1>11, <2>1 DEF Send, AfterMail
<1>12. ASSUME NEW r \in Runs, RecordSent(r) PROVE Fresh(q)'
  <2>1. r = q /\ alone[q]  BY <1>12, OnlyItSteps DEF Step
  <2>2. /\ due' = due /\ known' = known /\ current' = current /\ todo' = todo
        /\ target' = target /\ fromCache' = fromCache /\ stage[q] = "recordSent"
    BY <1>12, <2>1 DEF RecordSent
  <2>3. stage'[q] \in {"recordFailed", "markFailed", "send", "markSent"}
    BY <1>12, <2>1 DEF RecordSent, NextRecipient
  <2>4. Fresh(q) /\ current[q] \in Newsletters  BY <1>0, <2>1, <2>2 DEF Placed
  <2>5. \A x \in Newsletters, y \in Members :
          x # current[q] \/ y # target[q] => delivery'[x][y] = delivery[x][y]
    BY <1>12, <2>1, RowOfRun
  <2>6. \A x \in due[q], y \in Members :
          /\ x \in Newsletters /\ x # current[q]
          /\ y \notin known[q][x] => delivery[x][y] = "none"
    BY <2>2, <2>4
  <2>b. \A x \in due[q], y \in Members : y \notin known[q][x] => delivery'[x][y] = "none"
    BY ONLY <2>5, <2>6
  <2>7. \A y \in todo[q] : y \in Members /\ y # target[q] /\ delivery[current[q]][y] = "none"
    BY <2>2, <2>4
  <2>a. \A y \in todo[q] : delivery'[current[q]][y] = "none"
    BY ONLY <2>4, <2>5, <2>7
  <2>8. QED  BY <2>2, <2>3, <2>4, <2>a, <2>b
<1>13. ASSUME NEW r \in Runs, RecordFailed(r) PROVE Fresh(q)'
  <2>1. r = q /\ alone[q]  BY <1>13, OnlyItSteps DEF Step
  <2>2. /\ due' = due /\ known' = known /\ current' = current /\ todo' = todo
        /\ target' = target /\ fromCache' = fromCache /\ stage[q] = "recordFailed"
    BY <1>13, <2>1 DEF RecordFailed
  <2>3. stage'[q] \in {"recordFailed", "markFailed", "send", "markSent"}
    BY <1>13, <2>1 DEF RecordFailed, NextRecipient
  <2>4. Fresh(q) /\ current[q] \in Newsletters  BY <1>0, <2>1, <2>2 DEF Placed
  <2>5. \A x \in Newsletters, y \in Members :
          x # current[q] \/ y # target[q] => delivery'[x][y] = delivery[x][y]
    BY <1>13, <2>1, RowOfRun
  <2>6. \A x \in due[q], y \in Members :
          /\ x \in Newsletters /\ x # current[q]
          /\ y \notin known[q][x] => delivery[x][y] = "none"
    BY <2>2, <2>4
  <2>b. \A x \in due[q], y \in Members : y \notin known[q][x] => delivery'[x][y] = "none"
    BY ONLY <2>5, <2>6
  <2>7. \A y \in todo[q] : y \in Members /\ y # target[q] /\ delivery[current[q]][y] = "none"
    BY <2>2, <2>4
  <2>a. \A y \in todo[q] : delivery'[current[q]][y] = "none"
    BY ONLY <2>4, <2>5, <2>7
  <2>8. QED  BY <2>2, <2>3, <2>4, <2>a, <2>b
<1>14. ASSUME NEW r \in Runs, MarkSent(r) PROVE Fresh(q)'
  <2>1. r = q /\ alone[q]  BY <1>14, OnlyItSteps DEF Step
  <2>2. QED  BY <1>0, <1>14, <2>1 DEF MarkSent, NextNewsletter
<1>15. ASSUME NEW r \in Runs, UpdateFails(r) PROVE Fresh(q)'
  <2>1. r = q /\ alone[q]  BY <1>15, OnlyItSteps DEF Step
  <2>2. QED  BY <1>0, <1>15, <2>1 DEF UpdateFails
<1>16. ASSUME NEW r \in Runs, MarkFailed(r) PROVE Fresh(q)'
  <2>1. r = q /\ alone[q]  BY <1>16, OnlyItSteps DEF Step
  <2>2. QED  BY <1>0, <1>16, <2>1 DEF MarkFailed, StatusFailed, NextNewsletter
<1>17. ASSUME NEW n \in Newsletters, Create(n) PROVE Fresh(q)'
  BY <1>0, <1>17 DEF Create
<1>18. ASSUME NEW m \in Members, Subscribe(m) PROVE Fresh(q)'
  BY <1>0, <1>18 DEF Subscribe
<1>19. ASSUME NEW m \in Members, Unsubscribe(m) PROVE Fresh(q)'
  BY <1>0, <1>19 DEF Unsubscribe
<1>20. QED
  BY <1>1, <1>2, <1>3, <1>4, <1>5, <1>6, <1>7, <1>8, <1>9,
     <1>10, <1>11, <1>12, <1>13, <1>14, <1>15, <1>16, <1>17, <1>18, <1>19
  DEF Next, Step

\* A retry that is alone and reads the database mails nobody who has a row
\* (RetrySkipsRecorded).
THEOREM RetriesSkipRecorded == Spec => []RetrySkipsRecorded
<1> DEFINE Inv == TypeOK /\ Placed /\ AloneIsOnly /\ RetriesFresh
<1>1. Init => Inv
  BY InitTyped DEF Init, AloneIsOnly, RetriesFresh, Retrying, Mailing
<1>2. Inv /\ [Next]_vars => Inv'  BY StepTyped, StepAlone, StepFresh
<1>3. Inv => RetrySkipsRecorded
  BY DEF RetriesFresh, Retrying, Fresh, RetrySkipsRecorded, Mailing
<1>4. QED  BY <1>1, <1>2, <1>3, PTL DEF Spec

-----------------------------------------------------------------------------
(* Runs come nearer to their end.                                          *)

\* Where a run stands: before it has its list, within a newsletter, within the
\* recording of a delivery.  Numbers fall on the way to the end.
Outer(s) == CASE s = "lookup" -> 3 [] s = "query" -> 2 [] s = "store" -> 1 [] OTHER -> 0
Inner(s) ==
    CASE s = "recipients" -> 4
      [] s \in {"send", "recordSent", "recordFailed"} -> 3
      [] s = "markSent" -> 2
      [] s = "markFailed" -> 1
      [] OTHER -> 0
Letter(s) == CASE s = "recordSent" -> 2 [] s = "recordFailed" -> 1 [] OTHER -> 0

Fewer(new, old) == new \subseteq old /\ new # old

\* Lexicographic: the first of these that changes becomes less.
Nearer(r) ==
    LET s == stage[r]
        t == stage'[r]
    IN  \/ t \in {"done"} \cup Stopped
        \/ Outer(t) < Outer(s)
        \/ Outer(t) = Outer(s) /\ Fewer(due'[r], due[r])
        \/ /\ Outer(t) = Outer(s) /\ due'[r] = due[r]
           /\ \/ Inner(t) < Inner(s)
              \/ Inner(t) = Inner(s) /\ Fewer(todo'[r], todo[r])
              \/ Inner(t) = Inner(s) /\ todo'[r] = todo[r] /\ Letter(t) < Letter(s)

StoodStill(r) == stage'[r] = stage[r] /\ due'[r] = due[r] /\ todo'[r] = todo[r]

\* A run is at a loop only with something left to take from it.
WorkLeft ==
    \A r \in Runs :
        /\ stage[r] = "pick" => due[r] # {}
        /\ stage[r] = "send" => todo[r] # {}

LEMMA StepNearer ==
    ASSUME TypeOK, NEW r \in Runs, Step(r)
    PROVE  Nearer(r)
<1> USE DEF TypeOK, Goto, Outer, Inner, Letter, Fewer, Stopped
<1>1. CASE LookupHits(r)  BY <1>1 DEF LookupHits, Nearer
<1>2. CASE LookupMisses(r)  BY <1>2 DEF LookupMisses, Nearer
<1>3. CASE Query(r)  BY <1>3 DEF Query, Nearer
<1>4. CASE QueryFails(r)  BY <1>4 DEF QueryFails, Nearer
<1>5. CASE Store(r)  BY <1>5 DEF Store, NextNewsletter, Nearer
<1>6. CASE Pick(r)
  <2>1. PICK n \in due[r] : due' = [due EXCEPT ![r] = @ \ {n}]  BY <1>6 DEF Pick
  <2>2. Fewer(due'[r], due[r])  BY <2>1
  <2>3. stage[r] = "pick" /\ stage'[r] \in {"recipients", "markFailed"}  BY <1>6 DEF Pick
  <2>4. Outer(stage'[r]) = Outer(stage[r])  BY <2>3
  <2>5. QED  BY <2>2, <2>4 DEF Nearer
<1>7. CASE FindRecipients(r)  BY <1>7 DEF FindRecipients, NextRecipient, Nearer
<1>8. CASE Send(r)
  <2>1. PICK m \in todo[r] : todo' = [todo EXCEPT ![r] = @ \ {m}]  BY <1>8 DEF Send
  <2>2. Fewer(todo'[r], todo[r])  BY <2>1
  <2>3. stage[r] = "send" /\ stage'[r] \in {"recordSent", "recordFailed"} /\ due' = due
    BY <1>8 DEF Send, AfterMail
  <2>4. Outer(stage'[r]) = Outer(stage[r]) /\ Inner(stage'[r]) = Inner(stage[r])  BY <2>3
  <2>5. QED  BY <2>2, <2>3, <2>4 DEF Nearer
<1>9. CASE RecordSent(r)  BY <1>9 DEF RecordSent, NextRecipient, Nearer
<1>10. CASE RecordFailed(r)  BY <1>10 DEF RecordFailed, NextRecipient, Nearer
<1>11. CASE MarkSent(r)  BY <1>11 DEF MarkSent, NextNewsletter, Nearer
<1>12. CASE UpdateFails(r)  BY <1>12 DEF UpdateFails, Nearer
<1>13. CASE MarkFailed(r)  BY <1>13 DEF MarkFailed, NextNewsletter, Nearer
<1>14. QED
  BY <1>1, <1>2, <1>3, <1>4, <1>5, <1>6, <1>7, <1>8, <1>9, <1>10, <1>11, <1>12, <1>13 DEF Step

\* What is not a step of a run leaves it where it is, starts it, or cuts it off.
LEMMA OthersStandStill ==
    ASSUME TypeOK, Placed, [Next]_vars, NEW r \in Runs, ~Step(r)
    PROVE  \/ StoodStill(r)
           \/ stage[r] = "off" /\ stage'[r] = "lookup"
           \/ r \in Active /\ stage'[r] = "dead"
<1> USE DEF TypeOK, StoodStill, control, Goto
<1>1. CASE UNCHANGED vars  BY <1>1 DEF vars
<1>2. CASE Tick
  <2>1. r = clock + 1 => stage[r] = "off" /\ stage'[r] = "lookup"
    BY <1>2 DEF Tick, Placed
  <2>2. r # clock + 1 => StoodStill(r)  BY <1>2 DEF Tick
  <2>3. QED  BY <2>1, <2>2
<1>3. CASE Crash  BY <1>3 DEF Crash
<1>4. ASSUME NEW q \in Runs, Step(q) PROVE StoodStill(r)
  <2>1. q # r  BY <1>4
  <2>2. stage'[r] = stage[r]
    BY <1>4, <2>1
    DEF Step, LookupHits, LookupMisses, Query, QueryFails, Store, Pick, FindRecipients, Send,
        RecordSent, RecordFailed, MarkSent, UpdateFails, MarkFailed
  <2>3. due'[r] = due[r]
    BY <1>4, <2>1
    DEF Step, LookupHits, LookupMisses, Query, QueryFails, Store, Pick, FindRecipients, Send,
        RecordSent, RecordFailed, MarkSent, UpdateFails, MarkFailed
  <2>4. todo'[r] = todo[r]
    BY <1>4, <2>1
    DEF Step, LookupHits, LookupMisses, Query, QueryFails, Store, Pick, FindRecipients, Send,
        RecordSent, RecordFailed, MarkSent, UpdateFails, MarkFailed
  <2>5. QED  BY <2>2, <2>3, <2>4
<1>5. CASE \E n \in Newsletters : Create(n)  BY <1>5 DEF Create
<1>6. CASE \E m \in Members : Subscribe(m) \/ Unsubscribe(m)
  BY <1>6 DEF Subscribe, Unsubscribe
<1>7. QED  BY <1>1, <1>2, <1>3, <1>4, <1>5, <1>6 DEF Next

LEMMA StepWorkLeft ==
    ASSUME TypeOK, Placed, WorkLeft, [Next]_vars
    PROVE  WorkLeft'
<1> SUFFICES ASSUME NEW r \in Runs
             PROVE  /\ stage'[r] = "pick" => due'[r] # {}
                    /\ stage'[r] = "send" => todo'[r] # {}
  BY DEF WorkLeft
<1>1. CASE Step(r)
  BY <1>1
  DEF TypeOK, WorkLeft, Goto, Step, LookupHits, LookupMisses, Query, QueryFails, Store, Pick,
      FindRecipients, Send, RecordSent, RecordFailed, MarkSent, UpdateFails, MarkFailed,
      NextNewsletter, NextRecipient, AfterMail
<1>2. CASE ~Step(r)
  BY <1>2, OthersStandStill DEF WorkLeft, StoodStill
<1>3. QED  BY <1>1, <1>2

\* A run that works is never at a loop with nothing left to take (sendScheduledNewsletters,
\* newsletter.service.ts:59-215): together with what a call that rejects does, it
\* always has a next step.
THEOREM WorkIsLeft == Spec => []WorkLeft
<1>1. Init => WorkLeft  BY DEF Init, WorkLeft
<1>2. TypeOK /\ Placed /\ WorkLeft /\ [Next]_vars => (TypeOK /\ Placed /\ WorkLeft)'
  BY StepTyped, StepWorkLeft
<1>3. QED  BY <1>1, <1>2, InitTyped, PTL DEF Spec

\* Every step of a run brings it nearer to its end, whatever rejects, nothing that other
\* runs or the operators do takes it back, and a run that has ended stays so
\* (newsletter.service.ts:59-215).  The order has no infinite descent over finite
\* sets, so that a run makes finitely many steps, however many it has to mail.
THEOREM RunsDescend ==
    Spec => [][\A r \in Runs :
                  /\ Step(r) => Nearer(r)
                  /\ r \in Active => StoodStill(r) \/ Nearer(r)
                  /\ stage[r] \in {"done"} \cup Stopped => stage'[r] = stage[r]]_vars
<1> DEFINE Descends(r) ==
        /\ Step(r) => Nearer(r)
        /\ r \in Active => StoodStill(r) \/ Nearer(r)
        /\ stage[r] \in {"done"} \cup Stopped => stage'[r] = stage[r]
<1>1. ASSUME TypeOK, Placed, [Next]_vars, NEW r \in Runs PROVE Descends(r)
  <2>1. CASE Step(r)
    <3>1. r \in Active
      BY <2>1
      DEF Step, Active, Listing, Mailing, LookupHits, LookupMisses, Query, QueryFails, Store,
          Pick, FindRecipients, Send, RecordSent, RecordFailed, MarkSent, UpdateFails, MarkFailed
    <3>2. Nearer(r)  BY <1>1, <2>1, StepNearer
    <3>3. QED  BY <3>1, <3>2 DEF Active, Listing, Mailing, Stopped
  <2>2. CASE ~Step(r)
    <3>1. stage[r] = "off" => r \notin Active  BY DEF Active, Listing, Mailing
    <3>2. stage'[r] = "dead" => Nearer(r)  BY DEF Nearer, Stopped
    <3>3. stage[r] \in {"done"} \cup Stopped => r \notin Active /\ stage[r] # "off"
      BY DEF Active, Listing, Mailing, Stopped
    <3>4. QED  BY <1>1, <2>2, <3>1, <3>2, <3>3, OthersStandStill DEF StoodStill
  <2>3. QED  BY <2>1, <2>2
<1>2. TypeOK /\ Placed /\ [Next]_vars => [\A r \in Runs : Descends(r)]_vars  BY <1>1
<1>3. TypeOK /\ Placed /\ [Next]_vars => (TypeOK /\ Placed)'  BY StepTyped
<1>4. QED  BY <1>2, <1>3, InitTyped, PTL DEF Spec
=============================================================================
