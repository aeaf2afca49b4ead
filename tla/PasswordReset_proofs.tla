------------------------- MODULE PasswordReset_proofs -------------------------
(***************************************************************************)
(* Links, for any number of members, requests and seconds.  The invariant  *)
(* says where every link comes from, and what a request that is at work    *)
(* knows of the requests that were done before it began: the link it read  *)
(* is theirs or a later one, so that the one it signs is younger by Spam.  *)
(***************************************************************************)
EXTENDS PasswordReset, TLAPS

\* The link of such a request was written to the row, or is about to be.
Kept == {"saved", "mailed", "unmailed"}
Pending == {"found", "signing", "signed"}

\* What a request has signed.
LinksOwn ==
    \A a \in Asks :
        /\ link[a] # NoLink =>
              /\ link[a] \in Links /\ link[a].email = email[a] /\ link[a].iat <= now
              /\ phase[a] \in Kept \cup {"signed", "failed", "dropped"}
        /\ phase[a] \in Kept \cup {"signed"} => link[a] # NoLink
        /\ phase[a] \in Pending \cup Kept => email[a] \in Members

\* A link somebody wrote.
Written(l, m) ==
    \E a \in Asks : email[a] = m /\ link[a] = l /\ phase[a] \in Kept \cup {"dropped"}
LinksWritten ==
    /\ \A m \in Members : stored[m] # NoLink => Written(stored[m], m)
    /\ \A a \in Asks : phase[a] = "found" /\ read[a] # NoLink => Written(read[a], email[a])
    /\ \A a \in Asks : phase[a] \in Kept => stored[email[a]] # NoLink

\* A link that was mailed, or is being used, is of a request that wrote it.
Mailed(l) ==
    /\ l \in Links /\ l.email \in Members /\ stored[l.email] # NoLink
LinksMailed ==
    /\ \A l \in inbox : Mailed(l)
    /\ \A r \in Resets : phase[r] \in {"verified", "checked", "refused"} => Mailed(link[r])

Rivals ==
    /\ \A r, q \in Requests : Together(r, q) => Together(q, r)
    /\ \A r, q \in Running : r # q => Together(r, q)

\* What the request of b knows of a request a of the same member that was done
\* before: a link it read is that of a, or younger by Spam.
Follows(l, a) == l # NoLink /\ (l = link[a] \/ l.iat >= link[a].iat + Spam)
Knows(b, a) ==
    /\ phase[b] = "found" => Follows(read[b], a)
    /\ phase[b] = "signing" => now >= link[a].iat + Spam
    /\ phase[b] = "signed" => link[b].iat >= link[a].iat + Spam
RequestsKnow ==
    \A a, b \in Asks :
        phase[a] \in Kept /\ phase[b] \in Pending /\ email[a] = email[b] /\ ~Together(a, b) =>
            /\ ~HadRival(a) => Knows(b, a)
            /\ phase[b] = "signed" => link[b].iat >= link[a].iat

KeptLasts ==
    \A a \in Asks : phase[a] \in Kept /\ ~HadRival(a) => Follows(stored[email[a]], a)
KeptSpaced ==
    \A a, b \in Asks :
        /\ phase[a] \in Kept /\ phase[b] \in Kept /\ a # b
        /\ email[a] = email[b] /\ link[a].iat <= link[b].iat
        => \/ link[b].iat >= link[a].iat + Spam
           \/ HadRival(a)
           \/ link[a] = link[b] /\ HadRival(b)

-----------------------------------------------------------------------------
(* Types, and where links come from.                                       *)

LEMMA StepTyped ==
    ASSUME TypeOK, LinksOwn, LinksMailed, [Next]_vars
    PROVE  TypeOK'
<1> USE MembersAssumption, RequestsAssumption, TimeAssumption
    DEF TypeOK, Requests, Running, InFlight, Ended, Goto, Begin, Seconds
<1>1. CASE UNCHANGED vars
  BY <1>1 DEF vars
<1>2. ASSUME NEW a \in Asks, FindMember(a) PROVE TypeOK'
  BY <1>2 DEF FindMember
<1>3. ASSUME NEW a \in Asks, Verify(a) PROVE TypeOK'
  BY <1>3 DEF Verify
<1>4. ASSUME NEW a \in Asks, Sign(a) PROVE TypeOK'
  <2>1. FreshLink(a) \in Links  BY DEF FreshLink, Links
  <2>2. QED  BY <1>4, <2>1 DEF Sign
<1>5. ASSUME NEW a \in Asks, SaveLink(a) PROVE TypeOK'
  <2>1. link[a] \in Links /\ email[a] \in Members  BY <1>5 DEF SaveLink, LinksOwn, Pending
  <2>2. QED  BY <1>5, <2>1 DEF SaveLink, Replaced
<1>6. ASSUME NEW a \in Asks, AskFails(a) PROVE TypeOK'
  BY <1>6 DEF AskFails
<1>7. ASSUME NEW a \in Asks, SendMail(a) PROVE TypeOK'
  <2>1. link[a] \in Links  BY <1>7 DEF SendMail, LinksOwn, Kept
  <2>2. QED  BY <1>7, <2>1 DEF SendMail
<1>8. ASSUME NEW a \in Asks, TemplateFails(a) PROVE TypeOK'
  BY <1>8 DEF TemplateFails
<1>9. ASSUME NEW r \in Resets, NEW l \in Links \cup {BadLink}, VerifyLink(r, l)
      PROVE  TypeOK'
  BY <1>9 DEF VerifyLink
<1>10. ASSUME NEW r \in Resets, CompareLink(r) PROVE TypeOK'
  BY <1>10 DEF CompareLink
<1>11. ASSUME NEW r \in Resets, ChangePassword(r) PROVE TypeOK'
  <2>1. link[r].email \in Members  BY <1>11 DEF ChangePassword, LinksMailed, Mailed
  <2>2. QED  BY <1>11, <2>1 DEF ChangePassword
<1>12. ASSUME NEW r \in Resets, ResetFails(r) PROVE TypeOK'
  BY <1>12 DEF ResetFails
<1>13. CASE Tick
  BY <1>13 DEF Tick
<1>14. CASE Crash
  BY <1>14 DEF Crash
<1>15. QED
  BY <1>1, <1>2, <1>3, <1>4, <1>5, <1>6, <1>7,
     <1>8, <1>9, <1>10, <1>11, <1>12, <1>13, <1>14 DEF Next, Ask, Reset

LEMMA StepOwn ==
    ASSUME TypeOK, LinksOwn, [Next]_vars
    PROVE  LinksOwn'
<1> USE MembersAssumption, RequestsAssumption, LinksAssumption, TimeAssumption
    DEF TypeOK, LinksOwn, Kept, Pending, Requests, Running, InFlight, Goto, Begin, Seconds
<1>1. CASE UNCHANGED vars
  BY <1>1 DEF vars
<1>2. ASSUME NEW a \in Asks, FindMember(a) PROVE LinksOwn'
  BY <1>2 DEF FindMember
<1>3. ASSUME NEW a \in Asks, Verify(a) PROVE LinksOwn'
  BY <1>3 DEF Verify
<1>4. ASSUME NEW a \in Asks, Sign(a) PROVE LinksOwn'
  BY <1>4 DEF Sign, FreshLink, Links
<1>5. ASSUME NEW a \in Asks, SaveLink(a) PROVE LinksOwn'
  BY <1>5 DEF SaveLink, Replaced
<1>6. ASSUME NEW a \in Asks, AskFails(a) PROVE LinksOwn'
  BY <1>6 DEF AskFails
<1>7. ASSUME NEW a \in Asks, SendMail(a) PROVE LinksOwn'
  BY <1>7 DEF SendMail
<1>8. ASSUME NEW a \in Asks, TemplateFails(a) PROVE LinksOwn'
  BY <1>8 DEF TemplateFails
<1>9. ASSUME NEW r \in Resets, NEW l \in Links \cup {BadLink}, VerifyLink(r, l)
      PROVE  LinksOwn'
  BY <1>9 DEF VerifyLink, Links
<1>10. ASSUME NEW r \in Resets, CompareLink(r) PROVE LinksOwn'
  BY <1>10 DEF CompareLink
<1>11. ASSUME NEW r \in Resets, ChangePassword(r) PROVE LinksOwn'
  BY <1>11 DEF ChangePassword
<1>12. ASSUME NEW r \in Resets, ResetFails(r) PROVE LinksOwn'
  BY <1>12 DEF ResetFails
<1>13. CASE Tick
  <2>1. \A a \in Asks : link[a] # NoLink => link[a].iat \in Int  BY DEF Links
  <2>2. QED  BY <1>13, <2>1 DEF Tick
<1>14. CASE Crash
  BY <1>14 DEF Crash
<1>15. QED
  BY <1>1, <1>2, <1>3, <1>4, <1>5, <1>6, <1>7,
     <1>8, <1>9, <1>10, <1>11, <1>12, <1>13, <1>14 DEF Next, Ask, Reset

\* A link that was written stays one.
LEMMA WrittenStays ==
    ASSUME TypeOK, LinksOwn, NEW l, NEW m, Written(l, m), [Next]_vars
    PROVE  Written(l, m)'
<1> SUFFICES ASSUME NEW a \in Asks, email[a] = m, link[a] = l, phase[a] \in Kept \cup {"dropped"}
             PROVE  email'[a] = m /\ link'[a] = l /\ phase'[a] \in Kept \cup {"dropped"}
  BY DEF Written
<1> QED
  BY RequestsAssumption
  DEF TypeOK, Next, Ask, Reset, vars, Kept, Requests, InFlight, Running, Goto, Begin, FindMember,
      Verify, Sign, SaveLink, AskFails, SendMail, TemplateFails, VerifyLink, CompareLink,
      ChangePassword, ResetFails, Tick, Crash

LEMMA StepWritten ==
    ASSUME TypeOK, LinksOwn, LinksWritten, [Next]_vars
    PROVE  LinksWritten'
<1> USE RequestsAssumption DEF TypeOK, LinksWritten, Requests, Running, InFlight, Kept, Goto, Begin
<1>0. \A l, m : Written(l, m) => Written(l, m)'  BY WrittenStays
<1>1. CASE UNCHANGED vars
  BY <1>0, <1>1 DEF vars
<1>2. ASSUME NEW a \in Asks, FindMember(a) PROVE LinksWritten'
  BY <1>0, <1>2 DEF FindMember
<1>3. ASSUME NEW a \in Asks, Verify(a) PROVE LinksWritten'
  BY <1>0, <1>3 DEF Verify
<1>4. ASSUME NEW a \in Asks, Sign(a) PROVE LinksWritten'
  BY <1>0, <1>4 DEF Sign
<1>5. ASSUME NEW a \in Asks, SaveLink(a) PROVE LinksWritten'
  <2>1. phase[a] = "signed" /\ link[a] \in Links /\ email[a] \in Members
    BY <1>0, <1>5 DEF SaveLink, LinksOwn, Pending
  <2>2. UNCHANGED <<email, read, link>> /\ stored' = [stored EXCEPT ![email[a]] = link[a]]
    BY <1>0, <1>5 DEF SaveLink, Replaced
  <2>3. phase' = [phase EXCEPT ![a] = "saved"]  BY <1>0, <1>5 DEF SaveLink
  <2>4. Written(link[a], email[a])'  BY <2>1, <2>2, <2>3 DEF Written
  <2>5. \A m \in Members : stored'[m] # NoLink => Written(stored[m], m)'
    BY <1>0, <1>0, <2>1, <2>2, <2>4
  <2>6. QED  BY <1>0, <1>0, <2>1, <2>2, <2>3, <2>5, LinksAssumption
<1>6. ASSUME NEW a \in Asks, AskFails(a) PROVE LinksWritten'
  BY <1>0, <1>6 DEF AskFails
<1>7. ASSUME NEW a \in Asks, SendMail(a) PROVE LinksWritten'
  BY <1>0, <1>7 DEF SendMail
<1>8. ASSUME NEW a \in Asks, TemplateFails(a) PROVE LinksWritten'
  BY <1>0, <1>8 DEF TemplateFails
<1>9. ASSUME NEW r \in Resets, NEW l \in Links \cup {BadLink}, VerifyLink(r, l)
      PROVE  LinksWritten'
  BY <1>0, <1>9 DEF VerifyLink
<1>10. ASSUME NEW r \in Resets, CompareLink(r) PROVE LinksWritten'
  BY <1>0, <1>10 DEF CompareLink
<1>11. ASSUME NEW r \in Resets, ChangePassword(r) PROVE LinksWritten'
  BY <1>0, <1>11 DEF ChangePassword
<1>12. ASSUME NEW r \in Resets, ResetFails(r) PROVE LinksWritten'
  BY <1>0, <1>12 DEF ResetFails
<1>13. CASE Tick
  BY <1>0, <1>13 DEF Tick
<1>14. CASE Crash
  BY <1>0, <1>14 DEF Crash
<1>15. QED
  BY <1>1, <1>2, <1>3, <1>4, <1>5, <1>6, <1>7,
     <1>8, <1>9, <1>10, <1>11, <1>12, <1>13, <1>14 DEF Next, Ask, Reset

LEMMA StepMailed ==
    ASSUME TypeOK, LinksOwn, LinksWritten, LinksMailed, [Next]_vars
    PROVE  LinksMailed'
<1> USE RequestsAssumption, LinksAssumption
    DEF TypeOK, LinksMailed, Requests, Running, InFlight, Kept, Goto, Begin
<1>0. \A l : Mailed(l) => Mailed(l)'
  BY DEF Mailed, LinksOwn, Pending, Next, Ask, Reset, vars, FindMember, Verify, Sign, SaveLink,
         Replaced, AskFails, SendMail, TemplateFails, VerifyLink, CompareLink, ChangePassword,
         ResetFails, Tick, Crash
<1>1. CASE UNCHANGED vars
  BY <1>0, <1>1 DEF vars
<1>2. ASSUME NEW a \in Asks, FindMember(a) PROVE LinksMailed'
  BY <1>0, <1>2 DEF FindMember
<1>3. ASSUME NEW a \in Asks, Verify(a) PROVE LinksMailed'
  BY <1>0, <1>3 DEF Verify
<1>4. ASSUME NEW a \in Asks, Sign(a) PROVE LinksMailed'
  BY <1>0, <1>4 DEF Sign
<1>5. ASSUME NEW a \in Asks, SaveLink(a) PROVE LinksMailed'
  BY <1>0, <1>5 DEF SaveLink
<1>6. ASSUME NEW a \in Asks, AskFails(a) PROVE LinksMailed'
  BY <1>0, <1>6 DEF AskFails
<1>7. ASSUME NEW a \in Asks, SendMail(a) PROVE LinksMailed'
  <2>1. Mailed(link[a])
    BY <1>0, <1>7 DEF SendMail, Mailed, LinksOwn, LinksWritten, Pending
  <2>2. QED  BY <1>0, <1>0, <1>7, <2>1 DEF SendMail
<1>8. ASSUME NEW a \in Asks, TemplateFails(a) PROVE LinksMailed'
  BY <1>0, <1>8 DEF TemplateFails
<1>9. ASSUME NEW r \in Resets, NEW l \in Links \cup {BadLink}, VerifyLink(r, l)
      PROVE  LinksMailed'
  BY <1>0, <1>9 DEF VerifyLink
<1>10. ASSUME NEW r \in Resets, CompareLink(r) PROVE LinksMailed'
  BY <1>0, <1>10 DEF CompareLink
<1>11. ASSUME NEW r \in Resets, ChangePassword(r) PROVE LinksMailed'
  BY <1>0, <1>11 DEF ChangePassword
<1>12. ASSUME NEW r \in Resets, ResetFails(r) PROVE LinksMailed'
  BY <1>0, <1>12 DEF ResetFails
<1>13. CASE Tick
  BY <1>0, <1>13 DEF Tick
<1>14. CASE Crash
  BY <1>0, <1>14 DEF Crash
<1>15. QED
  BY <1>1, <1>2, <1>3, <1>4, <1>5, <1>6, <1>7,
     <1>8, <1>9, <1>10, <1>11, <1>12, <1>13, <1>14 DEF Next, Ask, Reset

LEMMA StepRivals ==
    ASSUME TypeOK, Rivals, [Next]_vars
    PROVE  Rivals'
<1> USE RequestsAssumption DEF TypeOK, Rivals, Together, Requests, Running, InFlight, Goto, Begin
<1>1. CASE UNCHANGED vars
  BY <1>1 DEF vars
<1>2. ASSUME NEW a \in Asks, FindMember(a) PROVE Rivals'
  BY <1>2 DEF FindMember
<1>3. ASSUME NEW a \in Asks, Verify(a) PROVE Rivals'
  BY <1>3 DEF Verify
<1>4. ASSUME NEW a \in Asks, Sign(a) PROVE Rivals'
  BY <1>4 DEF Sign
<1>5. ASSUME NEW a \in Asks, SaveLink(a) PROVE Rivals'
  BY <1>5 DEF SaveLink
<1>6. ASSUME NEW a \in Asks, AskFails(a) PROVE Rivals'
  BY <1>6 DEF AskFails
<1>7. ASSUME NEW a \in Asks, SendMail(a) PROVE Rivals'
  BY <1>7 DEF SendMail
<1>8. ASSUME NEW a \in Asks, TemplateFails(a) PROVE Rivals'
  BY <1>8 DEF TemplateFails
<1>9. ASSUME NEW r \in Resets, NEW l \in Links \cup {BadLink}, VerifyLink(r, l)
      PROVE  Rivals'
  BY <1>9 DEF VerifyLink
<1>10. ASSUME NEW r \in Resets, CompareLink(r) PROVE Rivals'
  BY <1>10 DEF CompareLink
<1>11. ASSUME NEW r \in Resets, ChangePassword(r) PROVE Rivals'
  BY <1>11 DEF ChangePassword
<1>12. ASSUME NEW r \in Resets, ResetFails(r) PROVE Rivals'
  BY <1>12 DEF ResetFails
<1>13. CASE Tick
  BY <1>13 DEF Tick
<1>14. CASE Crash
  BY <1>14 DEF Crash
<1>15. QED
  BY <1>1, <1>2, <1>3, <1>4, <1>5, <1>6, <1>7,
     <1>8, <1>9, <1>10, <1>11, <1>12, <1>13, <1>14 DEF Next, Ask, Reset

-----------------------------------------------------------------------------
(* What a request knows of those before it.                                *)

LEMMA StepLasts ==
    ASSUME TypeOK, LinksOwn, Rivals, RequestsKnow, KeptLasts, [Next]_vars
    PROVE  KeptLasts'
<1> USE RequestsAssumption, LinksAssumption
    DEF TypeOK, KeptLasts, HadRival, Together, Follows,
        Requests, Running, InFlight, Kept, Goto, Begin
<1>1. CASE UNCHANGED vars
  BY <1>1 DEF vars
<1>2. ASSUME NEW a \in Asks, FindMember(a) PROVE KeptLasts'
  BY <1>2 DEF FindMember
<1>3. ASSUME NEW a \in Asks, Verify(a) PROVE KeptLasts'
  BY <1>3 DEF Verify
<1>4. ASSUME NEW a \in Asks, Sign(a) PROVE KeptLasts'
  BY <1>4 DEF Sign
<1>5. ASSUME NEW a \in Asks, SaveLink(a) PROVE KeptLasts'
  <2>1. link[a] \in Links /\ email[a] \in Members  BY <1>5 DEF SaveLink, LinksOwn, Pending
  <2>2. UNCHANGED <<email, link, overlaps>> /\ stored' = [stored EXCEPT ![email[a]] = link[a]]
    BY <1>5 DEF SaveLink, Replaced
  <2>3. phase[a] = "signed" /\ phase' = [phase EXCEPT ![a] = "saved"]  BY <1>5 DEF SaveLink
  <2>4. ASSUME NEW b \in Asks, phase[b] \in Kept, ~HadRival(b), b # a, email[b] = email[a]
        PROVE  Follows(link[a], b)
    BY <2>1, <2>3, <2>4 DEF RequestsKnow, Knows, Pending
  <2>5. ASSUME NEW b \in Asks, phase'[b] \in Kept, ~HadRival(b)', b # a
        PROVE  Follows(stored[email[b]], b)'
    BY <2>1, <2>2, <2>3, <2>4, <2>5 DEF LinksOwn, Pending
  <2>6. QED  BY <2>1, <2>2, <2>3, <2>5
<1>6. ASSUME NEW a \in Asks, AskFails(a) PROVE KeptLasts'
  BY <1>6 DEF AskFails
<1>7. ASSUME NEW a \in Asks, SendMail(a) PROVE KeptLasts'
  BY <1>7 DEF SendMail
<1>8. ASSUME NEW a \in Asks, TemplateFails(a) PROVE KeptLasts'
  BY <1>8 DEF TemplateFails
<1>9. ASSUME NEW r \in Resets, NEW l \in Links \cup {BadLink}, VerifyLink(r, l)
      PROVE  KeptLasts'
  BY <1>9 DEF VerifyLink
<1>10. ASSUME NEW r \in Resets, CompareLink(r) PROVE KeptLasts'
  BY <1>10 DEF CompareLink
<1>11. ASSUME NEW r \in Resets, ChangePassword(r) PROVE KeptLasts'
  BY <1>11 DEF ChangePassword
<1>12. ASSUME NEW r \in Resets, ResetFails(r) PROVE KeptLasts'
  BY <1>12 DEF ResetFails
<1>13. CASE Tick
  BY <1>13 DEF Tick
<1>14. CASE Crash
  BY <1>14 DEF Crash
<1>15. QED
  BY <1>1, <1>2, <1>3, <1>4, <1>5, <1>6, <1>7,
     <1>8, <1>9, <1>10, <1>11, <1>12, <1>13, <1>14 DEF Next, Ask, Reset

\* How a request comes to be kept, and to be pending.
LEMMA Moves ==
    ASSUME TypeOK, LinksOwn, [Next]_vars
    PROVE  /\ email' = email /\ overlaps \subseteq overlaps' /\ now' \in Nat /\ now <= now'
           /\ \A a \in Asks :
                 /\ link[a] # NoLink => link'[a] = link[a]
                 /\ phase'[a] \in Kept => SaveLink(a) \/ phase[a] \in Kept
                 /\ phase'[a] \in Pending =>
                       \/ FindMember(a) \/ Verify(a) \/ Sign(a)
                       \/ phase'[a] = phase[a] /\ read'[a] = read[a] /\ link'[a] = link[a]
<1> USE RequestsAssumption, TimeAssumption
    DEF TypeOK, Requests, Running, InFlight, Kept, Pending, Goto, Begin, Seconds
<1>1. email' = email /\ overlaps \subseteq overlaps' /\ now' \in Nat /\ now <= now'
  BY DEF Next, Ask, Reset, vars, FindMember, Verify, Sign, SaveLink, AskFails, SendMail,
         TemplateFails, VerifyLink, CompareLink, ChangePassword, ResetFails, Tick, Crash
<1>2. ASSUME NEW a \in Asks, link[a] # NoLink PROVE link'[a] = link[a]
  BY <1>2
  DEF LinksOwn, Next, Ask, Reset, vars, FindMember, Verify, Sign, SaveLink, AskFails, SendMail,
      TemplateFails, VerifyLink, CompareLink, ChangePassword, ResetFails, Tick, Crash
<1>3. ASSUME NEW a \in Asks, phase'[a] \in Kept PROVE SaveLink(a) \/ phase[a] \in Kept
  BY <1>3
  DEF Next, Ask, Reset, vars, FindMember, Verify, Sign, SaveLink, AskFails, SendMail,
      TemplateFails, VerifyLink, CompareLink, ChangePassword, ResetFails, Tick, Crash
<1>4. ASSUME NEW a \in Asks, phase'[a] \in Pending
      PROVE  \/ FindMember(a) \/ Verify(a) \/ Sign(a)
             \/ phase'[a] = phase[a] /\ read'[a] = read[a] /\ link'[a] = link[a]
  BY <1>4
  DEF Next, Ask, Reset, vars, FindMember, Verify, Sign, SaveLink, AskFails, SendMail,
      TemplateFails, VerifyLink, CompareLink, ChangePassword, ResetFails, Tick, Crash
<1>5. QED  BY <1>1, <1>2, <1>3, <1>4

\* The time of a link is a number.
LEMMA LinkTimes ==
    ASSUME TypeOK, LinksOwn
    PROVE  /\ now \in Nat /\ Spam \in Nat /\ Life \in Nat
           /\ \A a \in Asks : link[a] # NoLink => link[a].iat \in Nat /\ link[a].iat <= now
           /\ \A a \in Asks : read[a] # NoLink => read[a].iat \in Nat
           /\ \A m \in Members : stored[m] # NoLink => stored[m].iat \in Nat
BY TimeAssumption DEF TypeOK, LinksOwn, Links, Seconds

LEMMA StepKnow ==
    ASSUME TypeOK, LinksOwn, Rivals, RequestsKnow, KeptLasts, [Next]_vars
    PROVE  RequestsKnow'
<1> SUFFICES ASSUME NEW a \in Asks, NEW b \in Asks, phase'[a] \in Kept, phase'[b] \in Pending,
                    email'[a] = email'[b], ~Together(a, b)'
             PROVE  /\ ~HadRival(a)' => Knows(b, a)'
                    /\ phase'[b] = "signed" => link'[b].iat >= link'[a].iat
  BY DEF RequestsKnow
<1> USE RequestsAssumption DEF Requests
<1>1. email[a] = email[b] /\ ~Together(a, b) /\ a # b  BY Moves DEF Together, Kept, Pending
<1>2. ~HadRival(a)' => ~HadRival(a)  BY Moves DEF HadRival, Together
<1>3. phase[a] \in Kept
  <2>1. SUFFICES ASSUME SaveLink(a) PROVE FALSE  BY Moves
  <2>2. phase[b] \in Pending /\ phase[a] \in Pending
    BY <1>1, <2>1 DEF SaveLink, Goto, TypeOK, Pending
  <2>3. QED  BY <1>1, <2>2 DEF Rivals, Running, InFlight, Pending
<1>4. link[a] # NoLink /\ link'[a] = link[a]  BY <1>3, Moves DEF LinksOwn
<1>5. now \in Nat /\ link[a].iat \in Nat /\ link[a].iat <= now /\ Spam \in Nat /\ Life \in Nat
  BY <1>4, LinkTimes
<1>6. CASE FindMember(b)
  <2>1. phase'[b] = "found" /\ read'[b] = stored[email[b]] /\ UNCHANGED link
    BY <1>6 DEF FindMember, Goto, Begin, TypeOK, Pending
  <2>2. a \notin Running
    BY <1>6, <1>1 DEF FindMember, Begin, Together
  <2>3. ~HadRival(a) => Follows(stored[email[a]], a)  BY <1>3 DEF KeptLasts
  <2>4. QED  BY <2>1, <2>3, <1>1, <1>2, <1>4 DEF Knows, Follows
<1>7. CASE Verify(b)
  <2>1. phase[b] = "found" /\ phase'[b] = "signing" /\ ~Recent(read[b])
        /\ UNCHANGED <<now, link>>
    BY <1>7 DEF Verify, Goto, TypeOK, Pending
  <2>2. ~HadRival(a) => Follows(read[b], a)
    BY <1>1, <1>3, <2>1 DEF RequestsKnow, Knows, Pending
  <2>3. ~HadRival(a) => now >= link[a].iat + Spam
    BY <2>1, <2>2, <1>5, LinkTimes, TimeAssumption DEF Follows, Recent, Expired
  <2>4. QED  BY <2>1, <2>3, <1>2, <1>4 DEF Knows
<1>8. CASE Sign(b)
  <2>1. phase[b] = "signing" /\ phase'[b] = "signed" /\ link'[b] = FreshLink(b) /\ UNCHANGED now
    BY <1>8 DEF Sign, Goto, TypeOK
  <2>2. ~HadRival(a) => now >= link[a].iat + Spam
    BY <1>1, <1>3, <2>1 DEF RequestsKnow, Knows, Pending
  <2>3. QED  BY <2>1, <2>2, <1>2, <1>4, <1>5 DEF Knows, FreshLink
<1>9. CASE phase'[b] = phase[b] /\ read'[b] = read[b] /\ link'[b] = link[b]
  <2>1. /\ ~HadRival(a) => Knows(b, a)
        /\ phase[b] = "signed" => link[b].iat >= link[a].iat
    BY <1>1, <1>3, <1>9 DEF RequestsKnow
  <2>2. now' \in Nat /\ now <= now'  BY Moves
  <2>3. now >= link[a].iat + Spam => now' >= link[a].iat + Spam  BY <1>5, <2>2
  <2>4. QED  BY <2>1, <2>3, <1>2, <1>4, <1>9 DEF Knows, Follows
<1>10. QED  BY <1>6, <1>7, <1>8, <1>9, Moves

LEMMA StepSpaced ==
    ASSUME TypeOK, LinksOwn, Rivals, RequestsKnow, KeptSpaced, [Next]_vars
    PROVE  KeptSpaced'
<1> SUFFICES ASSUME NEW a \in Asks, NEW b \in Asks, phase'[a] \in Kept, phase'[b] \in Kept, a # b,
                    email'[a] = email'[b], link'[a].iat <= link'[b].iat
             PROVE  \/ link'[b].iat >= link'[a].iat + Spam
                    \/ HadRival(a)'
                    \/ link'[a] = link'[b] /\ HadRival(b)'
  BY DEF KeptSpaced
<1>1. \A c \in Asks : phase'[c] \in Kept => link[c] # NoLink
  BY Moves DEF SaveLink, LinksOwn
<1>2. link'[a] = link[a] /\ link'[b] = link[b] /\ email[a] = email[b]  BY <1>1, Moves
<1>3. link[a] \in Links /\ link[b] \in Links /\ link[a].email = link[b].email
  BY <1>1, <1>2 DEF LinksOwn
<1>4. link[a].iat \in Nat /\ link[b].iat \in Nat /\ Spam \in Nat  BY <1>1, LinkTimes
<1>5. \A c \in Asks : HadRival(c) => HadRival(c)'  BY Moves DEF HadRival, Together
<1>6. CASE phase[a] \in Kept /\ phase[b] \in Kept
  BY <1>2, <1>5, <1>6 DEF KeptSpaced
<1>7. CASE Together(a, b)
  BY <1>2, <1>5, <1>7 DEF HadRival
<1>8. CASE SaveLink(b) /\ ~Together(a, b)
  <2>1. phase[b] = "signed" /\ phase[a] \in Kept
    BY <1>8, Moves DEF SaveLink, Goto, TypeOK, Requests
  <2>2. ~HadRival(a) => link[b].iat >= link[a].iat + Spam
    BY <1>2, <1>8, <2>1 DEF RequestsKnow, Knows, Pending
  <2>3. QED  BY <1>2, <1>5, <2>2
<1>9. CASE SaveLink(a) /\ ~Together(a, b)
  <2>1. phase[a] = "signed" /\ phase[b] \in Kept /\ ~Together(b, a)
    BY <1>9, Moves DEF SaveLink, Goto, TypeOK, Rivals, Requests
  <2>2. /\ ~HadRival(b) => link[a].iat >= link[b].iat + Spam
        /\ link[a].iat >= link[b].iat
    BY <1>2, <2>1 DEF RequestsKnow, Knows, Pending
  <2>3. link[a].iat = link[b].iat  BY <1>2, <1>4, <2>2
  <2>4. link[a] = link[b]  BY <1>3, <2>3 DEF Links
  <2>5. CASE HadRival(b)  BY <1>2, <1>5, <2>4, <2>5
  <2>6. CASE ~HadRival(b)  BY <1>2, <1>4, <2>2, <2>3, <2>6
  <2>7. QED  BY <2>5, <2>6
<1>10. QED  BY <1>6, <1>7, <1>8, <1>9, Moves

-----------------------------------------------------------------------------
(* Resets.                                                                 *)

LEMMA StepCurrent ==
    ASSUME TypeOK, LinksMailed, Rivals, ResetByCurrentLink, [Next]_vars
    PROVE  ResetByCurrentLink'
<1> USE RequestsAssumption
    DEF TypeOK, LinksMailed, Mailed, Rivals, ResetByCurrentLink, Together,
        Requests, Running, InFlight, Goto, Begin
<1>1. CASE UNCHANGED vars
  BY <1>1 DEF vars
<1>2. ASSUME NEW a \in Asks, FindMember(a) PROVE ResetByCurrentLink'
  BY <1>2 DEF FindMember
<1>3. ASSUME NEW a \in Asks, Verify(a) PROVE ResetByCurrentLink'
  BY <1>3 DEF Verify
<1>4. ASSUME NEW a \in Asks, Sign(a) PROVE ResetByCurrentLink'
  BY <1>4 DEF Sign
<1>5. ASSUME NEW a \in Asks, SaveLink(a) PROVE ResetByCurrentLink'
  BY <1>5 DEF SaveLink, Replaced
<1>6. ASSUME NEW a \in Asks, AskFails(a) PROVE ResetByCurrentLink'
  BY <1>6 DEF AskFails
<1>7. ASSUME NEW a \in Asks, SendMail(a) PROVE ResetByCurrentLink'
  BY <1>7 DEF SendMail
<1>8. ASSUME NEW a \in Asks, TemplateFails(a) PROVE ResetByCurrentLink'
  BY <1>8 DEF TemplateFails
<1>9. ASSUME NEW r \in Resets, NEW l \in Links \cup {BadLink}, VerifyLink(r, l)
      PROVE  ResetByCurrentLink'
  BY <1>9 DEF VerifyLink
<1>10. ASSUME NEW r \in Resets, CompareLink(r) PROVE ResetByCurrentLink'
  BY <1>10 DEF CompareLink, Current
<1>11. ASSUME NEW r \in Resets, ChangePassword(r) PROVE ResetByCurrentLink'
  BY <1>11 DEF ChangePassword
<1>12. ASSUME NEW r \in Resets, ResetFails(r) PROVE ResetByCurrentLink'
  BY <1>12 DEF ResetFails
<1>13. CASE Tick
  BY <1>13 DEF Tick
<1>14. CASE Crash
  BY <1>14 DEF Crash
<1>15. QED
  BY <1>1, <1>2, <1>3, <1>4, <1>5, <1>6, <1>7,
     <1>8, <1>9, <1>10, <1>11, <1>12, <1>13, <1>14 DEF Next, Ask, Reset

LEMMA StepRefused ==
    ASSUME TypeOK, LinksOwn, LinksWritten, LinksMailed, RefusedWasReplaced, [Next]_vars
    PROVE  RefusedWasReplaced'
<1> USE RequestsAssumption, LinksAssumption DEF Requests
<1>1. SUFFICES ASSUME NEW r \in Resets, phase'[r] = "refused"
               PROVE  \E a \in Asks :
                         /\ email[a] = link[r].email /\ link[a] \notin {NoLink, link[r]}
                         /\ phase[a] \in Kept \cup {"dropped"}
                         /\ link'[r] = link[r]
  <2>1. ASSUME NEW a \in Asks, link[a] # NoLink, phase[a] \in Kept \cup {"dropped"}
        PROVE  email'[a] = email[a] /\ link'[a] = link[a] /\ phase'[a] \in Kept \cup {"dropped"}
    <3>1. Written(link[a], email[a])  BY <2>1 DEF Written
    <3>2. phase'[a] \in Kept \cup {"dropped"}
      BY <2>1
      DEF TypeOK, Next, Ask, Reset, vars, Kept, InFlight, Running, Goto, Begin, FindMember,
          Verify, Sign, SaveLink, AskFails, SendMail, TemplateFails, VerifyLink, CompareLink,
          ChangePassword, ResetFails, Tick, Crash
    <3>3. QED  BY <2>1, <3>2, Moves
  <2>2. QED  BY <1>1, <2>1 DEF RefusedWasReplaced, Kept
<1>2. CASE phase[r] = "refused"
  <2>1. link'[r] = link[r]
    BY <1>2
    DEF TypeOK, Next, Ask, Reset, vars, FindMember, Verify, Sign, SaveLink, AskFails, SendMail,
        TemplateFails, VerifyLink, CompareLink, ChangePassword, ResetFails, Tick, Crash, Begin
  <2>2. QED  BY <1>2, <2>1 DEF RefusedWasReplaced, Kept
<1>3. CASE CompareLink(r) /\ ~Current(r)
  <2>1. Mailed(link[r]) /\ UNCHANGED link  BY <1>3 DEF CompareLink, LinksMailed
  <2>2. stored[link[r].email] \notin {NoLink, link[r]}
    BY <1>3, <2>1 DEF Current, Mailed
  <2>3. Written(stored[link[r].email], link[r].email)
    BY <2>1, <2>2 DEF LinksWritten, Mailed
  <2>4. QED  BY <2>1, <2>2, <2>3 DEF Written
<1>4. phase[r] = "refused" \/ (CompareLink(r) /\ ~Current(r))
  BY <1>1
  DEF TypeOK, Next, Ask, Reset, vars, InFlight, Running, Goto, Begin, FindMember,
      Verify, Sign, SaveLink, AskFails, SendMail, TemplateFails, VerifyLink, CompareLink,
      ChangePassword, ResetFails, Tick, Crash
<1>5. QED  BY <1>2, <1>3, <1>4

-----------------------------------------------------------------------------
Inv ==
    /\ TypeOK /\ LinksOwn /\ LinksWritten /\ LinksMailed /\ Rivals
    /\ RequestsKnow /\ KeptLasts /\ KeptSpaced /\ ResetByCurrentLink /\ RefusedWasReplaced

LEMMA InitInv == Init => Inv
<1> HAVE Init
<1> USE RequestsAssumption DEF Requests
<1>1. TypeOK  BY TimeAssumption DEF Init, TypeOK, Seconds
<1>2. /\ \A r \in Requests : phase[r] = "idle" /\ link[r] = NoLink
      /\ inbox = {} /\ overlaps = {}
  BY DEF Init
<1>3. LinksOwn /\ LinksMailed /\ Rivals
  BY <1>2 DEF LinksOwn, LinksMailed, Rivals, Kept, Pending, Running, InFlight, Together
<1>4. LinksWritten  BY <1>2 DEF LinksWritten, Kept, Init
<1>5. RequestsKnow /\ KeptLasts /\ KeptSpaced
  BY <1>2 DEF RequestsKnow, KeptLasts, KeptSpaced, Kept
<1>6. ResetByCurrentLink /\ RefusedWasReplaced
  BY <1>2 DEF ResetByCurrentLink, RefusedWasReplaced
<1>7. QED  BY <1>1, <1>3, <1>4, <1>5, <1>6 DEF Inv

LEMMA StepInv == Inv /\ [Next]_vars => Inv'
BY StepTyped, StepOwn, StepWritten, StepMailed, StepRivals, StepKnow, StepLasts, StepSpaced,
   StepCurrent, StepRefused
DEF Inv

\* Type correctness (TypeOK).
THEOREM TypeCorrect == Spec => []TypeOK
<1>1. Inv => TypeOK  BY DEF Inv
<1>2. QED  BY <1>1, InitInv, StepInv, PTL DEF Spec

\* Two mails to a member are Spam seconds apart, unless their requests had rivals
\* (NoSpam).
THEOREM MailsSpaced == Spec => []NoSpam
<1>1. Inv => NoSpam  BY DEF Inv, KeptSpaced, NoSpam, Kept
<1>2. QED  BY <1>1, InitInv, StepInv, PTL DEF Spec

\* A link that was mailed lasts for Spam seconds, unless its request had a rival
\* (LinkLasts).
THEOREM LinksLast == Spec => []LinkLasts
<1>1. Inv => LinkLasts  BY DEF Inv, KeptLasts, Follows, LinkLasts, Kept
<1>2. QED  BY <1>1, InitInv, StepInv, PTL DEF Spec

\* A password is written for a link that is in the row, or was replaced while the
\* password was hashed (ResetByCurrentLink).
THEOREM ResetsByCurrentLink == Spec => []ResetByCurrentLink
<1>1. Inv => ResetByCurrentLink  BY DEF Inv
<1>2. QED  BY <1>1, InitInv, StepInv, PTL DEF Spec

\* A link that was mailed is refused only once another was written
\* (RefusedWasReplaced).
THEOREM RefusedLinksWereReplaced == Spec => []RefusedWasReplaced
<1>1. Inv => RefusedWasReplaced  BY DEF Inv
<1>2. QED  BY <1>1, InitInv, StepInv, PTL DEF Spec

\* Whoever gets no mail has a link of another request, younger than Spam.
LEMMA StepSilence ==
    ASSUME Inv, [Next]_vars, NEW a \in Asks, phase[a] = "found", phase'[a] = "quiet"
    PROVE  \E b \in Asks \ {a} :
              /\ email[b] = email[a] /\ link[b] # NoLink /\ now < link[b].iat + Spam
              /\ phase[b] \in {"saved", "mailed", "unmailed", "dropped"}
<1>1. Recent(read[a])
  BY RequestsAssumption
  DEF Inv, TypeOK, Requests, Next, Ask, Reset, vars, InFlight, Running, Goto, Begin, FindMember,
      Verify, Sign, SaveLink, AskFails, SendMail, TemplateFails, VerifyLink, CompareLink,
      ChangePassword, ResetFails, Tick, Crash
<1>2. read[a] # NoLink /\ now < read[a].iat + Spam  BY <1>1 DEF Recent
<1>3. Written(read[a], email[a])  BY <1>2 DEF Inv, LinksWritten
<1>4. PICK b \in Asks : /\ email[b] = email[a] /\ link[b] = read[a]
                        /\ phase[b] \in Kept \cup {"dropped"}
  BY <1>3 DEF Written
<1>5. b # a  BY <1>4 DEF Kept
<1>6. QED  BY <1>2, <1>4, <1>5 DEF Kept

\* A request answered without a mail is silenced by a link younger than Spam
\* (SilenceIsShort).
THEOREM SilencesAreShort == Spec => SilenceIsShort
<1>1. Inv /\ [Next]_vars =>
        [\A a \in Asks : phase[a] = "found" /\ phase'[a] = "quiet" =>
            \E b \in Asks \ {a} :
                /\ email[b] = email[a] /\ link[b] # NoLink /\ now < link[b].iat + Spam
                /\ phase[b] \in {"saved", "mailed", "unmailed", "dropped"}]_vars
  BY StepSilence
<1>2. QED  BY <1>1, InitInv, StepInv, PTL DEF Spec, SilenceIsShort

-----------------------------------------------------------------------------
(* Requests come nearer to their end.                                      *)

\* Calls that still lie ahead of a request.
Ahead(p) ==
    CASE p = "found" -> 4
      [] p = "signing" -> 3
      [] p \in {"signed", "verified"} -> 2
      [] p \in {"saved", "checked"} -> 1
      [] OTHER -> 0

Works(r) == (r \in Asks /\ Ask(r)) \/ (r \in Resets /\ Reset(r))

Descends(r) ==
    /\ Works(r) => Ahead(phase'[r]) < Ahead(phase[r])
    /\ phase[r] \in InFlight => phase'[r] = phase[r] \/ Ahead(phase'[r]) < Ahead(phase[r])
    /\ phase[r] \in Ended => phase'[r] = phase[r]

\* A call that settles, with a result or not, takes its request nearer and no other.
LEMMA CallsSettle ==
    ASSUME TypeOK, NEW r \in Requests, Works(r)
    PROVE  /\ phase[r] \in InFlight /\ Ahead(phase'[r]) < Ahead(phase[r])
           /\ \A q \in Requests : q # r => phase'[q] = phase[q]
BY DEF TypeOK, Works, Ask, Reset, Goto, Ahead, InFlight, Verify, Sign, SaveLink, AskFails,
       SendMail, TemplateFails, CompareLink, ChangePassword, ResetFails

LEMMA StepDescends ==
    ASSUME TypeOK, [Next]_vars, NEW r \in Requests
    PROVE  Descends(r)
<1> USE DEF TypeOK, Requests, InFlight, Ended
<1>1. CASE Works(r)  BY <1>1, CallsSettle DEF Descends
<1>2. ASSUME ~Works(r), NEW q \in Requests, Works(q) PROVE Descends(r)
  BY <1>2, CallsSettle DEF Descends
<1>3. ASSUME ~Works(r), NEW q \in Requests,
             FindMember(q) \/ \E l \in Links \cup {BadLink} : VerifyLink(q, l)
      PROVE  Descends(r)
  <2>1. phase[q] = "idle" /\ \A p \in Requests : p # q => phase'[p] = phase[p]
    BY <1>3 DEF FindMember, VerifyLink, Begin, Goto
  <2>2. QED  BY <1>3, <2>1 DEF Descends
<1>4. ASSUME ~Works(r), Crash PROVE Descends(r)
  BY <1>4 DEF Crash, Running, Descends, Ahead
<1>5. ASSUME ~Works(r), UNCHANGED phase PROVE Descends(r)
  BY <1>5 DEF Descends
<1>6. QED  BY <1>1, <1>2, <1>3, <1>4, <1>5 DEF Next, vars, Works, Tick

\* Every step of a request brings it nearer to its answer, whatever rejects, nothing
\* takes it back, and an answer is final (auth.service.ts:106-236): a request for a link
\* awaits at most four more calls after its first, one to use a link two.
THEOREM RequestsDescend == Spec => [][\A r \in Requests : Descends(r)]_vars
<1>1. Inv /\ [Next]_vars => [\A r \in Requests : Descends(r)]_vars
  BY StepDescends DEF Inv
<1>2. QED  BY <1>1, InitInv, StepInv, PTL DEF Spec
=============================================================================
