---------------------------- MODULE Session_proofs ----------------------------
(***************************************************************************)
(* Who may have a token that names a role, for any number of members,      *)
(* requests and seconds.  The invariant follows a role from the row it is  *)
(* read from, through the request that read it, to the token that request  *)
(* signs: whenever the row changes, either the reader is in flight and is  *)
(* caught, or the token is already signed and no younger than the change.  *)
(***************************************************************************)
EXTENDS Session, TLAPS

\* A visit at work presents a token, and has another once it signed it.
Presented ==
    \A v \in Visits :
        /\ phase[v] \in {"verified", "known", "renewed"} => token[v] \in Tokens
        /\ phase[v] = "renewed" => fresh[v] \in Tokens

\* The role of a token that is out, or about to be handed out.
Heeded(t) ==
    /\ t.iat <= now
    /\ t.admin => \/ IsAdmin(t.member)
                  \/ t.iat <= withdrawn[t.member]
                  \/ <<t.by, "role">> \in caught
TokensHeeded ==
    /\ \A t \in issued : Heeded(t)
    /\ \A v \in Visits : phase[v] = "renewed" => Heeded(fresh[v])

\* The role a request has read is that of the row, or it was caught.
RolesRead ==
    \A r \in Logins \cup Visits : phase[r] \in {"found", "trusted", "known"} /\ role[r] =>
        IsAdmin(Subject(r)) \/ <<r, "role">> \in caught

\* So is the password, and a trusted login was sent it.
HashesRead ==
    \A l \in Logins : phase[l] \in {"found", "trusted"} =>
        /\ hash[l] = password[given[l].member] \/ <<l, "password">> \in caught
        /\ phase[l] = "trusted" => given[l].password = hash[l]

-----------------------------------------------------------------------------
(* Types.                                                                  *)

LEMMA CaughtTyped ==
    ASSUME TypeOK, NEW m, NEW readers, NEW what \in {"role", "password"}, Catch(m, readers, what)
    PROVE  caught' \subseteq Requests \X {"role", "password"}
BY DEF TypeOK, Catch, Running

LEMMA StepTyped ==
    ASSUME TypeOK, Presented, [Next]_vars
    PROVE  TypeOK' /\ Presented'
<1> USE RequestsAssumption, TimeAssumption
    DEF TypeOK, Presented, Requests, InFlight, Ended, Goto, Seconds
<1>1. CASE UNCHANGED vars
  BY <1>1 DEF vars, database, local
<1>2. ASSUME NEW l \in Logins, FindMember(l) PROVE TypeOK' /\ Presented'
  <2>1. hash' \in [Logins -> Passwords]  BY <1>2 DEF FindMember
  <2>2. role' \in [Logins \cup Visits -> BOOLEAN]
    <3>1. (given[l].member \in admin) \in BOOLEAN  OBVIOUS
    <3>2. role' = role \/ role' = [role EXCEPT ![l] = given[l].member \in admin]
      BY <1>2 DEF FindMember
    <3>3. QED  BY <3>1, <3>2, Zenon
  <2>3. phase' \in [Requests -> {"idle"} \cup InFlight \cup Ended]  BY <1>2 DEF FindMember
  <2>4. \A v \in Visits : phase'[v] = phase[v]  BY <1>2 DEF FindMember
  <2>5. UNCHANGED <<now, rows, admin, password, seen, issued, given, token, fresh, withdrawn, caught>>
    BY <1>2 DEF FindMember, database
  <2>6. QED  BY <2>1, <2>2, <2>3, <2>4, <2>5
<1>3. ASSUME NEW l \in Logins, Compare(l) PROVE TypeOK' /\ Presented'
  BY <1>3 DEF Compare, database, local
<1>4. ASSUME NEW l \in Logins, Sign(l) PROVE TypeOK' /\ Presented'
  <2>1. Signed(given[l].member, role[l], l) \in Tokens  BY DEF Signed, Tokens
  <2>2. QED  BY <1>4, <2>1 DEF Sign, database, local
<1>5. ASSUME NEW v \in Visits, Verify(v) PROVE TypeOK' /\ Presented'
  BY <1>5 DEF Verify, database, local
<1>6. ASSUME NEW v \in Visits, ReadMember(v) PROVE TypeOK' /\ Presented'
  <2>1. role' \in [Logins \cup Visits -> BOOLEAN]
    <3>1. (token[v].member \in admin) \in BOOLEAN  OBVIOUS
    <3>2. role' = role \/ role' = [role EXCEPT ![v] = token[v].member \in admin]
      BY <1>6 DEF ReadMember
    <3>3. QED  BY <3>1, <3>2, Zenon
  <2>2. phase' \in [Requests -> {"idle"} \cup InFlight \cup Ended]  BY <1>6 DEF ReadMember
  <2>3. UNCHANGED <<now, rows, admin, password, seen, issued, given, token, hash, fresh, withdrawn,
                    caught>>
    BY <1>6 DEF ReadMember, database
  <2>4. \A x \in Visits : phase'[x] \in {"verified", "known", "renewed"} =>
            /\ phase[x] \in {"verified", "known", "renewed"}
            /\ phase'[x] = "renewed" => phase[x] = "renewed"
    BY <1>6 DEF ReadMember
  <2>5. QED  BY <2>1, <2>2, <2>3, <2>4
<1>7. ASSUME NEW v \in Visits, Renew(v) PROVE TypeOK' /\ Presented'
  <2>1. token[v].member \in Members  BY <1>7 DEF Renew, Tokens
  <2>2. Signed(token[v].member, RoleOfRow(v), v) \in Tokens
    BY <2>1 DEF Signed, Tokens, RoleOfRow
  <2>3. QED  BY <1>7, <2>2 DEF Renew, database
<1>8. ASSUME NEW v \in Visits, Answer(v) PROVE TypeOK' /\ Presented'
  BY <1>8 DEF Answer, database, local
<1>9. ASSUME NEW r \in Logins \cup Visits, Fail(r) PROVE TypeOK' /\ Presented'
  BY <1>9 DEF Fail, database, local
<1>10. ASSUME NEW c \in Calls, Admit(c) PROVE TypeOK' /\ Presented'
  BY <1>10 DEF Admit, database, local
<1>11. ASSUME NEW m \in Members, Promote(m) PROVE TypeOK' /\ Presented'
  BY <1>11 DEF Promote, database, local
<1>12. ASSUME NEW m \in Members, Demote(m) PROVE TypeOK' /\ Presented'
  <2>1. caught' \subseteq Requests \X {"role", "password"}
    BY <1>12, CaughtTyped DEF Demote
  <2>2. QED  BY <1>12, <2>1 DEF Demote, local
<1>13. ASSUME NEW m \in Members, Remove(m) PROVE TypeOK' /\ Presented'
  <2>1. caught' \subseteq Requests \X {"role", "password"}
    BY <1>13, CaughtTyped DEF Remove
  <2>2. QED  BY <1>13, <2>1 DEF Remove, local
<1>14. ASSUME NEW m \in Members, ChangePassword(m) PROVE TypeOK' /\ Presented'
  <2>1. caught' \subseteq Requests \X {"role", "password"}
    BY <1>14, CaughtTyped DEF ChangePassword
  <2>2. QED  BY <1>14, <2>1 DEF ChangePassword, local
<1>15. CASE Tick
  BY <1>15 DEF Tick, database, local
<1>16. CASE Crash
  BY <1>16 DEF Crash, database, local
<1>17. QED
  BY <1>1, <1>2, <1>3, <1>4, <1>5, <1>6, <1>7, <1>8,
     <1>9, <1>10, <1>11, <1>12, <1>13, <1>14, <1>15, <1>16
  DEF Next, LoginStep, VisitStep

-----------------------------------------------------------------------------
(* What a request read, and what it signs.                                 *)

LEMMA StepRoles ==
    ASSUME TypeOK, Presented, RolesRead, [Next]_vars
    PROVE  RolesRead'
<1> USE RequestsAssumption
    DEF TypeOK, Presented, RolesRead, Requests, Running, InFlight, Subject, IsAdmin, Goto
<1>1. CASE UNCHANGED vars
  BY <1>1 DEF vars, database, local
<1>2. ASSUME NEW l \in Logins, FindMember(l) PROVE RolesRead'
  <2>1. UNCHANGED <<rows, admin, given, token, caught>>  BY <1>2 DEF FindMember, database
  <2>2. \A r \in (Logins \cup Visits) \ {l} : phase'[r] = phase[r] /\ role'[r] = role[r]
    BY <1>2 DEF FindMember
  <2>3. phase'[l] \in {"found", "trusted", "known"} => (role'[l] <=> IsAdmin(Subject(l)))
    BY <1>2 DEF FindMember
  <2>4. QED  BY <2>1, <2>2, <2>3
<1>3. ASSUME NEW l \in Logins, Compare(l) PROVE RolesRead'
  BY <1>3 DEF Compare, database, local
<1>4. ASSUME NEW l \in Logins, Sign(l) PROVE RolesRead'
  BY <1>4 DEF Sign, database, local
<1>5. ASSUME NEW v \in Visits, Verify(v) PROVE RolesRead'
  BY <1>5 DEF Verify, database, local
<1>6. ASSUME NEW v \in Visits, ReadMember(v) PROVE RolesRead'
  <2>1. UNCHANGED <<rows, admin, given, token, caught>>  BY <1>6 DEF ReadMember, database
  <2>2. \A r \in (Logins \cup Visits) \ {v} : phase'[r] = phase[r] /\ role'[r] = role[r]
    BY <1>6 DEF ReadMember
  <2>3. phase'[v] \in {"found", "trusted", "known"} => (role'[v] <=> IsAdmin(Subject(v)))
    BY <1>6 DEF ReadMember
  <2>4. QED  BY <2>1, <2>2, <2>3
<1>7. ASSUME NEW v \in Visits, Renew(v) PROVE RolesRead'
  BY <1>7 DEF Renew, database, local
<1>8. ASSUME NEW v \in Visits, Answer(v) PROVE RolesRead'
  BY <1>8 DEF Answer, database, local
<1>9. ASSUME NEW r \in Logins \cup Visits, Fail(r) PROVE RolesRead'
  BY <1>9 DEF Fail, database, local
<1>10. ASSUME NEW c \in Calls, Admit(c) PROVE RolesRead'
  BY <1>10 DEF Admit, database, local
<1>11. ASSUME NEW m \in Members, Promote(m) PROVE RolesRead'
  BY <1>11 DEF Promote, database, local
<1>12. ASSUME NEW m \in Members, Demote(m) PROVE RolesRead'
  BY <1>12 DEF Demote, Catch, local
<1>13. ASSUME NEW m \in Members, Remove(m) PROVE RolesRead'
  BY <1>13 DEF Remove, Catch, local
<1>14. ASSUME NEW m \in Members, ChangePassword(m) PROVE RolesRead'
  BY <1>14 DEF ChangePassword, Catch, local
<1>15. CASE Tick
  BY <1>15 DEF Tick, database, local
<1>16. CASE Crash
  BY <1>16 DEF Crash, database, local
<1>17. QED
  BY <1>1, <1>2, <1>3, <1>4, <1>5, <1>6, <1>7, <1>8,
     <1>9, <1>10, <1>11, <1>12, <1>13, <1>14, <1>15, <1>16
  DEF Next, LoginStep, VisitStep

\* Whoever takes a role away does it no earlier than the token was signed.
LEMMA HeededStays ==
    ASSUME TypeOK, NEW t \in Tokens, Heeded(t), [Next]_vars
    PROVE  Heeded(t)'
<1> USE TimeAssumption DEF TypeOK, Heeded, IsAdmin, Seconds, Tokens
<1>1. CASE UNCHANGED vars
  BY <1>1 DEF vars, database, local
<1>2. ASSUME NEW l \in Logins, FindMember(l) PROVE Heeded(t)'
  BY <1>2 DEF FindMember, database, local
<1>3. ASSUME NEW l \in Logins, Compare(l) PROVE Heeded(t)'
  BY <1>3 DEF Compare, database, local
<1>4. ASSUME NEW l \in Logins, Sign(l) PROVE Heeded(t)'
  BY <1>4 DEF Sign, database, local
<1>5. ASSUME NEW v \in Visits, Verify(v) PROVE Heeded(t)'
  BY <1>5 DEF Verify, database, local
<1>6. ASSUME NEW v \in Visits, ReadMember(v) PROVE Heeded(t)'
  BY <1>6 DEF ReadMember, database, local
<1>7. ASSUME NEW v \in Visits, Renew(v) PROVE Heeded(t)'
  BY <1>7 DEF Renew, database, local
<1>8. ASSUME NEW v \in Visits, Answer(v) PROVE Heeded(t)'
  BY <1>8 DEF Answer, database, local
<1>9. ASSUME NEW r \in Logins \cup Visits, Fail(r) PROVE Heeded(t)'
  BY <1>9 DEF Fail, database, local
<1>10. ASSUME NEW c \in Calls, Admit(c) PROVE Heeded(t)'
  BY <1>10 DEF Admit, database, local
<1>11. ASSUME NEW m \in Members, Promote(m) PROVE Heeded(t)'
  BY <1>11 DEF Promote, database, local
<1>12. ASSUME NEW m \in Members, Demote(m) PROVE Heeded(t)'
  BY <1>12 DEF Demote, Catch
<1>13. ASSUME NEW m \in Members, Remove(m) PROVE Heeded(t)'
  BY <1>13 DEF Remove, Catch
<1>14. ASSUME NEW m \in Members, ChangePassword(m) PROVE Heeded(t)'
  BY <1>14 DEF ChangePassword, Catch
<1>15. CASE Tick
  BY <1>15 DEF Tick, database, local
<1>16. CASE Crash
  BY <1>16 DEF Crash, database, local
<1>17. QED
  BY <1>1, <1>2, <1>3, <1>4, <1>5, <1>6, <1>7, <1>8,
     <1>9, <1>10, <1>11, <1>12, <1>13, <1>14, <1>15, <1>16
  DEF Next, LoginStep, VisitStep

LEMMA StepHeeded ==
    ASSUME TypeOK, Presented, RolesRead, TokensHeeded, [Next]_vars
    PROVE  TokensHeeded'
<1>1. ASSUME NEW l \in Logins, Sign(l) PROVE Heeded(Signed(given[l].member, role[l], l))'
  <2>1. role[l] => IsAdmin(given[l].member) \/ <<l, "role">> \in caught
    BY <1>1 DEF RolesRead, Sign, Subject
  <2>2. now \in Int  BY DEF TypeOK, Seconds
  <2>3. QED  BY <1>1, <2>1, <2>2 DEF Sign, Signed, Heeded, IsAdmin, database, local
<1>2. ASSUME NEW v \in Visits, Renew(v) PROVE Heeded(fresh[v])'
  <2>1. role[v] => IsAdmin(token[v].member) \/ <<v, "role">> \in caught
    BY <1>2, RequestsAssumption DEF RolesRead, Renew, Subject
  <2>2. now \in Int  BY DEF TypeOK, Seconds
  <2>3. fresh'[v] = Signed(token[v].member, role[v], v)
    BY <1>2 DEF Renew, RoleOfRow, TypeOK
  <2>4. QED  BY <1>2, <2>1, <2>2, <2>3 DEF Renew, Signed, Heeded, IsAdmin, database
<1>3. \A t \in issued' : \/ t \in issued
                         \/ \E l \in Logins : Sign(l) /\ t = Signed(given[l].member, role[l], l)
                         \/ \E v \in Visits : phase[v] = "renewed" /\ t = fresh[v]
  BY DEF Next, LoginStep, VisitStep, vars, database, local, FindMember, Compare, Sign, Verify,
         ReadMember, Renew, Answer, Fail, Admit, Promote, Demote, Remove, ChangePassword, Tick, Crash
<1>4. \A v \in Visits : phase'[v] = "renewed" =>
          Renew(v) \/ (phase[v] = "renewed" /\ fresh'[v] = fresh[v])
  BY RequestsAssumption
  DEF TypeOK, Next, LoginStep, VisitStep, vars, database, local, Goto, Requests, FindMember, Compare,
      Sign, Verify, ReadMember, Renew, Answer, Fail, Admit, Promote, Demote, Remove, ChangePassword,
      Tick, Crash
<1>5. \A t \in issued : Heeded(t)'  BY HeededStays DEF TokensHeeded, TypeOK
<1>6. \A v \in Visits : phase[v] = "renewed" => fresh[v] \in Tokens /\ Heeded(fresh[v])
  BY DEF Presented, TokensHeeded
<1>7. \A t \in Tokens : Heeded(t) => Heeded(t)'  BY HeededStays
<1>8. \A t \in issued' : Heeded(t)'
  <2>1. ASSUME NEW l \in Logins, Sign(l), NEW t, t = Signed(given[l].member, role[l], l)
        PROVE  Heeded(t)'
    <3>1. UNCHANGED local  BY <2>1 DEF Sign
    <3>2. t = Signed(given[l].member, role[l], l)'
      BY <2>1, <3>1 DEF Signed, local, Sign
    <3>3. QED  BY <1>1, <2>1, <3>2
  <2>2. QED  BY <1>3, <1>5, <1>6, <1>7, <2>1
<1>9. \A v \in Visits : phase'[v] = "renewed" => Heeded(fresh[v])'
  BY <1>2, <1>4, <1>6, <1>7 DEF Heeded
<1>10. QED  BY <1>8, <1>9 DEF TokensHeeded

LEMMA StepHashes ==
    ASSUME TypeOK, HashesRead, [Next]_vars
    PROVE  HashesRead'
<1> USE RequestsAssumption DEF TypeOK, HashesRead, Requests, Running, InFlight, Subject, Goto
<1>1. CASE UNCHANGED vars
  BY <1>1 DEF vars, database, local
<1>2. ASSUME NEW l \in Logins, FindMember(l) PROVE HashesRead'
  BY <1>2 DEF FindMember, database, local
<1>3. ASSUME NEW l \in Logins, Compare(l) PROVE HashesRead'
  BY <1>3 DEF Compare, Matches, database, local
<1>4. ASSUME NEW l \in Logins, Sign(l) PROVE HashesRead'
  BY <1>4 DEF Sign, database, local
<1>5. ASSUME NEW v \in Visits, Verify(v) PROVE HashesRead'
  BY <1>5 DEF Verify, database, local
<1>6. ASSUME NEW v \in Visits, ReadMember(v) PROVE HashesRead'
  BY <1>6 DEF ReadMember, database, local
<1>7. ASSUME NEW v \in Visits, Renew(v) PROVE HashesRead'
  BY <1>7 DEF Renew, database, local
<1>8. ASSUME NEW v \in Visits, Answer(v) PROVE HashesRead'
  BY <1>8 DEF Answer, database, local
<1>9. ASSUME NEW r \in Logins \cup Visits, Fail(r) PROVE HashesRead'
  BY <1>9 DEF Fail, database, local
<1>10. ASSUME NEW c \in Calls, Admit(c) PROVE HashesRead'
  BY <1>10 DEF Admit, database, local
<1>11. ASSUME NEW m \in Members, Promote(m) PROVE HashesRead'
  BY <1>11 DEF Promote, database, local
<1>12. ASSUME NEW m \in Members, Demote(m) PROVE HashesRead'
  BY <1>12 DEF Demote, Catch, local
<1>13. ASSUME NEW m \in Members, Remove(m) PROVE HashesRead'
  BY <1>13 DEF Remove, Catch, local
<1>14. ASSUME NEW m \in Members, ChangePassword(m) PROVE HashesRead'
  BY <1>14 DEF ChangePassword, Catch, local
<1>15. CASE Tick
  BY <1>15 DEF Tick, database, local
<1>16. CASE Crash
  BY <1>16 DEF Crash, database, local
<1>17. QED
  BY <1>1, <1>2, <1>3, <1>4, <1>5, <1>6, <1>7, <1>8,
     <1>9, <1>10, <1>11, <1>12, <1>13, <1>14, <1>15, <1>16
  DEF Next, LoginStep, VisitStep

-----------------------------------------------------------------------------
Inv == TypeOK /\ Presented /\ RolesRead /\ TokensHeeded /\ HashesRead

LEMMA InitInv == Init => Inv
<1> HAVE Init
<1>1. TypeOK
  BY TimeAssumption DEF Init, TypeOK, Seconds
<1>2. \A r \in Requests : phase[r] = "idle"  BY DEF Init
<1>3. Presented /\ RolesRead /\ HashesRead
  BY <1>2 DEF Presented, RolesRead, HashesRead, Requests
<1>4. TokensHeeded  BY <1>2 DEF TokensHeeded, Init, Requests
<1>5. QED  BY <1>1, <1>3, <1>4 DEF Inv

LEMMA StepInv == Inv /\ [Next]_vars => Inv'
BY StepTyped, StepRoles, StepHeeded, StepHashes DEF Inv

\* Type correctness (TypeOK).
THEOREM TypeCorrect == Spec => []TypeOK
<1>1. Inv => TypeOK  BY DEF Inv
<1>2. QED  BY <1>1, InitInv, StepInv, PTL DEF Spec

\* However tokens are renewed, one that names a role was signed while the member
\* had it, or by a request in flight when it was taken away (RenewalHeedsRow).
THEOREM RenewalsHeedRow == Spec => []RenewalHeedsRow
<1>1. Inv => RenewalHeedsRow
  BY DEF Inv, TokensHeeded, Heeded, RenewalHeedsRow
<1>2. QED  BY <1>1, InitInv, StepInv, PTL DEF Spec

\* A login is trusted by the password in the row, or by the one that was replaced
\* while it ran (TrustedByPassword).
THEOREM PasswordsDecide == Spec => []TrustedByPassword
<1>1. Inv => TrustedByPassword  BY DEF Inv, HashesRead, TrustedByPassword
<1>2. QED  BY <1>1, InitInv, StepInv, PTL DEF Spec

\* A token that admits was signed less than Life ago, and named a role its member
\* had then (RoleLapses).
LEMMA StepLapses ==
    ASSUME Inv, [Next]_vars, NEW c \in Calls, phase[c] # "admitted", phase'[c] = "admitted"
    PROVE  LET m == token'[c].member IN
           IsAdmin(m) \/ now < withdrawn[m] + Life \/ <<token'[c].by, "role">> \in caught
<1> USE DEF Inv, TypeOK
<1>1. Admit(c)
  BY RequestsAssumption
  DEF Next, LoginStep, VisitStep, vars, database, local, Goto, Requests, FindMember, Compare, Sign,
      Verify, ReadMember, Renew, Answer, Fail, Admit, Promote, Demote, Remove, ChangePassword,
      Tick, Crash
<1>2. PICK t \in issued : token'[c] = t /\ ~Expired(t) /\ t.admin
  BY <1>1 DEF Admit, Goto, Requests
<1>3. Heeded(t)  BY <1>2 DEF TokensHeeded
<1>4. now \in Nat /\ Life \in Nat /\ t.iat \in Nat /\ withdrawn[t.member] \in Int
  BY <1>2, TimeAssumption DEF Seconds, Tokens
<1>5. now < t.iat + Life  BY <1>2, <1>4 DEF Expired
<1>6. QED  BY <1>2, <1>3, <1>4, <1>5 DEF Heeded

THEOREM RolesLapse == Spec => RoleLapses
<1>1. Inv /\ [Next]_vars =>
        [\A c \in Calls : phase[c] # "admitted" /\ phase'[c] = "admitted" =>
            LET m == token'[c].member IN
            IsAdmin(m) \/ now < withdrawn[m] + Life \/ <<token'[c].by, "role">> \in caught]_vars
  BY StepLapses
<1>2. QED  BY <1>1, InitInv, StepInv, PTL DEF Spec, RoleLapses
=============================================================================
