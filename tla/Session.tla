------------------------------- MODULE Session -------------------------------
(***************************************************************************)
(* Who is let in, and as what.  AuthService.login trades a password for a  *)
(* token; MemberService.getMember (GET member/me) trades a token for a new *)
(* one; AdminGuard admits a request by the role written in its token.  No  *)
(* token is stored or revoked: a role that was taken away counts until the *)
(* last token that names it ends.  One action is one awaited call and the  *)
(* code up to the next.  Roles are changed, and rows removed, by hand: no  *)
(* endpoint does it.                                                       *)
(***************************************************************************)
EXTENDS Integers

CONSTANTS
    Members, Passwords,
    Logins,         \* requests POST auth/login
    Visits,         \* requests GET member/me
    Calls,          \* requests to an endpoint for administrators
    Horizon,        \* bound: the last second the model looks at
    Life,           \* a token is valid for so long (two weeks)
    NoToken,        \* none was presented or signed yet
    Nobody          \* no visit

ASSUME TimeAssumption == Horizon \in Nat /\ Life \in Nat \ {0}
ASSUME RequestsAssumption ==
    /\ Logins \cap Visits = {} /\ Logins \cap Calls = {} /\ Visits \cap Calls = {}
    /\ Nobody \notin Visits

Seconds == 0 .. Horizon
Requests == Logins \cup Visits \cup Calls
\* The payload of a token and, for the properties, the request that signed it.
Tokens == [member : Members, admin : BOOLEAN, iat : Seconds, by : Logins \cup Visits]

ASSUME TokenAssumption == NoToken \notin Tokens

VARIABLES
    now,        \* the current second
    rows,       \* members that have a row
    admin,      \* Member.isAdmin
    password,   \* Member.password
    seen,       \* the visit that wrote userAgent and ipAddress last
    issued,     \* tokens that reached a client
    given,      \* email and password of each login
    token,      \* the token a visit or a call presents
    hash,       \* the password a login read
    role,       \* the role a login or a visit read
    fresh,      \* the token a visit signed
    phase,      \* where each request stands
    withdrawn,  \* history: when each member last lost its role, or its row
    caught      \* history: requests that read a role or a password, and were
                \* in flight when their member's was changed

database == <<rows, admin, password, seen>>
local == <<given, token, hash, role, fresh>>
vars == <<now, database, issued, local, phase, withdrawn, caught>>

InFlight == {"found", "trusted", "verified", "known", "renewed"}
\* "unknown" 404; "wrong", "expired", "gone", "notAdmin" 401; "failed" 500;
\* "in", "answered", "admitted" 200.
Ended == {"unknown", "wrong", "expired", "gone", "notAdmin", "failed",
          "in", "answered", "admitted", "dropped"}
Running == {r \in Requests : phase[r] \in InFlight}

TypeOK ==
    /\ now \in Seconds
    /\ rows \subseteq Members
    /\ admin \subseteq Members
    /\ password \in [Members -> Passwords]
    /\ seen \in [Members -> Visits \cup {Nobody}]
    /\ issued \subseteq Tokens
    /\ given \in [Logins -> [member : Members, password : Passwords]]
    /\ token \in [Visits \cup Calls -> Tokens \cup {NoToken}]
    /\ hash \in [Logins -> Passwords]
    /\ role \in [Logins \cup Visits -> BOOLEAN]
    /\ fresh \in [Visits -> Tokens \cup {NoToken}]
    /\ phase \in [Requests -> {"idle"} \cup InFlight \cup Ended]
    /\ withdrawn \in [Members -> -1 .. Horizon]
    /\ caught \subseteq Requests \X {"role", "password"}

Init ==
    /\ now = 0
    /\ rows = Members
    /\ admin \in SUBSET Members
    /\ password \in [Members -> Passwords]
    /\ seen = [m \in Members |-> Nobody]
    /\ issued = {}
    /\ given \in [Logins -> [member : Members, password : Passwords]]
    /\ token = [r \in Visits \cup Calls |-> NoToken]
    /\ hash = [l \in Logins |-> given[l].password]   \* nothing is read yet
    /\ role = [r \in Logins \cup Visits |-> FALSE]
    /\ fresh = [v \in Visits |-> NoToken]
    /\ phase = [r \in Requests |-> "idle"]
    /\ withdrawn = [m \in Members |-> -1]
    /\ caught = {}

Goto(r, p) == phase' = [phase EXCEPT ![r] = p]

-----------------------------------------------------------------------------
(* login.                                                                  *)

FindMember(l) ==
    LET m == given[l].member IN
    /\ phase[l] = "idle"
    /\ \/ m \notin rows /\ Goto(l, "unknown") /\ UNCHANGED <<hash, role>>
       \/ /\ m \in rows
          /\ hash' = [hash EXCEPT ![l] = password[m]]
          /\ role' = [role EXCEPT ![l] = m \in admin]
          /\ Goto(l, "found")
       \/ Goto(l, "failed") /\ UNCHANGED <<hash, role>>
    /\ UNCHANGED <<now, database, issued, given, token, fresh, withdrawn, caught>>

\* Mutant: the answer of bcrypt is not waited for; a promise is truthy.
NotAwaited(l) == TRUE
Matches(l) == given[l].password = hash[l]

Compare(l) ==
    /\ phase[l] = "found"
    /\ Goto(l, IF Matches(l) THEN "trusted" ELSE "wrong")
    /\ UNCHANGED <<now, database, issued, local, withdrawn, caught>>

Signed(m, isAdmin, r) == [member |-> m, admin |-> isAdmin, iat |-> now, by |-> r]

\* The token carries the role that was read with the password.
Sign(l) ==
    /\ phase[l] = "trusted"
    /\ issued' = issued \cup {Signed(given[l].member, role[l], l)}
    /\ Goto(l, "in")
    /\ UNCHANGED <<now, database, local, withdrawn, caught>>

-----------------------------------------------------------------------------
(* The guards, and getMember.                                              *)

\* Mutant: the strategy ignores expiration.
NeverExpired(t) == FALSE
Expired(t) == now >= t.iat + Life

\* JwtAuthGuard on GET member/me.
Verify(v) == \E t \in issued :
    /\ phase[v] = "idle"
    /\ token' = [token EXCEPT ![v] = t]
    /\ Goto(v, IF Expired(t) THEN "expired" ELSE "verified")
    /\ UNCHANGED <<now, database, issued, given, hash, role, fresh, withdrawn, caught>>

ReadMember(v) ==
    LET m == token[v].member IN
    /\ phase[v] = "verified"
    /\ \/ m \notin rows /\ Goto(v, "gone") /\ UNCHANGED role
       \/ m \in rows /\ Goto(v, "known") /\ role' = [role EXCEPT ![v] = m \in admin]
    /\ UNCHANGED <<now, database, issued, given, token, hash, fresh, withdrawn, caught>>

\* Mutant: the payload of the old token is signed again.
RoleOfToken(v) == token[v].admin
RoleOfRow(v) == role[v]

Renew(v) ==
    /\ phase[v] = "known"
    /\ fresh' = [fresh EXCEPT ![v] = Signed(token[v].member, RoleOfRow(v), v)]
    /\ Goto(v, "renewed")
    /\ UNCHANGED <<now, database, issued, given, token, hash, role, withdrawn, caught>>

\* userAgent and ipAddress are written where the request has one; then the new
\* token is handed out.
Answer(v) ==
    LET m == token[v].member IN
    /\ phase[v] = "renewed"
    /\ \/ m \in rows /\ seen' = [seen EXCEPT ![m] = v]
       \/ UNCHANGED seen
    /\ issued' = issued \cup {fresh[v]}
    /\ Goto(v, "answered")
    /\ UNCHANGED <<now, rows, admin, password, local, withdrawn, caught>>

\* An awaited call rejects, an update of a row that is gone included: 500.
Fail(r) ==
    /\ phase[r] \in InFlight
    /\ Goto(r, "failed")
    /\ UNCHANGED <<now, database, issued, local, withdrawn, caught>>

\* JwtAuthGuard, then AdminGuard: no row is read.
Admit(c) == \E t \in issued :
    /\ phase[c] = "idle"
    /\ token' = [token EXCEPT ![c] = t]
    /\ \/ Expired(t) /\ Goto(c, "expired")
       \/ ~Expired(t) /\ ~t.admin /\ Goto(c, "notAdmin")
       \/ ~Expired(t) /\ t.admin /\ Goto(c, "admitted")
    /\ UNCHANGED <<now, database, issued, given, hash, role, fresh, withdrawn, caught>>

-----------------------------------------------------------------------------
(* The environment.                                                        *)

Subject(r) == IF r \in Logins THEN given[r].member ELSE token[r].member
Catch(m, readers, what) ==
    caught' = caught \cup ({r \in Running \cap readers : Subject(r) = m} \X {what})

Promote(m) ==
    /\ admin' = admin \cup {m}
    /\ UNCHANGED <<now, rows, password, seen, issued, local, phase, withdrawn, caught>>

Demote(m) ==
    /\ m \in admin
    /\ admin' = admin \ {m}
    /\ withdrawn' = [withdrawn EXCEPT ![m] = now]
    /\ Catch(m, Logins \cup Visits, "role")
    /\ UNCHANGED <<now, rows, password, seen, issued, local, phase>>

Remove(m) ==
    /\ m \in rows
    /\ rows' = rows \ {m}
    /\ withdrawn' = [withdrawn EXCEPT ![m] = now]
    /\ Catch(m, Logins \cup Visits, "role")
    /\ UNCHANGED <<now, admin, password, seen, issued, local, phase>>

\* The last step of resetPassword.
ChangePassword(m) == \E p \in Passwords \ {password[m]} :
    /\ m \in rows
    /\ password' = [password EXCEPT ![m] = p]
    /\ Catch(m, Logins, "password")
    /\ UNCHANGED <<now, rows, admin, seen, issued, local, phase, withdrawn>>

Tick ==
    /\ now < Horizon
    /\ now' = now + 1
    /\ UNCHANGED <<database, issued, local, phase, withdrawn, caught>>

\* The process restarts: clients keep their tokens.
Crash ==
    /\ Running # {}
    /\ phase' = [r \in Requests |-> IF r \in Running THEN "dropped" ELSE phase[r]]
    /\ UNCHANGED <<now, database, issued, local, withdrawn, caught>>

LoginStep(l) == Compare(l) \/ Sign(l) \/ Fail(l)
VisitStep(v) == ReadMember(v) \/ Renew(v) \/ Answer(v) \/ Fail(v)

Next ==
    \/ \E l \in Logins : FindMember(l) \/ LoginStep(l)
    \/ \E v \in Visits : Verify(v) \/ VisitStep(v)
    \/ \E c \in Calls : Admit(c)
    \/ \E m \in Members : Promote(m) \/ Demote(m) \/ Remove(m) \/ ChangePassword(m)
    \/ Tick \/ Crash

Spec == Init /\ [][Next]_vars

-----------------------------------------------------------------------------
(* Properties.                                                             *)

IsAdmin(m) == m \in rows \cap admin

\* A token names a role the member still has, or had when the token was signed:
\* no renewal carries a role over that was taken away before, except that of a
\* request that was in flight at that moment (member.service.ts:31-42,
\* auth.service.ts:50-72).
RenewalHeedsRow ==
    \A t \in issued : t.admin =>
        IsAdmin(t.member) \/ t.iat <= withdrawn[t.member] \/ <<t.by, "role">> \in caught

\* A request is admitted as an administrator's less than Life after its member
\* lost the role, or by the token of a request that was in flight when it did:
\* however often the client renews, the role is gone after one life of a token
\* (admin.guard.ts:17, jwt.strategy.ts:11, auth.service.ts:78).
RoleLapses ==
    [][\A c \in Calls : phase[c] # "admitted" /\ phase'[c] = "admitted" =>
        LET m == token'[c].member IN
        IsAdmin(m) \/ now < withdrawn[m] + Life \/ <<token'[c].by, "role">> \in caught]_vars

\* A login is about to be answered with a token only if the password it was sent
\* is the one in the row, or was until it changed under way: a password that was
\* replaced before opens nothing (auth.service.ts:50-66, 228-231).
TrustedByPassword ==
    \A l \in Logins : phase[l] = "trusted" =>
        given[l].password = password[given[l].member] \/ <<l, "password">> \in caught
=============================================================================
