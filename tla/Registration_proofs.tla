-------------------------- MODULE Registration_proofs --------------------------
(***************************************************************************)
(* Rows, keys and images, for any number of persons and requests.  The     *)
(* invariant says where each request stands, whose key is in each row and  *)
(* under each image, and that a sign-up at work knows every member like it *)
(* that it was not in flight with: none, or the first query refused it.    *)
(***************************************************************************)
EXTENDS Registration, TLAPS

\* The row of a sign-up exists; the image of a request is in the store.
Registered == {"created", "mailed", "unmailed", "noToken", "ok"}
HasStored(r) == phase[r] \in Registered \cup {"stored", "decoded"} \/ r \in members

\* What the pipe let through is written in one way.
Clean ==
    \A p \in Persons : person[p] # Blank =>
        /\ person[p] \in Person
        /\ person[p].email.form = Plain /\ person[p].phone.form = Plain
        /\ person[p].code # NoCode => person[p].code.form = Plain

Tag(r) == IF person[Owner(r)].code = NoCode THEN r ELSE person[Owner(r)].code

\* Where each request stands.
Places ==
    /\ Legacy \subseteq members
    /\ \A r \in Signups :
          /\ r \in members => phase[r] \in Registered \cup {"dropped"}
          /\ phase[r] \in Registered => r \in members
          /\ phase[r] = "idle" => person[r] = Blank
    /\ \A r \in Requests :
          /\ phase[r] \in InFlight \cup Registered => key[r] # NoKey
          /\ key[r] # NoKey =>
                /\ phase[r] \in InFlight \cup Registered \cup {"failed", "typeError", "dropped"}
                /\ person[Owner(r)] # Blank /\ key[r].tag = Tag(r)
    /\ \A s \in Signers :
          /\ key[s] # NoKey => target[s] \in Legacy
          /\ phase[s] \notin {"decoded", "created", "mailed", "unmailed", "noToken"}

\* Whose key is in each row, and under each image.
Signatures ==
    /\ \A r \in Signups \cap members : signature[r] = key[r] /\ key[r] # NoKey
    /\ \A p \in Legacy : Signed(p) =>
          \E s \in Signers : target[s] = p /\ phase[s] = "ok" /\ key[s] = signature[p]
    /\ \A s \in Signers : phase[s] = "ok" => Signed(target[s])
Images == \A k \in Keys : objects[k] # Nobody => key[objects[k]] = k

Rivals ==
    /\ \A r, q \in Requests : Together(r, q) => Together(q, r)
    /\ \A r, q \in Running : r # q => Together(r, q)

\* Members like a sign-up at work were registered while it ran, and whoever signs
\* for a person signed while the other did.
SignupsMet ==
    \A r \in Signups, p \in members :
        phase[r] \in {"checked", "stored", "decoded"} /\ (SameCode(r, p) \/ SamePhone(r, p)) =>
            Together(r, p)
SignersMet ==
    \A s, t \in Signers :
        phase[s] \in {"checked", "stored"} /\ phase[t] = "ok" /\ target[s] = target[t] =>
            Together(s, t)

\* The image of a request is still its own, or of one like it.
LikeOwn(r, q) ==
    /\ q # Nobody
    /\ \/ Owner(q) = Owner(r)
       \/ Together(r, q) /\ SameCode(Owner(r), Owner(q))
ImagesKept == \A r \in Requests : HasStored(r) => LikeOwn(r, objects[key[r]])

-----------------------------------------------------------------------------
(* Names.                                                                  *)

LEMMA AcceptedClean ==
    ASSUME NEW p \in Accepted
    PROVE  /\ p \in Person /\ p # Blank
           /\ p.email.form = Plain /\ p.phone.form = Plain
           /\ p.code # NoCode => p.code.form = Plain
<1>1. PICK b \in Bodies : Acceptable(b) /\ p = Cleaned(b)  BY DEF Accepted
<1>2. /\ b.email \in Texts(Emails) /\ b.phone \in Texts(Phones)
      /\ b.code \in Texts(Codes) \cup {NoCode}
  BY <1>1 DEF Bodies, Acceptable, Throws, ValidPhone, ValidCode
<1>3. ASSUME NEW S, NEW t \in Texts(S) PROVE Normal(t) \in Texts(S) /\ Normal(t).form = Plain
  BY NamesAssumption DEF Normal, Texts
<1>4. p \in Person
  BY <1>1, <1>2, <1>3 DEF Cleaned, Person
<1>5. p.email.form = Plain /\ p.phone.form = Plain /\ (p.code # NoCode => p.code.form = Plain)
  BY <1>1, <1>2, <1>3 DEF Cleaned
<1>6. p.email \in Texts(Emails)  BY <1>4 DEF Person
<1>7. p # Blank  BY <1>6, NamesAssumption DEF Blank
<1>8. QED  BY <1>4, <1>5, <1>7

\* Where two persons were let through, the same value is the same text.
LEMMA SameText ==
    ASSUME Clean, NEW p \in Persons, NEW q \in Persons, person[p] # Blank, person[q] # Blank
    PROVE  /\ SameMail(p, q) => person[p].email = person[q].email
           /\ SamePhone(p, q) => person[p].phone = person[q].phone
           /\ SameCode(p, q) => person[p].code = person[q].code /\ person[p].code # NoCode
BY DEF Clean, SameMail, SamePhone, SameCode, Person, Texts

LEMMA RefusalsTyped == Refusals \subseteq {"broken", "invalid"}
BY DEF Refusals

\* The key a request makes.
LEMMA KeyMade ==
    ASSUME TypeOK, NEW r \in Requests, NEW c \in Texts(Codes) \cup {NoCode}
    PROVE  /\ KeyOf(r, c) \in Keys /\ KeyOf(r, c) # NoKey
           /\ KeyOf(r, c).tag = IF c = NoCode THEN r ELSE c
BY KeyAssumption DEF KeyOf, Keys, TypeOK

LEMMA FindExistingDoes ==
    ASSUME TypeOK, NEW r \in Signups, FindExisting(r)
    PROVE  /\ phase[r] = "idle"
           /\ UNCHANGED <<now, target, members, signature, objects>>
           /\ \/ \E a \in {"conflict", "failed"} : phase' = [phase EXCEPT ![r] = a]
                 /\ UNCHANGED <<person, key>>
              \/ \E p \in Accepted :
                    /\ ~Known(p)
                    /\ phase' = [phase EXCEPT ![r] = "checked"]
                    /\ person' = [person EXCEPT ![r] = p]
                    /\ key' = [key EXCEPT ![r] = KeyOf(r, p.code)]
BY DEF FindExisting, Goto, Begin

LEMMA FindSignerDoes ==
    ASSUME TypeOK, NEW s \in Signers, FindSigner(s)
    PROVE  /\ phase[s] = "idle"
           /\ UNCHANGED <<now, person, target, members, signature, objects>>
           /\ \/ \E a \in {"notFound", "alreadySigned", "failed"} : phase' = [phase EXCEPT ![s] = a]
                 /\ UNCHANGED key
              \/ /\ target[s] \in members /\ ~Signed(target[s])
                 /\ phase' = [phase EXCEPT ![s] = "checked"]
                 /\ key' = [key EXCEPT ![s] = KeyOf(s, person[target[s]].code)]
BY DEF FindSigner, Goto, Begin

-----------------------------------------------------------------------------
LEMMA StepTyped ==
    ASSUME TypeOK, Places, [Next]_vars
    PROVE  TypeOK'
<1> USE NamesAssumption, ClockAssumption, KeyAssumption
    DEF TypeOK, Persons, Requests, Running, InFlight, Ended, Seconds, Goto, Begin
<1>1. CASE UNCHANGED vars
  BY <1>1 DEF vars
<1>2. ASSUME NEW r \in Requests, Store(r) PROVE TypeOK'
  BY <1>2 DEF Store
<1>3. ASSUME NEW r \in Requests, UploadFails(r) PROVE TypeOK'
  BY <1>3 DEF UploadFails
<1>4. ASSUME NEW r \in Signups, Refuse(r) PROVE TypeOK'
  BY <1>4, RefusalsTyped DEF Refuse
<1>5. ASSUME NEW r \in Signups, FindExisting(r) PROVE TypeOK'
  <2>1. overlaps' \subseteq Requests \X Requests  BY <1>5 DEF FindExisting
  <2>2. CASE UNCHANGED <<person, key>>
    BY <1>5, <2>1, <2>2, FindExistingDoes
  <2>3. ASSUME NEW p \in Accepted, phase' = [phase EXCEPT ![r] = "checked"],
               person' = [person EXCEPT ![r] = p], key' = [key EXCEPT ![r] = KeyOf(r, p.code)]
        PROVE  TypeOK'
    <3>1. p \in Person /\ p # Blank  BY AcceptedClean
    <3>2. KeyOf(r, p.code) \in Keys  BY <3>1, KeyMade DEF Person
    <3>3. UNCHANGED <<now, target, members, signature, objects>>  BY <1>5, FindExistingDoes
    <3>4. QED  BY <2>1, <2>3, <3>1, <3>2, <3>3
  <2>4. QED  BY <1>5, <2>2, <2>3, FindExistingDoes
<1>6. ASSUME NEW r \in Signups, Decode(r) PROVE TypeOK'
  BY <1>6 DEF Decode
<1>7. ASSUME NEW r \in Signups, Create(r) PROVE TypeOK'
  <2>1. person[r] # Blank  BY <1>7 DEF Create, Places, Owner
  <2>2. QED  BY <1>7, <2>1 DEF Create
<1>8. ASSUME NEW r \in Signups, CreateFails(r) PROVE TypeOK'
  BY <1>8 DEF CreateFails
<1>9. ASSUME NEW r \in Signups, Welcome(r) PROVE TypeOK'
  BY <1>9 DEF Welcome
<1>10. ASSUME NEW r \in Signups, Login(r) PROVE TypeOK'
  BY <1>10 DEF Login
<1>11. ASSUME NEW s \in Signers, FindSigner(s) PROVE TypeOK'
  <2>1. overlaps' \subseteq Requests \X Requests  BY <1>11 DEF FindSigner
  <2>2. CASE UNCHANGED key
    BY <1>11, <2>1, <2>2, FindSignerDoes
  <2>3. CASE /\ target[s] \in members /\ phase' = [phase EXCEPT ![s] = "checked"]
             /\ key' = [key EXCEPT ![s] = KeyOf(s, person[target[s]].code)]
    <3>1. person[target[s]] \in Person  BY <2>3
    <3>2. KeyOf(s, person[target[s]].code) \in Keys  BY <3>1, KeyMade DEF Person
    <3>3. UNCHANGED <<now, person, target, members, signature, objects>>  BY <1>11, FindSignerDoes
    <3>4. QED  BY <2>1, <2>3, <3>2, <3>3
  <2>4. QED  BY <1>11, <2>2, <2>3, FindSignerDoes
<1>12. ASSUME NEW s \in Signers, SaveKey(s) PROVE TypeOK'
  BY <1>12 DEF SaveKey
<1>13. ASSUME NEW s \in Signers, SaveFails(s) PROVE TypeOK'
  BY <1>13 DEF SaveFails
<1>14. CASE Tick
  BY <1>14 DEF Tick
<1>15. CASE Crash
  BY <1>15 DEF Crash
<1>16. QED
  BY <1>1, <1>2, <1>3, <1>4, <1>5, <1>6, <1>7, <1>8,
     <1>9, <1>10, <1>11, <1>12, <1>13, <1>14, <1>15
  DEF Next, Continue, ContinueSigning, Upload, Requests

LEMMA StepClean ==
    ASSUME TypeOK, Clean, [Next]_vars
    PROVE  Clean'
<1>1. ASSUME NEW r \in Signups, FindExisting(r) PROVE Clean'
  BY <1>1, AcceptedClean DEF TypeOK, Clean, FindExisting, Persons
<1>2. ASSUME UNCHANGED person PROVE Clean'  BY <1>2 DEF Clean
<1>3. QED
  BY <1>1, <1>2
  DEF Next, Continue, ContinueSigning, Upload, vars, Refuse, Store, UploadFails, Decode, Create,
      CreateFails, Welcome, Login, FindSigner, SaveKey, SaveFails, Tick, Crash

LEMMA StepPlaces ==
    ASSUME TypeOK, Places, Signatures, [Next]_vars
    PROVE  Places'
<1> USE NamesAssumption, KeyAssumption
    DEF TypeOK, Places, Registered, Tag, Owner, Persons, Requests, Running, InFlight, Goto, Begin
<1>1. CASE UNCHANGED vars
  BY <1>1 DEF vars
<1>2. ASSUME NEW r \in Requests, Store(r) PROVE Places'
  BY <1>2 DEF Store
<1>3. ASSUME NEW r \in Requests, UploadFails(r) PROVE Places'
  BY <1>3 DEF UploadFails
<1>4. ASSUME NEW r \in Signups, Refuse(r) PROVE Places'
  BY <1>4, RefusalsTyped DEF Refuse
<1>5. ASSUME NEW r \in Signups, FindExisting(r) PROVE Places'
  <2>1. phase[r] = "idle" /\ r \notin members /\ key[r] = NoKey
        /\ UNCHANGED <<target, members>>
    BY <1>5, FindExistingDoes
  <2>2. \A q \in Requests : key[q] # NoKey => Owner(q) # r
    BY <2>1
  <2>3. ASSUME NEW a \in {"conflict", "failed"}, phase' = [phase EXCEPT ![r] = a],
               UNCHANGED <<person, key>>
        PROVE  Places'
    <3>1. \A q \in Requests : Owner(q)' = Owner(q) /\ Tag(q)' = Tag(q)
      BY <2>1, <2>3
    <3>2. \A q \in Requests \ {r} : phase'[q] = phase[q]  BY <2>3
    <3>3. phase'[r] = a /\ r \notin Signers  BY <2>3
    <3>4. QED  BY <2>1, <2>3, <3>1, <3>2, <3>3
  <2>4. ASSUME NEW p \in Accepted, phase' = [phase EXCEPT ![r] = "checked"],
               person' = [person EXCEPT ![r] = p], key' = [key EXCEPT ![r] = KeyOf(r, p.code)]
        PROVE  Places'
    <3>1. p \in Person /\ p # Blank  BY AcceptedClean
    <3>2. KeyOf(r, p.code) # NoKey /\ KeyOf(r, p.code).tag = IF p.code = NoCode THEN r ELSE p.code
      BY <3>1, KeyMade DEF Person
    <3>3. \A q \in Requests \ {r} :
              key'[q] = key[q] /\ phase'[q] = phase[q] /\ Owner(q)' = Owner(q)
              /\ (key[q] # NoKey => Tag(q)' = Tag(q) /\ person'[Owner(q)] = person[Owner(q)])
      BY <2>1, <2>2, <2>4
    <3>4. /\ key'[r] # NoKey /\ phase'[r] = "checked" /\ Owner(r)' = r /\ person'[r] # Blank
          /\ key'[r].tag = Tag(r)'
      BY <2>1, <2>4, <3>1, <3>2
    <3>5. \A q \in Requests :
              /\ phase'[q] \in InFlight \cup Registered => key'[q] # NoKey
              /\ key'[q] # NoKey =>
                    /\ phase'[q] \in
                           InFlight \cup Registered \cup {"failed", "typeError", "dropped"}
                    /\ person'[Owner(q)'] # Blank /\ key'[q].tag = Tag(q)'
      BY <3>3, <3>4
    <3>6. \A q \in Signups :
              /\ q \in members => phase'[q] \in Registered \cup {"dropped"}
              /\ phase'[q] \in Registered => q \in members
              /\ phase'[q] = "idle" => person'[q] = Blank
      BY <2>1, <2>4
    <3>7. Legacy \subseteq members'  BY <2>1
    <3>8. \A s \in Signers :
              /\ key'[s] # NoKey => target[s] \in Legacy
              /\ phase'[s] \notin {"decoded", "created", "mailed", "unmailed", "noToken"}
      BY <3>3
    <3>9. UNCHANGED <<target, members>>  BY <2>1
    <3>10. QED  BY <3>5, <3>6, <3>7, <3>8, <3>9
  <2> HIDE DEF TypeOK, Places, Registered, Tag, Owner, Persons, Requests, Running, InFlight,
               Goto, Begin
  <2>5. QED  BY <1>5, <2>3, <2>4, FindExistingDoes
<1>6. ASSUME NEW r \in Signups, Decode(r) PROVE Places'
  BY <1>6 DEF Decode
<1>7. ASSUME NEW r \in Signups, Create(r) PROVE Places'
  BY <1>7 DEF Create
<1>8. ASSUME NEW r \in Signups, CreateFails(r) PROVE Places'
  BY <1>8 DEF CreateFails
<1>9. ASSUME NEW r \in Signups, Welcome(r) PROVE Places'
  BY <1>9 DEF Welcome
<1>10. ASSUME NEW r \in Signups, Login(r) PROVE Places'
  BY <1>10 DEF Login
<1>11. ASSUME NEW s \in Signers, FindSigner(s) PROVE Places'
  <2>1. phase[s] = "idle" /\ key[s] = NoKey
        /\ UNCHANGED <<person, target, members, signature>>
    BY <1>11, FindSignerDoes
  <2>2. ASSUME NEW a \in {"notFound", "alreadySigned", "failed"},
               phase' = [phase EXCEPT ![s] = a], UNCHANGED key
        PROVE  Places'
    <3>1. \A q \in Requests : Owner(q)' = Owner(q) /\ Tag(q)' = Tag(q)
      BY <2>1
    <3>2. \A q \in Requests \ {s} : phase'[q] = phase[q]  BY <2>2
    <3>3. phase'[s] = a /\ s \notin Signups  BY <2>2
    <3>4. QED  BY <2>1, <2>2, <3>1, <3>2, <3>3
  <2>3. CASE /\ target[s] \in members /\ ~Signed(target[s])
             /\ phase' = [phase EXCEPT ![s] = "checked"]
             /\ key' = [key EXCEPT ![s] = KeyOf(s, person[target[s]].code)]
    <3>1. person[target[s]] \in Person /\ person[target[s]] # Blank  BY <2>3
    <3>2. target[s] \in Legacy  BY <2>3 DEF Signatures, Signed
    <3>3. /\ KeyOf(s, person[target[s]].code) # NoKey
          /\ KeyOf(s, person[target[s]].code).tag = Tag(s)
      BY <3>1, KeyMade DEF Person
    <3>4. \A q \in Requests \ {s} : key'[q] = key[q] /\ phase'[q] = phase[q]
      BY <2>3
    <3>5. \A q \in Requests : Owner(q)' = Owner(q) /\ Tag(q)' = Tag(q)
      BY <2>1
    <3>6. QED  BY <2>1, <2>3, <3>1, <3>2, <3>3, <3>4, <3>5
  <2>4. QED  BY <1>11, <2>2, <2>3, FindSignerDoes
<1>12. ASSUME NEW s \in Signers, SaveKey(s) PROVE Places'
  BY <1>12 DEF SaveKey
<1>13. ASSUME NEW s \in Signers, SaveFails(s) PROVE Places'
  BY <1>13 DEF SaveFails
<1>14. CASE Tick
  BY <1>14 DEF Tick
<1>15. CASE Crash
  BY <1>15 DEF Crash
<1>16. QED
  BY <1>1, <1>2, <1>3, <1>4, <1>5, <1>6, <1>7, <1>8,
     <1>9, <1>10, <1>11, <1>12, <1>13, <1>14, <1>15
  DEF Next, Continue, ContinueSigning, Upload, Requests

LEMMA StepRivals ==
    ASSUME TypeOK, Rivals, [Next]_vars
    PROVE  Rivals'
<1> USE NamesAssumption DEF TypeOK, Rivals, Together, Requests, Running, InFlight, Goto, Begin
<1>1. CASE UNCHANGED vars
  BY <1>1 DEF vars
<1>2. ASSUME NEW r \in Requests, Store(r) PROVE Rivals'
  BY <1>2 DEF Store
<1>3. ASSUME NEW r \in Requests, UploadFails(r) PROVE Rivals'
  BY <1>3 DEF UploadFails
<1>4. ASSUME NEW r \in Signups, Refuse(r) PROVE Rivals'
  BY <1>4, RefusalsTyped DEF Refuse
<1>5. ASSUME NEW r \in Signups, FindExisting(r) PROVE Rivals'
  BY <1>5 DEF FindExisting
<1>6. ASSUME NEW r \in Signups, Decode(r) PROVE Rivals'
  BY <1>6 DEF Decode
<1>7. ASSUME NEW r \in Signups, Create(r) PROVE Rivals'
  BY <1>7 DEF Create
<1>8. ASSUME NEW r \in Signups, CreateFails(r) PROVE Rivals'
  BY <1>8 DEF CreateFails
<1>9. ASSUME NEW r \in Signups, Welcome(r) PROVE Rivals'
  BY <1>9 DEF Welcome
<1>10. ASSUME NEW r \in Signups, Login(r) PROVE Rivals'
  BY <1>10 DEF Login
<1>11. ASSUME NEW s \in Signers, FindSigner(s) PROVE Rivals'
  BY <1>11 DEF FindSigner
<1>12. ASSUME NEW s \in Signers, SaveKey(s) PROVE Rivals'
  BY <1>12 DEF SaveKey
<1>13. ASSUME NEW s \in Signers, SaveFails(s) PROVE Rivals'
  BY <1>13 DEF SaveFails
<1>14. CASE Tick
  BY <1>14 DEF Tick
<1>15. CASE Crash
  BY <1>15 DEF Crash
<1>16. QED
  BY <1>1, <1>2, <1>3, <1>4, <1>5, <1>6, <1>7, <1>8,
     <1>9, <1>10, <1>11, <1>12, <1>13, <1>14, <1>15
  DEF Next, Continue, ContinueSigning, Upload, Requests

LEMMA StepSignatures ==
    ASSUME TypeOK, Places, Signatures, [Next]_vars
    PROVE  Signatures'
<1> USE NamesAssumption, KeyAssumption
    DEF TypeOK, Places, Registered, Signatures, Signed,
        Persons, Requests, Running, InFlight, Goto, Begin
<1>1. CASE UNCHANGED vars
  BY <1>1 DEF vars
<1>2. ASSUME NEW r \in Requests, Store(r) PROVE Signatures'
  BY <1>2 DEF Store
<1>3. ASSUME NEW r \in Requests, UploadFails(r) PROVE Signatures'
  BY <1>3 DEF UploadFails
<1>4. ASSUME NEW r \in Signups, Refuse(r) PROVE Signatures'
  BY <1>4 DEF Refuse
<1>5. ASSUME NEW r \in Signups, FindExisting(r) PROVE Signatures'
  BY <1>5 DEF FindExisting
<1>6. ASSUME NEW r \in Signups, Decode(r) PROVE Signatures'
  BY <1>6 DEF Decode
<1>7. ASSUME NEW r \in Signups, Create(r) PROVE Signatures'
  BY <1>7 DEF Create
<1>8. ASSUME NEW r \in Signups, CreateFails(r) PROVE Signatures'
  BY <1>8 DEF CreateFails
<1>9. ASSUME NEW r \in Signups, Welcome(r) PROVE Signatures'
  BY <1>9 DEF Welcome
<1>10. ASSUME NEW r \in Signups, Login(r) PROVE Signatures'
  BY <1>10 DEF Login
<1>11. ASSUME NEW s \in Signers, FindSigner(s) PROVE Signatures'
  BY <1>11 DEF FindSigner
<1>12. ASSUME NEW s \in Signers, SaveKey(s) PROVE Signatures'
  BY <1>12 DEF SaveKey
<1>13. ASSUME NEW s \in Signers, SaveFails(s) PROVE Signatures'
  BY <1>13 DEF SaveFails
<1>14. CASE Tick
  BY <1>14 DEF Tick
<1>15. CASE Crash
  BY <1>15 DEF Crash
<1>16. QED
  BY <1>1, <1>2, <1>3, <1>4, <1>5, <1>6, <1>7, <1>8,
     <1>9, <1>10, <1>11, <1>12, <1>13, <1>14, <1>15
  DEF Next, Continue, ContinueSigning, Upload, Requests

LEMMA StepImages ==
    ASSUME TypeOK, Places, Images, [Next]_vars
    PROVE  Images'
<1> USE NamesAssumption, KeyAssumption
    DEF TypeOK, Places, Registered, Images, Persons, Requests, Running, InFlight, Goto, Begin
<1>1. CASE UNCHANGED vars
  BY <1>1 DEF vars
<1>2. ASSUME NEW r \in Requests, Store(r) PROVE Images'
  BY <1>2 DEF Store
<1>3. ASSUME NEW r \in Requests, UploadFails(r) PROVE Images'
  BY <1>3 DEF UploadFails
<1>4. ASSUME NEW r \in Signups, Refuse(r) PROVE Images'
  BY <1>4 DEF Refuse
<1>5. ASSUME NEW r \in Signups, FindExisting(r) PROVE Images'
  BY <1>5 DEF FindExisting
<1>6. ASSUME NEW r \in Signups, Decode(r) PROVE Images'
  BY <1>6 DEF Decode
<1>7. ASSUME NEW r \in Signups, Create(r) PROVE Images'
  BY <1>7 DEF Create
<1>8. ASSUME NEW r \in Signups, CreateFails(r) PROVE Images'
  BY <1>8 DEF CreateFails
<1>9. ASSUME NEW r \in Signups, Welcome(r) PROVE Images'
  BY <1>9 DEF Welcome
<1>10. ASSUME NEW r \in Signups, Login(r) PROVE Images'
  BY <1>10 DEF Login
<1>11. ASSUME NEW s \in Signers, FindSigner(s) PROVE Images'
  <2>0. phase[s] = "idle" /\ s \in Requests  BY <1>11 DEF FindSigner
  <2>1. \A k \in Keys : objects[k] # Nobody => objects[k] # s
    <3>1. key[s] \notin Keys  BY <2>0
    <3>2. QED  BY <3>1
  <2>2. UNCHANGED objects /\ \A q \in Requests \ {s} : key'[q] = key[q]
    BY <1>11, FindSignerDoes
  <2>3. QED  BY <2>1, <2>2
<1>12. ASSUME NEW s \in Signers, SaveKey(s) PROVE Images'
  BY <1>12 DEF SaveKey
<1>13. ASSUME NEW s \in Signers, SaveFails(s) PROVE Images'
  BY <1>13 DEF SaveFails
<1>14. CASE Tick
  BY <1>14 DEF Tick
<1>15. CASE Crash
  BY <1>15 DEF Crash
<1>16. QED
  BY <1>1, <1>2, <1>3, <1>4, <1>5, <1>6, <1>7, <1>8,
     <1>9, <1>10, <1>11, <1>12, <1>13, <1>14, <1>15
  DEF Next, Continue, ContinueSigning, Upload, Requests

-----------------------------------------------------------------------------
(* What a step may change.                                                 *)

LEMMA Moves ==
    ASSUME TypeOK, Places, [Next]_vars
    PROVE  /\ overlaps \subseteq overlaps' /\ UNCHANGED target
           /\ members \subseteq members'
           /\ \A p \in members' \ members : p \in Signups /\ Create(p)
           /\ \A p \in Persons : person[p] # Blank => person'[p] = person[p]
           /\ \A r \in Requests : key[r] # NoKey => key'[r] = key[r]
<1> USE NamesAssumption
    DEF TypeOK, Places, Registered, Persons, Requests, Running, InFlight, Goto, Begin
<1>1. overlaps \subseteq overlaps' /\ UNCHANGED target /\ members \subseteq members'
  BY DEF Next, Continue, ContinueSigning, Upload, vars, Refuse, FindExisting, Store, UploadFails,
      Decode, Create, CreateFails, Welcome, Login, FindSigner, SaveKey, SaveFails, Tick, Crash
<1>2. ASSUME NEW p \in members' \ members PROVE p \in Signups /\ Create(p)
  BY <1>2
  DEF Next, Continue, ContinueSigning, Upload, vars, Refuse, FindExisting, Store, UploadFails,
      Decode, Create, CreateFails, Welcome, Login, FindSigner, SaveKey, SaveFails, Tick, Crash
<1>3. ASSUME NEW p \in Persons, person[p] # Blank PROVE person'[p] = person[p]
  BY <1>3, SMTT(30)
  DEF Next, Continue, ContinueSigning, Upload, vars, Refuse, FindExisting, Store, UploadFails,
      Decode, Create, CreateFails, Welcome, Login, FindSigner, SaveKey, SaveFails, Tick, Crash
<1>4. ASSUME NEW r \in Requests, key[r] # NoKey PROVE key'[r] = key[r]
  BY <1>4
  DEF Next, Continue, ContinueSigning, Upload, vars, Refuse, FindExisting, Store, UploadFails,
      Decode, Create, CreateFails, Welcome, Login, FindSigner, SaveKey, SaveFails, Tick, Crash
<1>5. QED  BY <1>1, <1>2, <1>3, <1>4

\* How a sign-up, and a request to sign, come to be at work.
LEMMA Begins ==
    ASSUME TypeOK, Places, [Next]_vars
    PROVE  /\ \A r \in Signups : phase'[r] \in {"checked", "stored", "decoded"} =>
                 FindExisting(r) \/ phase[r] \in {"checked", "stored", "decoded"}
           /\ \A s \in Signers : phase'[s] \in {"checked", "stored"} =>
                 FindSigner(s) \/ phase[s] \in {"checked", "stored"}
           /\ \A s \in Signers : phase'[s] = "ok" => SaveKey(s) \/ phase[s] = "ok"
<1> USE NamesAssumption, RefusalsTyped
    DEF TypeOK, Places, Requests, Running, InFlight, Goto, Begin
<1>1. ASSUME NEW r \in Signups, phase'[r] \in {"checked", "stored", "decoded"}
      PROVE  FindExisting(r) \/ phase[r] \in {"checked", "stored", "decoded"}
  BY <1>1, SMTT(30)
  DEF Next, Continue, ContinueSigning, Upload, vars, Refuse, FindExisting, Store, UploadFails,
      Decode, Create, CreateFails, Welcome, Login, FindSigner, SaveKey, SaveFails, Tick, Crash
<1>2. ASSUME NEW s \in Signers, phase'[s] \in {"checked", "stored"}
      PROVE  FindSigner(s) \/ phase[s] \in {"checked", "stored"}
  BY <1>2
  DEF Next, Continue, ContinueSigning, Upload, vars, Refuse, FindExisting, Store, UploadFails,
      Decode, Create, CreateFails, Welcome, Login, FindSigner, SaveKey, SaveFails, Tick, Crash
<1>3. ASSUME NEW s \in Signers, phase'[s] = "ok" PROVE SaveKey(s) \/ phase[s] = "ok"
  BY <1>3, SMTT(30)
  DEF Next, Continue, ContinueSigning, Upload, vars, Refuse, FindExisting, Store, UploadFails,
      Decode, Create, CreateFails, Welcome, Login, FindSigner, SaveKey, SaveFails, Tick, Crash
<1>4. QED  BY <1>1, <1>2, <1>3

\* How an image comes to be where it is.
LEMMA Uploads ==
    ASSUME TypeOK, Places, [Next]_vars
    PROVE  /\ \A r \in Requests : HasStored(r)' => HasStored(r) \/ Store(r)
           /\ \A k \in Keys : objects'[k] # objects[k] =>
                 \E q \in Requests : phase[q] = "checked" /\ key[q] = k /\ objects'[k] = q
           /\ \A p \in Persons : signature'[p] # signature[p] =>
                 \/ p \in Signups /\ Create(p)
                 \/ \E s \in Signers : SaveKey(s) /\ target[s] = p
<1> USE NamesAssumption, RefusalsTyped
    DEF TypeOK, Places, Registered, Persons, Requests, Running, InFlight, Goto, Begin
<1>1. ASSUME NEW r \in Requests, HasStored(r)' PROVE HasStored(r) \/ Store(r)
  BY <1>1, SMTT(30)
  DEF HasStored, Next, Continue, ContinueSigning, Upload, vars, Refuse, FindExisting, Store,
      UploadFails,
      Decode, Create, CreateFails, Welcome, Login, FindSigner, SaveKey, SaveFails, Tick, Crash
<1>2. ASSUME NEW k \in Keys, objects'[k] # objects[k]
      PROVE  \E q \in Requests : phase[q] = "checked" /\ key[q] = k /\ objects'[k] = q
  BY <1>2
  DEF Next, Continue, ContinueSigning, Upload, vars, Refuse, FindExisting, Store, UploadFails,
      Decode, Create, CreateFails, Welcome, Login, FindSigner, SaveKey, SaveFails, Tick, Crash
<1>3. ASSUME NEW p \in Persons, signature'[p] # signature[p]
      PROVE  \/ p \in Signups /\ Create(p)
             \/ \E s \in Signers : SaveKey(s) /\ target[s] = p
  <2>1. ASSUME NEW r \in Signups, Create(r) PROVE p = r
    BY <1>3, <2>1 DEF Create
  <2>2. ASSUME NEW s \in Signers, SaveKey(s) PROVE p = target[s]
    BY <1>3, <2>2 DEF SaveKey
  <2>3. \/ \E r \in Signups : Create(r)
        \/ \E s \in Signers : SaveKey(s)
        \/ UNCHANGED signature
    BY DEF Next, Continue, ContinueSigning, Upload, vars, Refuse, FindExisting, Store,
           UploadFails, Decode, CreateFails, Welcome, Login, FindSigner, SaveFails, Tick, Crash
  <2>4. QED  BY <1>3, <2>1, <2>2, <2>3
<1>4. QED  BY <1>1, <1>2, <1>3

-----------------------------------------------------------------------------
(* Who was in flight with whom.                                            *)

LEMMA StepSignupsMet ==
    ASSUME TypeOK, Clean, Places, Rivals, SignupsMet, [Next]_vars, Clean', Places', TypeOK'
    PROVE  SignupsMet'
<1> SUFFICES ASSUME NEW r \in Signups, NEW p \in members',
                    phase'[r] \in {"checked", "stored", "decoded"},
                    SameCode(r, p)' \/ SamePhone(r, p)'
             PROVE  Together(r, p)'
  BY DEF SignupsMet
<1>1. r \in Persons /\ p \in Persons /\ r \in Requests /\ person'[p] # Blank
  BY DEF TypeOK, Persons, Requests
<1>2. CASE FindExisting(r)
  <2>1. PICK x \in Accepted : ~Known(x) /\ person' = [person EXCEPT ![r] = x] /\ UNCHANGED members
    BY <1>1, <1>2, FindExistingDoes, RefusalsTyped DEF TypeOK
  <2>2. p \in members /\ p # r /\ person'[p] = person[p] /\ person'[r] = x
    BY <1>1, <1>2, <2>1, FindExistingDoes DEF TypeOK, Places, Registered
  <2>3. x # Blank  BY <2>1, AcceptedClean
  <2>4. \/ person'[r].phone = person'[p].phone
        \/ person'[r].code = person'[p].code /\ person'[r].code # NoCode
    BY <1>1, <2>2, <2>3 DEF Clean, SameCode, SamePhone, Person, Texts
  <2>5. QED  BY <2>1, <2>2, <2>4 DEF Known, HasCode
<1>3. CASE phase[r] \in {"checked", "stored", "decoded"}
  <2>1. person[r] # Blank  BY <1>1, <1>3 DEF Places, InFlight, Owner
  <2>2. CASE p \in members
    <3>1. person[p] # Blank  BY <2>2 DEF TypeOK
    <3>2. person'[r] = person[r] /\ person'[p] = person[p]  BY <1>1, <2>1, <3>1, Moves
    <3>3. SameCode(r, p) \/ SamePhone(r, p)  BY <3>2 DEF SameCode, SamePhone
    <3>4. QED  BY <1>3, <2>2, <3>3, Moves DEF SignupsMet, Together
  <2>3. CASE p \notin members
    <3>1. p \in Signups /\ Create(p)  BY <2>3, Moves
    <3>2. phase[p] = "decoded" /\ phase'[p] = "created"
      BY <3>1 DEF Create, Goto, TypeOK, Requests
    <3>3. p # r /\ p \in Running /\ r \in Running
      BY <1>1, <1>3, <3>1, <3>2 DEF Running, InFlight, Requests
    <3>4. QED  BY <3>3, Moves DEF Rivals, Together
  <2>4. QED  BY <2>2, <2>3
<1>4. QED  BY <1>2, <1>3, Begins

LEMMA StepSignersMet ==
    ASSUME TypeOK, Places, Signatures, Rivals, SignersMet, [Next]_vars
    PROVE  SignersMet'
<1> SUFFICES ASSUME NEW s \in Signers, NEW t \in Signers, phase'[s] \in {"checked", "stored"},
                    phase'[t] = "ok", target'[s] = target'[t]
             PROVE  Together(s, t)'
  BY DEF SignersMet
<1>1. target[s] = target[t] /\ s # t  BY Moves
<1>2. CASE phase[t] = "ok"
  <2>1. Signed(target[t])  BY <1>2 DEF Signatures
  <2>2. ~FindSigner(s)
    <3>1. SUFFICES ASSUME FindSigner(s) PROVE FALSE  OBVIOUS
    <3>2. UNCHANGED phase \/ \E a \in {"notFound", "alreadySigned", "failed"} : phase'[s] = a
      BY <1>1, <2>1, <3>1, FindSignerDoes DEF TypeOK, Requests
    <3>3. phase[s] = "idle"  BY <3>1, FindSignerDoes
    <3>4. QED  BY <3>2, <3>3
  <2>3. phase[s] \in {"checked", "stored"}  BY <2>2, Begins
  <2>4. QED  BY <1>1, <1>2, <2>3, Moves DEF SignersMet, Together
<1>3. CASE SaveKey(t)
  <2>1. phase[t] = "stored" /\ phase'[s] = phase[s]
    BY <1>1, <1>3 DEF SaveKey, Goto, TypeOK, Requests
  <2>2. s \in Running /\ t \in Running  BY <2>1 DEF Running, InFlight, Requests
  <2>3. QED  BY <1>1, <2>2, Moves DEF Rivals, Together
<1>4. QED  BY <1>2, <1>3, Begins

LEMMA StepTwins ==
    ASSUME TypeOK, Places, Rivals, SignupsMet, TwinsWereTogether, [Next]_vars, TypeOK'
    PROVE  TwinsWereTogether'
<1> SUFFICES ASSUME NEW p \in members', NEW q \in members', p # q,
                    SameCode(p, q)' \/ SamePhone(p, q)'
             PROVE  Together(p, q)'
  BY DEF TwinsWereTogether
<1>1. \A x \in members' : x \in Persons /\ person[x] # Blank /\ person'[x] = person[x]
  <2>1. ASSUME NEW x \in members' PROVE x \in Persons /\ person[x] # Blank
    <3>1. CASE x \in members  BY <3>1 DEF TypeOK
    <3>2. CASE x \notin members
      <4>1. x \in Signups /\ phase[x] = "decoded"  BY <2>1, <3>2, Moves DEF Create
      <4>2. QED  BY <4>1 DEF Places, InFlight, Owner, Requests, Persons
    <3>3. QED  BY <3>1, <3>2
  <2>2. QED  BY <2>1, Moves
<1>2. SameCode(p, q) \/ SamePhone(p, q)  BY <1>1 DEF SameCode, SamePhone
<1>3. CASE p \in members /\ q \in members
  BY <1>2, <1>3, Moves DEF TwinsWereTogether, Together
<1>4. ASSUME NEW x \in Signups, NEW y \in members, Create(x), SameCode(x, y) \/ SamePhone(x, y)
      PROVE  Together(x, y) /\ Together(y, x)
  <2>1. Together(x, y)  BY <1>4 DEF SignupsMet, Create
  <2>2. x \in Requests /\ y \in Requests  BY <2>1 DEF Together, TypeOK
  <2>3. QED  BY <2>1, <2>2 DEF Rivals
<1>5. CASE p \notin members /\ q \notin members
  <2>1. Create(p) /\ Create(q) /\ p \in Signups /\ q \in Signups  BY <1>5, Moves
  <2>2. members' = members \cup {p}  BY <2>1 DEF Create
  <2>3. QED  BY <1>5, <2>2
<1>6. CASE p \notin members /\ q \in members
  BY <1>2, <1>4, <1>6, Moves DEF Together
<1>7. CASE p \in members /\ q \notin members
  <2>1. SameCode(q, p) \/ SamePhone(q, p)  BY <1>2 DEF SameCode, SamePhone
  <2>2. QED  BY <1>4, <1>7, <2>1, Moves DEF Together
<1>8. QED  BY <1>3, <1>5, <1>6, <1>7

-----------------------------------------------------------------------------
(* Images and rows.                                                        *)

\* Two requests that make one key are of one codice fiscale.
LEMMA OneKey ==
    ASSUME TypeOK, Places, NEW r \in Requests, NEW q \in Requests,
           key[r] # NoKey, key[q] = key[r], Owner(q) # Owner(r)
    PROVE  SameCode(Owner(r), Owner(q))
<1>1. Tag(r) = Tag(q) /\ r # q  BY DEF Places
<1>2. Owner(r) \in Persons /\ Owner(q) \in Persons
  BY DEF Owner, TypeOK, Persons, Requests
<1>3. person[Owner(r)] \in Person /\ person[Owner(q)] \in Person
  BY <1>2 DEF Places, TypeOK
<1>4. r \notin Texts(Codes) /\ q \notin Texts(Codes)  BY NamesAssumption DEF Requests
<1>5. person[Owner(r)].code # NoCode /\ person[Owner(q)].code # NoCode
  BY <1>1, <1>3, <1>4 DEF Tag, Person
<1>6. QED  BY <1>1, <1>5 DEF Tag, SameCode

LEMMA Clash ==
    ASSUME TypeOK, Places, Rivals, SignupsMet, TwinsWereTogether,
           NEW r \in Requests, NEW q \in Requests,
           HasStored(r), phase[q] = "checked", key[q] = key[r], Owner(q) # Owner(r)
    PROVE  Together(r, q) /\ SameCode(Owner(r), Owner(q))
<1> USE NamesAssumption DEF Requests
<1>1. key[q] # NoKey  BY DEF Places, InFlight
<1>2. SameCode(Owner(r), Owner(q)) /\ SameCode(Owner(q), Owner(r))
  BY <1>1, OneKey DEF SameCode
<1>3. \A s \in Signers : key[s] # NoKey =>
          target[s] \in Legacy /\ target[s] \in members /\ target[s] \notin Requests
  BY DEF Places
<1>4. \A x, y : Together(x, y) => x \in Requests /\ y \in Requests  BY DEF Together, TypeOK
<1>5. CASE r \in Running
  <2>1. q \in Running /\ q # r  BY DEF Running, InFlight
  <2>2. QED  BY <1>2, <1>5, <2>1 DEF Rivals
<1>6. CASE r \notin Running /\ r \in Signups
  <2>1. r \in members  BY <1>6 DEF HasStored, Places, Running, InFlight
  <2>2. CASE q \in Signups
    <3>1. Together(q, r)  BY <1>2, <1>6, <2>1, <2>2 DEF SignupsMet, Owner
    <3>2. QED  BY <1>2, <3>1 DEF Rivals
  <2>3. CASE q \notin Signups
    <3>1. SameCode(r, target[q])  BY <1>2, <1>6, <2>3 DEF Owner
    <3>2. Together(r, target[q])
      BY <1>1, <1>3, <1>6, <2>1, <2>3, <3>1 DEF TwinsWereTogether
    <3>3. QED  BY <1>1, <1>3, <1>4, <2>3, <3>2
  <2>4. QED  BY <2>2, <2>3
<1>7. CASE r \notin Running /\ r \notin Signups
  <2>1. r \in Signers /\ Owner(r) = target[r]  BY <1>7 DEF Owner
  <2>2. target[r] \in members /\ target[r] \notin Requests  BY <1>1, <1>3, <2>1
  <2>3. CASE q \in Signups
    <3>1. Together(q, target[r])  BY <1>2, <2>1, <2>2, <2>3 DEF SignupsMet, Owner
    <3>2. QED  BY <1>4, <2>2, <3>1
  <2>4. CASE q \notin Signups
    <3>1. SameCode(target[r], target[q]) /\ target[r] # target[q] /\ target[q] \in members
      BY <1>1, <1>2, <1>3, <2>1, <2>4 DEF Owner
    <3>2. Together(target[r], target[q])  BY <2>2, <3>1 DEF TwinsWereTogether
    <3>3. QED  BY <1>4, <2>2, <3>2
  <2>5. QED  BY <2>3, <2>4
<1>8. QED  BY <1>5, <1>6, <1>7

\* Codes stay as they are.
LEMMA CodesStay ==
    ASSUME TypeOK, Places, [Next]_vars, NEW p \in Persons, NEW q \in Persons, SameCode(p, q)
    PROVE  SameCode(p, q)'
<1>1. person[p] # Blank /\ person[q] # Blank  BY DEF SameCode, Blank
<1>2. QED  BY <1>1, Moves DEF SameCode

LEMMA StepKept ==
    ASSUME TypeOK, Places, Signatures, Rivals, SignupsMet, TwinsWereTogether, ImagesKept,
           [Next]_vars, Places'
    PROVE  ImagesKept'
<1> SUFFICES ASSUME NEW r \in Requests, HasStored(r)', NEW q, q = objects'[key'[r]]
             PROVE  LikeOwn(r, q)'
  BY DEF ImagesKept, LikeOwn, Owner, Together, SameCode
<1>1. \A x \in Requests : Owner(x) \in Persons /\ Owner(x)' = Owner(x)
  BY Moves DEF Owner, TypeOK, Persons, Requests
<1>2. CASE Store(r)
  <2>1. key[r] \in Keys  BY <1>2 DEF Store, Places, InFlight, TypeOK
  <2>2. q = r  BY <1>2, <2>1 DEF Store, TypeOK
  <2>3. QED  BY <2>2, NamesAssumption DEF LikeOwn, Requests
<1>3. CASE HasStored(r)
  <2>1. key[r] \in Keys
    <3>1. phase[r] \in InFlight \cup Registered \/ (r \in members /\ r \in Signups)
      BY <1>3, NamesAssumption DEF HasStored, InFlight, TypeOK, Persons, Requests
    <3>2. key[r] # NoKey \/ (r \in members /\ r \in Signups)  BY <3>1 DEF Places
    <3>3. r \in members /\ r \in Signups => key[r] # NoKey  BY DEF Signatures
    <3>4. QED  BY <3>2, <3>3 DEF TypeOK
  <2>2. key'[r] = key[r]  BY <2>1, KeyAssumption, Moves
  <2>3. CASE q = objects[key[r]]
    <3>1. LikeOwn(r, q) /\ q \in Requests
      BY <1>3, <2>1, <2>3 DEF ImagesKept, LikeOwn, TypeOK
    <3>2. Together(r, q) => Together(r, q)'  BY Moves DEF Together
    <3>3. SameCode(Owner(r), Owner(q)) => SameCode(Owner(r), Owner(q))'
      BY <1>1, <3>1, CodesStay
    <3>4. QED  BY <1>1, <3>1, <3>2, <3>3 DEF LikeOwn
  <2>4. CASE q # objects[key[r]]
    <3>1. q \in Requests /\ phase[q] = "checked" /\ key[q] = key[r]
      BY <2>1, <2>2, <2>4, Uploads
    <3>2. CASE Owner(q) = Owner(r)
      BY <1>1, <3>1, <3>2, NamesAssumption DEF LikeOwn, Requests
    <3>3. CASE Owner(q) # Owner(r)
      <4>1. Together(r, q) /\ SameCode(Owner(r), Owner(q))  BY <1>3, <3>1, <3>3, Clash
      <4>2. Together(r, q)'  BY <4>1, Moves DEF Together
      <4>3. SameCode(Owner(r), Owner(q))'  BY <1>1, <3>1, <4>1, CodesStay
      <4>4. QED  BY <3>1, <4>2, <4>3, NamesAssumption DEF LikeOwn, Requests
    <3>4. QED  BY <3>2, <3>3
  <2>5. QED  BY <2>3, <2>4
<1>4. QED  BY <1>2, <1>3, Uploads

LEMMA StepLasts ==
    ASSUME TypeOK, Places, Signatures, Rivals, SignersMet, SuccessLasts, [Next]_vars,
           TypeOK', Places', Signatures'
    PROVE  SuccessLasts'
<1> SUFFICES ASSUME NEW r \in Requests, phase'[r] = "ok"
             PROVE  /\ Owner(r)' \in members'
                    /\ signature'[Owner(r)'] = key'[r] \/ HadTwin(r)'
  BY DEF SuccessLasts, HadTwin
<1>1. CASE r \in Signups
  BY <1>1 DEF Places, Signatures, Registered, Owner
<1>2. CASE r \notin Signups
  <2>1. r \in Signers /\ Owner(r) = target[r] /\ Owner(r)' = target[r] /\ target[r] \in Persons
    BY <1>2, Moves DEF Owner, Requests, TypeOK
  <2>2. key[r] # NoKey /\ key'[r] = key[r]
    <3>1. phase[r] = "ok" \/ SaveKey(r)  BY <2>1, Begins
    <3>2. key[r] # NoKey  BY <3>1 DEF SaveKey, Places, InFlight, Registered
    <3>3. QED  BY <3>2, Moves
  <2>3. target[r] \in Legacy /\ target[r] \in members /\ target[r] \in members'
    BY <2>1, <2>2, Moves DEF Places
  <2>4. CASE SaveKey(r)
    BY <2>1, <2>2, <2>3, <2>4 DEF SaveKey, TypeOK
  <2>5. CASE phase[r] = "ok" /\ HadTwin(r)
    <3>1. PICK q \in Requests \ {r} : Together(r, q) /\ Twins(r, q)  BY <2>5 DEF HadTwin
    <3>2. Owner(q)' = Owner(q) /\ Owner(q) \in Persons
      BY Moves DEF Owner, TypeOK, Persons, Requests
    <3>3. Twins(r, q)'  BY <2>1, <3>1, <3>2, CodesStay DEF Twins
    <3>4. Together(r, q)'  BY <3>1, Moves DEF Together
    <3>5. QED  BY <2>1, <2>3, <3>3, <3>4 DEF HadTwin
  <2>6. CASE phase[r] = "ok" /\ signature[target[r]] = key[r] /\ ~SaveKey(r)
    <3>1. CASE signature'[target[r]] = signature[target[r]]
      BY <2>1, <2>2, <2>3, <2>6, <3>1
    <3>2. CASE signature'[target[r]] # signature[target[r]]
      <4>1. target[r] \notin Signups  BY <2>3, NamesAssumption
      <4>2. PICK s \in Signers : SaveKey(s) /\ target[s] = target[r]
        BY <2>1, <3>2, <4>1, Uploads
      <4>3. Together(s, r) /\ s # r  BY <2>1, <2>6, <4>2 DEF SignersMet, SaveKey
      <4>4. Together(r, s)'  BY <2>1, <4>3, Moves DEF Rivals, Together, Requests
      <4>5. Twins(r, s)'
        BY <2>1, <4>2, Moves, NamesAssumption DEF Twins, Owner
      <4>6. QED  BY <2>1, <2>3, <4>3, <4>4, <4>5 DEF HadTwin, Requests
    <3>3. QED  BY <3>1, <3>2
  <2>7. QED  BY <2>1, <2>4, <2>5, <2>6, Begins DEF SuccessLasts
<1>3. QED  BY <1>1, <1>2

-----------------------------------------------------------------------------
Inv ==
    /\ TypeOK /\ Clean /\ Places /\ Signatures /\ Images /\ Rivals
    /\ SignupsMet /\ SignersMet /\ ImagesKept /\ TwinsWereTogether /\ SuccessLasts

LEMMA InitInv == Init => Inv
<1> HAVE Init
<1> USE NamesAssumption, KeyAssumption, ClockAssumption DEF Persons, Requests
<1>1. \A p \in Accepted : p \in Person /\ p # Blank  BY AcceptedClean
<1>2. TypeOK  BY <1>1 DEF Init, TypeOK, Seconds
<1>3. Clean  BY AcceptedClean DEF Init, Clean
<1>4. /\ \A r \in Requests : phase[r] = "idle" /\ key[r] = NoKey
      /\ \A p \in Persons : signature[p] = NoKey
      /\ \A k \in Keys : objects[k] = Nobody
      /\ members = Legacy /\ overlaps = {}
  BY DEF Init
<1>5. Places  BY <1>4 DEF Init, Places, InFlight, Registered
<1>6. Signatures /\ Images /\ Rivals
  BY <1>4 DEF Signatures, Signed, Images, Rivals, Together, Running, InFlight
<1>7. SignupsMet /\ SignersMet  BY <1>4 DEF SignupsMet, SignersMet
<1>8. ImagesKept  BY <1>4 DEF ImagesKept, HasStored, Registered
<1>9. TwinsWereTogether  BY <1>4 DEF Init, TwinsWereTogether
<1>10. SuccessLasts  BY <1>4 DEF SuccessLasts
<1>11. QED  BY <1>2, <1>3, <1>5, <1>6, <1>7, <1>8, <1>9, <1>10 DEF Inv

LEMMA StepInv == Inv /\ [Next]_vars => Inv'
<1> HAVE Inv /\ [Next]_vars
<1> USE DEF Inv
<1>1. TypeOK' /\ Clean' /\ Places' /\ Signatures'
  BY StepTyped, StepClean, StepPlaces, StepSignatures
<1>2. Images' /\ Rivals'  BY StepImages, StepRivals
<1>3. SignupsMet'  BY <1>1, StepSignupsMet
<1>4. SignersMet' /\ TwinsWereTogether'  BY <1>1, StepSignersMet, StepTwins
<1>5. ImagesKept'  BY <1>1, StepKept
<1>6. SuccessLasts'  BY <1>1, StepLasts
<1>7. QED  BY <1>1, <1>2, <1>3, <1>4, <1>5, <1>6

\* Type correctness (TypeOK).
THEOREM TypeCorrect == Spec => []TypeOK
<1>1. Inv => TypeOK  BY DEF Inv
<1>2. QED  BY <1>1, InitInv, StepInv, PTL DEF Spec

\* Two rows of one person come from sign-ups in flight together
\* (TwinsWereTogether).
THEOREM TwinsMeet == Spec => []TwinsWereTogether
<1>1. Inv => TwinsWereTogether  BY DEF Inv
<1>2. QED  BY <1>1, InitInv, StepInv, PTL DEF Spec

\* What is answered with success lasts, unless a twin was in flight
\* (SuccessLasts).
THEOREM SuccessesLast == Spec => []SuccessLasts
<1>1. Inv => SuccessLasts  BY DEF Inv
<1>2. QED  BY <1>1, InitInv, StepInv, PTL DEF Spec

\* The request whose key a row has is one of its person that stored its image.
LEMMA RowsKey ==
    ASSUME Inv, NEW p \in members, Signed(p)
    PROVE  \E r \in Requests : Owner(r) = p /\ key[r] = signature[p] /\ HasStored(r)
<1> USE DEF Inv
<1>1. CASE p \in Signups
  BY <1>1 DEF Signatures, HasStored, Owner, Requests
<1>2. CASE p \notin Signups
  <2>1. p \in Legacy  BY <1>2 DEF TypeOK, Persons
  <2>2. PICK s \in Signers : target[s] = p /\ phase[s] = "ok" /\ key[s] = signature[p]
    BY <2>1 DEF Signatures
  <2>3. QED  BY <2>2, NamesAssumption DEF HasStored, Registered, Owner, Requests
<1>3. QED  BY <1>1, <1>2

\* The image under the key of a row is of its person, or of a request with the
\* same codice fiscale in flight with it (SignatureIsOwn).
THEOREM SignaturesAreOwn == Spec => []SignatureIsOwn
<1>1. ASSUME Inv PROVE SignatureIsOwn
  BY <1>1, RowsKey DEF Inv, ImagesKept, LikeOwn, SignatureIsOwn
<1>2. QED  BY <1>1, InitInv, StepInv, PTL DEF Spec

\* An image no row refers to was left by a request that did not succeed, or whose
\* key a twin replaced (OrphansExplained).
THEOREM OrphansAreExplained == Spec => []OrphansExplained
<1>1. ASSUME Inv PROVE OrphansExplained
  <2> USE <1>1 DEF Inv
  <2>1. SUFFICES ASSUME NEW k \in Keys, NEW q \in Requests, objects[k] = q,
                        \A p \in members : signature[p] # k,
                        phase[q] \notin InFlight \cup {"failed", "typeError", "dropped"}
                 PROVE  HadTwin(q)
    BY DEF OrphansExplained, TypeOK
  <2>2. key[q] = k /\ phase[q] \in Registered
    BY <2>1, NamesAssumption, KeyAssumption DEF Images, Places, Requests
  <2>3. CASE q \in Signups
    BY <2>1, <2>2, <2>3 DEF Places, Signatures
  <2>4. CASE q \notin Signups
    BY <2>1, <2>2, <2>4 DEF Places, Registered, Requests, SuccessLasts
  <2>5. QED  BY <2>3, <2>4
<1>2. QED  BY <1>1, InitInv, StepInv, PTL DEF Spec

-----------------------------------------------------------------------------
(* The abstract register.                                                  *)

\* Two members never have one mailbox, so that one that is free in the table is
\* free in the register.
LEMMA CreateRegisters ==
    ASSUME Inv, NEW r \in Signups, Create(r)
    PROVE  \E e \in Emails, k \in Keys : r \in Persons /\ Register!Register(r, e, k)
<1> USE NamesAssumption DEF Inv
<1>1. /\ phase[r] = "decoded" /\ r \notin members /\ r \in Persons /\ r \in Requests
      /\ person[r] # Blank /\ key[r] \in Keys
  BY DEF Create, Places, Registered, InFlight, Owner, TypeOK, Persons, Requests
<1>2. UNCHANGED <<person, objects>> /\ members' = members \cup {r}
      /\ signature' = [signature EXCEPT ![r] = key[r]]
  BY DEF Create
<1>3. person[r].email.of \in Emails  BY <1>1 DEF Clean, Person, Texts
<1>4. PICK e \in Emails, k \in Keys : e = person[r].email.of /\ k = key[r]  BY <1>1, <1>3
<1>5. ASSUME NEW q \in members PROVE person[q].email.of # e
  <2>1. q \in Persons /\ person[q] # Blank  BY DEF TypeOK
  <2>2. person[q].email # person[r].email  BY DEF Create, MailFree
  <2>3. QED  BY <1>1, <1>4, <2>1, <2>2, SameText DEF SameMail
<1>6. ~Register!Row(r)  BY <1>1 DEF Register!Row
<1>7. Register!Free(e)  BY <1>3, <1>4, <1>5 DEF Register!Free
<1>8. objects[k] # Nobody
  BY <1>1, <1>4 DEF ImagesKept, LikeOwn, HasStored
<1>9. [p \in Persons |-> IF p \in members' THEN person'[p].email.of ELSE NoText]
        = [[p \in Persons |-> IF p \in members THEN person[p].email.of ELSE NoText] EXCEPT ![r] = e]
  BY <1>1, <1>2, <1>4
<1>10. Register!Register(r, e, k)
  BY <1>1, <1>2, <1>4, <1>6, <1>7, <1>8, <1>9 DEF Register!Register
<1>11. QED  BY <1>1, <1>10

LEMMA SaveSigns ==
    ASSUME Inv, NEW s \in Signers, SaveKey(s)
    PROVE  \E p \in Persons, k \in Keys : Register!Sign(p, k)
<1> USE NamesAssumption DEF Inv
<1>1. s \in Requests /\ key[s] \in Keys /\ target[s] \in Persons
  BY DEF SaveKey, Places, InFlight, TypeOK, Requests
<1>2. PICK p \in Persons, k \in Keys : p = target[s] /\ k = key[s]  BY <1>1
<1>3. p \in members  BY <1>1, <1>2, KeyAssumption DEF Places
<1>4. person[p] \in Person  BY <1>3 DEF TypeOK
<1>5. Register!Row(p)  BY <1>3, <1>4 DEF Register!Row, Person, Texts
<1>6. objects[k] # Nobody  BY <1>1, <1>2 DEF SaveKey, ImagesKept, LikeOwn, HasStored
<1>7. UNCHANGED <<person, members, objects>> /\ signature' = [signature EXCEPT ![p] = k]
  BY <1>2 DEF SaveKey
<1>8. Register!Sign(p, k)  BY <1>5, <1>6, <1>7 DEF Register!Sign
<1>9. QED  BY <1>8

\* Storing an image, or failing to.
LEMMA UploadStores ==
    ASSUME Inv, NEW r \in Requests, Store(r) \/ UploadFails(r)
    PROVE  \/ \E k \in Keys : Register!Store(k)
           \/ UNCHANGED <<person, members, signature, objects>>
<1> USE NamesAssumption DEF Inv
<1>1. key[r] \in Keys /\ r # Nobody
  BY DEF Store, UploadFails, Places, InFlight, TypeOK, Requests
<1>2. UNCHANGED <<person, members, signature>>  BY DEF Store, UploadFails
<1>3. CASE UNCHANGED objects  BY <1>2, <1>3
<1>4. CASE objects' = [objects EXCEPT ![key[r]] = r]
  <2>1. PICK k \in Keys : k = key[r]  BY <1>1
  <2>2. {x \in Keys : objects'[x] # Nobody} = {x \in Keys : objects[x] # Nobody} \cup {k}
    BY <1>1, <1>4, <2>1 DEF TypeOK
  <2>3. Register!Store(k)  BY <1>2, <2>2 DEF Register!Store
  <2>4. QED  BY <2>3
<1>5. QED  BY <1>3, <1>4 DEF Store, UploadFails

LEMMA StepRefines ==
    ASSUME Inv, [Next]_vars
    PROVE  [Register!Next]_(Register!vars)
<1>1. ASSUME NEW r \in Signups, Create(r) PROVE Register!Next
  BY <1>1, CreateRegisters DEF Register!Next
<1>2. ASSUME NEW s \in Signers, SaveKey(s) PROVE Register!Next
  BY <1>2, SaveSigns DEF Register!Next
<1>3. ASSUME NEW r \in Requests, Store(r) \/ UploadFails(r)
      PROVE  Register!Next \/ UNCHANGED Register!vars
  <2>1. CASE \E k \in Keys : Register!Store(k)
    BY <2>1 DEF Register!Next
  <2>2. CASE UNCHANGED <<person, members, signature, objects>>
    BY <2>2 DEF Register!vars
  <2>3. QED  BY <1>3, <2>1, <2>2, UploadStores
<1>4. ASSUME NEW r \in Signups, FindExisting(r) PROVE UNCHANGED Register!vars
  <2>1. r \notin members  BY <1>4 DEF Inv, FindExisting, Begin, Places, Registered
  <2>2. \A p \in members : person'[p] = person[p]
    BY <2>1, <1>4 DEF FindExisting, Inv, TypeOK
  <2>3. UNCHANGED <<members, signature, objects>>  BY <1>4 DEF FindExisting
  <2>4. QED  BY <2>2, <2>3 DEF Register!vars
<1>5. ASSUME UNCHANGED <<person, members, signature, objects>> PROVE UNCHANGED Register!vars
  BY <1>5 DEF Register!vars
<1>6. QED
  BY <1>1, <1>2, <1>3, <1>4, <1>5
  DEF Next, Continue, ContinueSigning, Upload, Requests, vars, Refuse, Decode, CreateFails,
      Welcome, Login, FindSigner, SaveFails, Tick, Crash

LEMMA InitRefines == ASSUME Init PROVE Register!Init
<1>1. ASSUME NEW p \in Legacy
      PROVE  person[p].email \in Texts(Emails) /\ person[p].email.of \in Emails
  BY <1>1, AcceptedClean, NamesAssumption DEF Init, Persons, Person, Texts
<1>2. \A p, q \in Legacy : person[p].email.of = person[q].email.of => p = q
  BY DEF Init, SameMail
<1>3. QED  BY <1>1, <1>2, NamesAssumption DEF Init, Register!Init, Register!Row, Persons

\* Every step of the handlers is one of the abstract register, or none
\* (RegisterRefined).
THEOREM ImplementsRegister == Spec => RegisterRefined
<1>1. Init => Register!Init  BY InitRefines
<1>2. Inv /\ [Next]_vars => [Register!Next]_(Register!vars)  BY StepRefines
<1>3. QED  BY <1>1, <1>2, InitInv, StepInv, PTL DEF Spec, RegisterRefined, Register!Spec

-----------------------------------------------------------------------------
(* One row of each mailbox.                                                *)

OneRowPerMailbox == \A p, q \in members : SameMail(p, q) => p = q

LEMMA StepMailboxes ==
    ASSUME Inv, OneRowPerMailbox, [Next]_vars
    PROVE  OneRowPerMailbox'
<1> USE NamesAssumption DEF OneRowPerMailbox
<1>1. ASSUME NEW r \in Signups, Create(r) PROVE OneRowPerMailbox'
  <2>1. members' = members \cup {r} /\ person' = person /\ r \in Persons /\ person[r] # Blank
    BY <1>1 DEF Create, Inv, Places, InFlight, Owner, Persons, Requests
  <2>2. ASSUME NEW q \in members PROVE ~SameMail(q, r) /\ ~SameMail(r, q)
    <3>1. q \in Persons /\ person[q] # Blank  BY DEF Inv, TypeOK
    <3>2. person[q].email # person[r].email  BY <1>1 DEF Create, MailFree
    <3>3. ~SameMail(q, r)  BY <2>1, <3>1, <3>2, SameText DEF Inv
    <3>4. QED  BY <3>3 DEF SameMail
  <2>3. QED  BY <2>1, <2>2 DEF SameMail
<1>2. ASSUME NEW r \in Signups, FindExisting(r) PROVE OneRowPerMailbox'
  <2>1. r \notin members  BY <1>2 DEF Inv, FindExisting, Begin, Places, Registered
  <2>2. members' = members /\ \A p \in members : person'[p] = person[p]
    BY <2>1, <1>2 DEF FindExisting, Inv, TypeOK
  <2>3. QED  BY <2>2 DEF SameMail
<1>3. ASSUME UNCHANGED <<person, members>> PROVE OneRowPerMailbox'
  BY <1>3 DEF SameMail
<1>4. QED
  BY <1>1, <1>2, <1>3
  DEF Next, Continue, ContinueSigning, Upload, vars, Refuse, Store, UploadFails, Decode,
      CreateFails, Welcome, Login, FindSigner, SaveKey, SaveFails, Tick, Crash

\* However an address is typed, and however sign-ups interleave, a mailbox has one row: the
\* unique index compares texts, and the DTO writes each address in one way
\* (auth.service.ts:277-297, member.dto.ts:57-61).
THEOREM MailboxesHaveOneRow == Spec => []OneRowPerMailbox
<1>1. Init => OneRowPerMailbox  BY DEF Init, OneRowPerMailbox
<1>2. Inv /\ OneRowPerMailbox /\ [Next]_vars => OneRowPerMailbox'  BY StepMailboxes
<1>3. QED  BY <1>1, <1>2, InitInv, StepInv, PTL DEF Spec
================================================================================
