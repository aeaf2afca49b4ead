---------------------------- MODULE Registration ----------------------------
(***************************************************************************)
(* The two ways a signature gets into the Member table: AuthService.signup *)
(* registers a new member, MemberService.addSignature signs for a member   *)
(* that registered before signatures existed.  Both store the image in R2  *)
(* under a key made of the current second and the codice fiscale, and then *)
(* write the row.  One action is one awaited call and the code up to the   *)
(* next; a call to R2 that fails may have stored the image.  The body of a *)
(* sign-up is rewritten and validated first, by the global ValidationPipe. *)
(***************************************************************************)
EXTENDS Integers

CONSTANTS
    Signups,        \* requests to register; each is for a person of its own
    Signers,        \* requests to add a signature
    Legacy,         \* members without a signature from the beginning
    Emails, Codes, Phones,
    Forms,          \* ways to write one and the same value
    Plain,          \* the way the transforms of the DTO write it
    NoCode,         \* no codice fiscale
    NoText,         \* nothing was sent yet
    Malformed,      \* a field that is missing or not valid
    Broken,         \* a field the transform itself throws on
    NoKey,          \* signatureR2Key is the empty string
    Nobody,         \* no image under the key
    LastSecond      \* bound: the clock stops there

\* What a client may write for one of the values, spaces and case included.
Texts(S) == [of : S, form : Forms]

ASSUME NamesAssumption ==
    /\ Plain \in Forms
    /\ {NoCode, NoText, Malformed, Broken} \cap (Texts(Emails) \cup Texts(Codes) \cup Texts(Phones)) = {}
    /\ NoCode \notin {NoText, Malformed, Broken} /\ Broken # Malformed
    /\ Signups \cap Signers = {} /\ Legacy \cap (Signups \cup Signers) = {}
    /\ NoText \notin Emails
    /\ Nobody \notin Signups \cup Signers
    /\ Texts(Codes) \cap (Signups \cup Signers) = {}
ASSUME ClockAssumption == LastSecond \in Nat

Persons == Signups \cup Legacy
Requests == Signups \cup Signers
Seconds == 0 .. LastSecond
\* <folder>/<second>_<codice fiscale, or else a fresh uuid>; a request stands
\* for the uuid it drew.
Keys == [second : Seconds, tag : Texts(Codes) \cup Requests]

ASSUME KeyAssumption == NoKey \notin Keys

VARIABLES
    now,        \* the current second
    person,     \* email, codice fiscale and phone number of each person
                \* that has a row or a sign-up in flight
    target,     \* whom a signer signs for
    members,    \* persons that have a row
    signature,  \* Member.signatureR2Key
    objects,    \* the request whose image is stored under each key
    key,        \* the key each request made
    phase,      \* where each request stands
    overlaps    \* history: pairs of requests that were in flight together

vars == <<now, person, target, members, signature, objects, key, phase, overlaps>>

InFlight == {"checked", "stored", "decoded", "created", "mailed"}
\* "unmailed", "noToken": 500 although the member is registered.
\* "invalid": 400; "broken": 500, the body was never validated.
Ended == {"invalid", "broken", "conflict", "notFound", "alreadySigned", "failed", "typeError",
          "unmailed", "noToken", "ok", "dropped"}
Running == {r \in Requests : phase[r] \in InFlight}

Person == [email : Texts(Emails), code : Texts(Codes) \cup {NoCode}, phone : Texts(Phones)]
Blank == [email |-> NoText, code |-> NoCode, phone |-> NoText]

TypeOK ==
    /\ now \in Seconds
    /\ person \in [Persons -> Person \cup {Blank}]
    /\ target \in [Signers -> Persons]
    /\ members \subseteq {p \in Persons : person[p] # Blank}
    /\ signature \in [Persons -> Keys \cup {NoKey}]
    /\ objects \in [Keys -> Requests \cup {Nobody}]
    /\ key \in [Requests -> Keys \cup {NoKey}]
    /\ phase \in [Requests -> {"idle"} \cup InFlight \cup Ended]
    /\ overlaps \subseteq Requests \X Requests

\* The same person, however email, code and number were written.
SameMail(p, q) == person[p].email.of = person[q].email.of
SameCode(p, q) ==
    /\ NoCode \notin {person[p].code, person[q].code}
    /\ person[p].code.of = person[q].code.of
SamePhone(p, q) == person[p].phone.of = person[q].phone.of

-----------------------------------------------------------------------------
(* What the ValidationPipe lets through.  All transforms run before the     *)
(* first check: one that throws is a 500 for what would have been a 400.   *)

\* rest: every field the model leaves out is valid.
Bodies == [email : Texts(Emails) \cup {Malformed, Broken},
           code : Texts(Codes) \cup {NoCode, Malformed},
           phone : Texts(Phones) \cup {Malformed, Broken},
           rest : BOOLEAN]

Throws(b) == Broken \in {b.email, b.phone}
ValidPhone(b) == b.phone # Malformed
ValidCode(b) == b.code # Malformed
Acceptable(b) == ~Throws(b) /\ ValidPhone(b) /\ ValidCode(b) /\ b.email # Malformed /\ b.rest

\* Spaces and upper case of an email, lower case of a code, the many ways to
\* write a phone number: each value has one text that is stored and compared.
Normal(t) == [t EXCEPT !.form = Plain]
\* Mutant: an email is stored as it was typed.
CleanedButMail(b) == [email |-> b.email,
                      code |-> IF b.code = NoCode THEN NoCode ELSE Normal(b.code),
                      phone |-> Normal(b.phone)]
Cleaned(b) == [email |-> Normal(b.email),
               code |-> IF b.code = NoCode THEN NoCode ELSE Normal(b.code),
               phone |-> Normal(b.phone)]

\* What reaches the handler, and the answers to what does not.
Accepted == {Cleaned(b) : b \in {x \in Bodies : Acceptable(x)}}
Refusals == {IF Throws(b) THEN "broken" ELSE "invalid" : b \in {x \in Bodies : ~Acceptable(x)}}

-----------------------------------------------------------------------------
Init ==
    /\ now = 0
    /\ person \in [Persons -> Accepted \cup {Blank}]
    /\ \A p \in Persons : person[p] = Blank <=> p \in Signups
    /\ target \in [Signers -> Persons]
    /\ members = Legacy
    /\ \A p, q \in Legacy : SameMail(p, q) \/ SameCode(p, q) \/ SamePhone(p, q) => p = q
    /\ signature = [p \in Persons |-> NoKey]
    /\ objects = [k \in Keys |-> Nobody]
    /\ key = [r \in Requests |-> NoKey]
    /\ phase = [r \in Requests |-> "idle"]
    /\ overlaps = {}

Goto(r, p) == phase' = [phase EXCEPT ![r] = p]
Begin(r) ==
    /\ phase[r] = "idle"
    /\ overlaps' = overlaps \cup ({r} \X Running) \cup (Running \X {r})

Tick ==
    /\ now < LastSecond
    /\ now' = now + 1
    /\ UNCHANGED <<person, target, members, signature, objects, key, phase, overlaps>>

-----------------------------------------------------------------------------
(* uploadBase64Signature, shared by both handlers.                         *)

Owner(r) == IF r \in Signups THEN r ELSE target[r]

\* Mutant: the key is the second alone.
KeyOfSecond(r, c) == [second |-> now, tag |-> CHOOSE t \in Texts(Codes) : TRUE]
\* The key is made before the image is converted, with no call in between.
KeyOf(r, c) == [second |-> now, tag |-> IF c = NoCode THEN r ELSE c]

Store(r) ==
    /\ phase[r] = "checked"
    /\ objects' = [objects EXCEPT ![key[r]] = r]
    /\ Goto(r, "stored")
    /\ UNCHANGED <<now, person, target, members, signature, key, overlaps>>

\* The image cannot be converted, or R2 rejects and may have stored it.
UploadFails(r) ==
    /\ phase[r] = "checked"
    /\ objects' \in {objects, [objects EXCEPT ![key[r]] = r]}
    /\ Goto(r, "failed")
    /\ UNCHANGED <<now, person, target, members, signature, key, overlaps>>

-----------------------------------------------------------------------------
(* signup.                                                                 *)

\* A body that is turned away before the handler runs.
Refuse(r) == \E answer \in Refusals :
    /\ phase[r] = "idle"
    /\ Goto(r, answer)
    /\ UNCHANGED <<now, person, target, members, signature, objects, key, overlaps>>

HasCode(q, p) == p.code # NoCode /\ person[q].code = p.code
\* Mutant: the phone number is not looked for.
KnownByMailOrCode(p) == \E q \in members : person[q].email = p.email \/ HasCode(q, p)
\* Texts are compared.  A missing codice fiscale is looked up as "ignored",
\* which no row has.
Known(p) == \E q \in members :
    person[q].email = p.email \/ HasCode(q, p) \/ person[q].phone = p.phone

\* Validation touches nothing that is shared: it is one step with the query.
FindExisting(r) == \E p \in Accepted :
    /\ Begin(r)
    /\ \/ Known(p) /\ Goto(r, "conflict") /\ UNCHANGED <<person, key>>
       \/ /\ ~Known(p)
          /\ person' = [person EXCEPT ![r] = p]
          /\ key' = [key EXCEPT ![r] = KeyOf(r, p.code)]
          /\ Goto(r, "checked")
       \/ Goto(r, "failed") /\ UNCHANGED <<person, key>>
    /\ UNCHANGED <<now, target, members, signature, objects>>

\* The password is hashed and the codice fiscale decoded.  Where there is none,
\* or the decoder throws, the data of the row cannot be put together: 500.
Decode(r) ==
    /\ phase[r] = "stored"
    /\ \/ person[r].code # NoCode /\ Goto(r, "decoded")
       \/ Goto(r, "typeError")
    /\ UNCHANGED <<now, person, target, members, signature, objects, key, overlaps>>

\* Only the email column has a unique index.
MailFree(r) == \A q \in members : person[q].email # person[r].email

Create(r) ==
    /\ phase[r] = "decoded"
    /\ MailFree(r)
    /\ members' = members \cup {r}
    /\ signature' = [signature EXCEPT ![r] = key[r]]
    /\ Goto(r, "created")
    /\ UNCHANGED <<now, person, target, objects, key, overlaps>>

\* The email is taken by now, or the call rejects: 500, the image stays.
CreateFails(r) ==
    /\ phase[r] = "decoded"
    /\ Goto(r, "failed")
    /\ UNCHANGED <<now, person, target, members, signature, objects, key, overlaps>>

\* The template is read, the mail is handed over and not waited for.
Welcome(r) ==
    /\ phase[r] = "created"
    /\ \/ Goto(r, "mailed")
       \/ Goto(r, "unmailed")
    /\ UNCHANGED <<now, person, target, members, signature, objects, key, overlaps>>

Login(r) ==
    /\ phase[r] = "mailed"
    /\ \/ Goto(r, "ok")
       \/ Goto(r, "noToken")
    /\ UNCHANGED <<now, person, target, members, signature, objects, key, overlaps>>

-----------------------------------------------------------------------------
(* addSignature.                                                           *)

\* Mutant: that a signature is there already is not looked at.
NeverSigned(p) == FALSE
Signed(p) == signature[p] # NoKey

FindSigner(s) ==
    LET p == target[s] IN
    /\ Begin(s)
    /\ \/ p \notin members /\ Goto(s, "notFound") /\ UNCHANGED key
       \/ p \in members /\ Signed(p) /\ Goto(s, "alreadySigned") /\ UNCHANGED key
       \/ /\ p \in members /\ ~Signed(p)
          /\ Goto(s, "checked")
          /\ key' = [key EXCEPT ![s] = KeyOf(s, person[p].code)]
       \/ Goto(s, "failed") /\ UNCHANGED key
    /\ UNCHANGED <<now, person, target, members, signature, objects>>

\* The row is written whatever its key is by now.
SaveKey(s) ==
    /\ phase[s] = "stored"
    /\ signature' = [signature EXCEPT ![target[s]] = key[s]]
    /\ Goto(s, "ok")
    /\ UNCHANGED <<now, person, target, members, objects, key, overlaps>>

SaveFails(s) ==
    /\ phase[s] = "stored"
    /\ Goto(s, "failed")
    /\ UNCHANGED <<now, person, target, members, signature, objects, key, overlaps>>

-----------------------------------------------------------------------------
\* The process restarts; database and object store keep what was written.
Crash ==
    /\ Running # {}
    /\ phase' = [r \in Requests |-> IF r \in Running THEN "dropped" ELSE phase[r]]
    /\ UNCHANGED <<now, person, target, members, signature, objects, key, overlaps>>

Upload(r) == Store(r) \/ UploadFails(r)
Continue(r) == Upload(r) \/ Decode(r) \/ Create(r) \/ CreateFails(r) \/ Welcome(r) \/ Login(r)
ContinueSigning(s) == Upload(s) \/ SaveKey(s) \/ SaveFails(s)

Next ==
    \/ \E r \in Signups : Refuse(r) \/ FindExisting(r) \/ Continue(r)
    \/ \E s \in Signers : FindSigner(s) \/ ContinueSigning(s)
    \/ Tick \/ Crash

Spec == Init /\ [][Next]_vars

-----------------------------------------------------------------------------
(* Properties.                                                             *)

Together(r, q) == <<r, q>> \in overlaps
\* A request that could write the row or the object of the same person.
Twins(r, q) == Owner(r) = Owner(q) \/ SameCode(Owner(r), Owner(q))
HadTwin(r) == \E q \in Requests \ {r} : Together(r, q) /\ Twins(r, q)

\* The image under the key of a row is one a request of that person stored, or
\* a request with the same codice fiscale that was in flight with it: no other
\* upload ever lands on the key (auth.service.ts:86-91).
SignatureIsOwn ==
    \A p \in members : Signed(p) =>
        LET q == objects[signature[p]] IN
        /\ q # Nobody
        /\ \/ Owner(q) = p
           \/ \E r \in Requests : Owner(r) = p /\ Together(r, q) /\ SameCode(p, Owner(q))

\* Two rows with one codice fiscale or phone number, however they were typed, come
\* only from sign-ups that were in flight together: any other sees the row and
\* answers 409 (auth.service.ts:241-258, member.dto.ts:57-80).
TwinsWereTogether ==
    \A p, q \in members : p # q /\ (SameCode(p, q) \/ SamePhone(p, q)) => Together(p, q)

\* A request answered with success is lasting: its person is a member and the
\* row has its key, unless another request for the same person was in flight
\* with it (auth.service.ts:277-324, member.service.ts:84-92).
SuccessLasts ==
    \A r \in Requests : phase[r] = "ok" =>
        /\ Owner(r) \in members
        /\ signature[Owner(r)] = key[r] \/ HadTwin(r)

\* An image no row refers to was left by a request that is still at work, that
\* ended without success, or whose key a twin replaced: a refusal by the first
\* query leaves nothing behind (auth.service.ts:251-263, member.service.ts:74-87).
OrphansExplained ==
    \A k \in Keys : objects[k] # Nobody /\ (\A p \in members : signature[p] # k) =>
        \/ phase[objects[k]] \in InFlight \cup {"failed", "typeError", "dropped"}
        \/ HadTwin(objects[k])

\* "Codice Fiscale, can be null if birthCountry != IT" (member.dto.ts:71): for
\* want of a codice fiscale alone no sign-up fails.
CodeMayBeMissing ==
    \A r \in Signups : phase[r] = "typeError" => person[r].code # NoCode

\* The handlers implement the abstract register of members, in which a mailbox
\* has one row however its address was typed (auth.service.ts:238-297,
\* member.service.ts:65-93, member.dto.ts:57-61).
Register == INSTANCE MemberRegister WITH
    mailbox <- [p \in Persons |-> IF p \in members THEN person[p].email.of ELSE NoText],
    NoMail <- NoText,
    stored <- {k \in Keys : objects[k] # Nobody}
RegisterRefined == Register!Spec
=============================================================================
