---------------------------- MODULE PasswordReset ----------------------------
(***************************************************************************)
(* AuthService.forgotPassword and AuthService.resetPassword.  A link is a  *)
(* JSON web token for an email; its text is determined by the email and    *)
(* the second it was signed in, and the row of the member keeps the last   *)
(* one.  One action is one awaited call and the code up to the next.       *)
(***************************************************************************)
EXTENDS Integers

CONSTANTS
    Asks,           \* forgot-password requests
    Resets,         \* reset-password requests
    Emails,         \* addresses a request may name
    Members,        \* addresses that have a row
    Horizon,        \* bound: the last second the model looks at
    Spam,           \* a link younger than this is not followed by another
    Life,           \* a link is valid for so long
    NoLink,         \* resetPwdJwt is null, or a request has no link yet
    BadLink,        \* a token that cannot be verified
    Signup          \* set the password when the member registered

ASSUME MembersAssumption == Members \subseteq Emails
ASSUME TimeAssumption == Horizon \in Nat /\ Spam \in Nat /\ Life \in Nat /\ Spam <= Life
ASSUME RequestsAssumption == Asks \cap Resets = {} /\ Signup \notin Resets

Seconds == 0 .. Horizon
Links == [email : Emails, iat : Seconds]
Requests == Asks \cup Resets

ASSUME LinksAssumption == NoLink \notin Links /\ BadLink \notin Links /\ NoLink # BadLink

VARIABLES
    now,        \* the current second
    stored,     \* Member.resetPwdJwt
    password,   \* Member.password, told apart by who set it
    inbox,      \* links that reached their member by mail
    email,      \* the address in the body of each forgot-password request
    read,       \* the stored link as the request read it
    link,       \* the link an ask signed, or a reset was sent
    phase,      \* where each request stands
    overlaps    \* history: pairs of requests that were in flight together

vars == <<now, stored, password, inbox, email, read, link, phase, overlaps>>

InFlight == {"found", "signing", "signed", "saved", "verified", "checked"}
\* "quiet": 200, no new link; "mailed": 200; "unmailed": 500, the link is stored.
Ended == {"unknown", "quiet", "mailed", "unmailed", "failed", "expired", "refused",
          "changed", "dropped"}
Running == {r \in Requests : phase[r] \in InFlight}

TypeOK ==
    /\ now \in Seconds
    /\ stored \in [Members -> Links \cup {NoLink}]
    /\ password \in [Members -> Resets \cup {Signup}]
    /\ inbox \subseteq Links
    /\ email \in [Asks -> Emails]
    /\ read \in [Asks -> Links \cup {NoLink}]
    /\ link \in [Requests -> Links \cup {NoLink, BadLink}]
    /\ phase \in [Requests -> {"idle"} \cup InFlight \cup Ended]
    /\ overlaps \subseteq Requests \X Requests

Init ==
    /\ now = 0
    /\ stored = [m \in Members |-> NoLink]
    /\ password = [m \in Members |-> Signup]
    /\ inbox = {}
    /\ email \in [Asks -> Emails]
    /\ read = [a \in Asks |-> NoLink]
    /\ link = [r \in Requests |-> NoLink]
    /\ phase = [r \in Requests |-> "idle"]
    /\ overlaps = {}

Goto(r, p) == phase' = [phase EXCEPT ![r] = p]
Begin(r) ==
    /\ phase[r] = "idle"
    /\ overlaps' = overlaps \cup ({r} \X Running) \cup (Running \X {r})

Tick ==
    /\ now < Horizon
    /\ now' = now + 1
    /\ UNCHANGED <<stored, password, inbox, email, read, link, phase, overlaps>>

Expired(l) == now >= l.iat + Life

-----------------------------------------------------------------------------
(* forgotPassword.                                                         *)

FindMember(a) ==
    /\ Begin(a)
    /\ \/ email[a] \notin Members /\ Goto(a, "unknown") /\ UNCHANGED read
       \/ /\ email[a] \in Members
          /\ Goto(a, "found")
          /\ read' = [read EXCEPT ![a] = stored[email[a]]]
       \/ Goto(a, "failed") /\ UNCHANGED read
    /\ UNCHANGED <<now, stored, password, inbox, email, link>>

\* Mutant: the age of the link is not looked at.
NeverRecent(l) == FALSE
\* Mutant: one second too long.
RecentUntilEnd(l) == l # NoLink /\ ~Expired(l) /\ now <= l.iat + Spam
Recent(l) == l # NoLink /\ ~Expired(l) /\ now < l.iat + Spam

\* The stored link is verified.
Verify(a) ==
    /\ phase[a] = "found"
    /\ Goto(a, IF Recent(read[a]) THEN "quiet" ELSE "signing")
    /\ UNCHANGED <<now, stored, password, inbox, email, read, link, overlaps>>

FreshLink(a) == [email |-> email[a], iat |-> now]

Sign(a) ==
    /\ phase[a] = "signing"
    /\ link' = [link EXCEPT ![a] = FreshLink(a)]
    /\ Goto(a, "signed")
    /\ UNCHANGED <<now, stored, password, inbox, email, read, overlaps>>

\* Mutant: the link is not written to the row.
StoredKept(a) == stored
Replaced(a) == [stored EXCEPT ![email[a]] = link[a]]

SaveLink(a) ==
    /\ phase[a] = "signed"
    /\ stored' = Replaced(a)
    /\ Goto(a, "saved")
    /\ UNCHANGED <<now, password, inbox, email, read, link, overlaps>>

\* Verifying, signing or saving rejects: 500, nothing is written.
AskFails(a) ==
    /\ phase[a] \in {"found", "signing", "signed"}
    /\ Goto(a, "failed")
    /\ UNCHANGED <<now, stored, password, inbox, email, read, link, overlaps>>

\* The template is read and the mail handed over; nobody waits for it, and it
\* may never arrive.
SendMail(a) ==
    /\ phase[a] = "saved"
    /\ inbox' \in {inbox, inbox \cup {link[a]}}
    /\ Goto(a, "mailed")
    /\ UNCHANGED <<now, stored, password, email, read, link, overlaps>>

\* The template cannot be read: 500, although the link is stored.
TemplateFails(a) ==
    /\ phase[a] = "saved"
    /\ Goto(a, "unmailed")
    /\ UNCHANGED <<now, stored, password, inbox, email, read, link, overlaps>>

-----------------------------------------------------------------------------
(* resetPassword.                                                          *)

\* The token is verified: 401 once it is expired, 500 if it is not one.
VerifyLink(r, l) ==
    /\ Begin(r)
    /\ l \in inbox \cup {BadLink}
    /\ link' = [link EXCEPT ![r] = l]
    /\ \/ l = BadLink /\ Goto(r, "failed")
       \/ l # BadLink /\ Expired(l) /\ Goto(r, "expired")
       \/ l # BadLink /\ ~Expired(l) /\ Goto(r, "verified")
    /\ UNCHANGED <<now, stored, password, inbox, email, read>>

\* Mutant: any link that was signed for the member is accepted.
SignedForMember(r) == link[r].email \in Members
Current(r) == link[r].email \in Members /\ stored[link[r].email] = link[r]

CompareLink(r) ==
    /\ phase[r] = "verified"
    /\ Goto(r, IF Current(r) THEN "checked" ELSE "refused")
    /\ UNCHANGED <<now, stored, password, inbox, email, read, link, overlaps>>

\* The password is hashed and written; the link stays in the row.
ChangePassword(r) ==
    /\ phase[r] = "checked"
    /\ password' = [password EXCEPT ![link[r].email] = r]
    /\ Goto(r, "changed")
    /\ UNCHANGED <<now, stored, inbox, email, read, link, overlaps>>

\* Mutant: an update that fails is tried again from the comparison.
ResetRetried(r) ==
    /\ phase[r] \in {"verified", "checked"}
    /\ Goto(r, "verified")
    /\ UNCHANGED <<now, stored, password, inbox, email, read, link, overlaps>>
ResetFails(r) ==
    /\ phase[r] \in {"verified", "checked"}
    /\ Goto(r, "failed")
    /\ UNCHANGED <<now, stored, password, inbox, email, read, link, overlaps>>

-----------------------------------------------------------------------------
\* The process restarts; the rows stay.
Crash ==
    /\ Running # {}
    /\ phase' = [r \in Requests |-> IF r \in Running THEN "dropped" ELSE phase[r]]
    /\ UNCHANGED <<now, stored, password, inbox, email, read, link, overlaps>>

Ask(a) ==
    Verify(a) \/ Sign(a) \/ SaveLink(a) \/ AskFails(a) \/ SendMail(a) \/ TemplateFails(a)
Reset(r) == CompareLink(r) \/ ChangePassword(r) \/ ResetFails(r)

Next ==
    \/ \E a \in Asks : FindMember(a) \/ Ask(a)
    \/ \E r \in Resets : Reset(r) \/ \E l \in Links \cup {BadLink} : VerifyLink(r, l)
    \/ Tick \/ Crash

Spec == Init /\ [][Next]_vars

\* An awaited call settles sooner or later; nobody has to send a request.
FairSpec ==
    /\ Spec
    /\ \A a \in Asks : WF_vars(Ask(a))
    /\ \A r \in Resets : WF_vars(Reset(r))

-----------------------------------------------------------------------------
(* Properties.                                                             *)

Together(r, q) == <<r, q>> \in overlaps
HadRival(a) == \E b \in Asks \ {a} : Together(a, b) /\ email[a] = email[b]

\* A member is not sent a second link less than Spam seconds after a first one,
\* unless the request for the first had a rival; where both were signed in the
\* same second, either may be the first (auth.service.ts:116-135).
NoSpam ==
    \A a, b \in Asks :
        /\ phase[a] = "mailed" /\ phase[b] = "mailed" /\ a # b
        /\ email[a] = email[b] /\ link[a].iat <= link[b].iat
        => \/ link[b].iat >= link[a].iat + Spam
           \/ HadRival(a)
           \/ link[a] = link[b] /\ HadRival(b)

\* A request is answered 200 without a mail only while a link of the same member,
\* signed and stored by another request, is younger than Spam: where the mail of
\* that one could not be made, or was lost to a restart, the member gets nothing,
\* but for no longer than that (auth.service.ts:129-135, 166-196).
SilenceIsShort ==
    [][\A a \in Asks : phase[a] = "found" /\ phase'[a] = "quiet" =>
          \E b \in Asks \ {a} :
              /\ email[b] = email[a] /\ link[b] # NoLink /\ now < link[b].iat + Spam
              /\ phase[b] \in {"saved", "mailed", "unmailed", "dropped"}]_vars

\* A link that was mailed stays the one in the row until another is signed at
\* least Spam seconds later, unless its request had a rival: nobody's link is
\* made useless by asking again too soon (auth.service.ts:129-159).
LinkLasts ==
    \A a \in Asks : phase[a] = "mailed" /\ ~HadRival(a) =>
        LET current == stored[email[a]] IN
        current # NoLink /\ (current = link[a] \/ current.iat >= link[a].iat + Spam)

\* A password is about to be written for a link that is still the one in the
\* row, or that a request replaced while this one was hashing
\* (auth.service.ts:213-231).
ResetByCurrentLink ==
    \A r \in Resets : phase[r] = "checked" =>
        \/ stored[link[r].email] = link[r]
        \/ \E a \in Asks : Together(a, r) /\ email[a] = link[r].email

\* A link that was mailed is refused only after a request that signed another one
\* for the member came to write it (auth.service.ts:156-159, 220-225).
RefusedWasReplaced ==
    \A r \in Resets : phase[r] = "refused" =>
        \E a \in Asks :
            /\ email[a] = link[r].email /\ link[a] \notin {NoLink, link[r]}
            /\ phase[a] \in {"saved", "mailed", "unmailed", "dropped"}

\* Every request that was begun is answered or dropped by a restart
\* (auth.service.ts:106-236).
EveryRequestEnds ==
    \A r \in Requests : phase[r] \in InFlight ~> phase[r] \in Ended
=============================================================================
