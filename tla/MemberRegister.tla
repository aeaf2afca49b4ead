--------------------------- MODULE MemberRegister ---------------------------
(***************************************************************************)
(* What registration promises to a reader of the Member table: a row that  *)
(* is there stays, no two rows are of the same mailbox, and the signature  *)
(* key of a row is empty or names an image that is in the object store.    *)
(***************************************************************************)
CONSTANTS Persons, Emails, Keys, NoMail, NoKey

VARIABLES
    mailbox,    \* Member.email of each person, whatever its spelling
    signature,  \* Member.signatureR2Key
    stored      \* keys of the object store that hold an image

vars == <<mailbox, signature, stored>>

Row(p) == mailbox[p] # NoMail
Free(e) == \A p \in Persons : mailbox[p] # e

Init ==
    /\ mailbox \in [Persons -> Emails \cup {NoMail}]
    /\ \A p, q \in Persons : mailbox[p] = mailbox[q] /\ Row(p) => p = q
    /\ signature = [p \in Persons |-> NoKey]
    /\ stored = {}

Store(k) ==
    /\ stored' = stored \cup {k}
    /\ UNCHANGED <<mailbox, signature>>

Register(p, e, k) ==
    /\ ~Row(p) /\ Free(e)
    /\ k \in stored
    /\ mailbox' = [mailbox EXCEPT ![p] = e]
    /\ signature' = [signature EXCEPT ![p] = k]
    /\ UNCHANGED stored

Sign(p, k) ==
    /\ Row(p)
    /\ k \in stored
    /\ signature' = [signature EXCEPT ![p] = k]
    /\ UNCHANGED <<mailbox, stored>>

Next ==
    \E k \in Keys :
        \/ Store(k)
        \/ \E p \in Persons : Sign(p, k) \/ \E e \in Emails : Register(p, e, k)

Spec == Init /\ [][Next]_vars
=============================================================================
