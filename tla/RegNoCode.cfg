\* A sign-up without a codice fiscale.
SPECIFICATION Spec
CONSTANTS
    Signups = {r1, r2}
    Signers = {s1}
    Legacy = {l1}
    Emails = {e1, e2}
    Codes = {f1}
    Phones = {p1, p2}
    plain = plain
    typed = typed
    Forms = {plain, typed}
    Plain = plain
    NoCode = NoCode
    NoText = NoText
    Malformed = Malformed
    Broken = Broken
    NoKey = NoKey
    Nobody = Nobody
    LastSecond = 1
INVARIANT
    CodeMayBeMissing
CHECK_DEADLOCK FALSE
