\* Two sign-ups and a request to sign, over two seconds.
SPECIFICATION Spec
CONSTANTS
    Signups = {r1, r2}
    Signers = {s1}
    Legacy = {l1}
    Emails = {e1, e2}
    Codes = {f1, f2}
    Phones = {p1, p2}
    plain = plain
    typed = typed
    Forms = {plain, typed}
    Plain = plain
    NoCode = NoCode
    NoText = NoText
    Malformed = Malformed
    Broken = Broken
    NoKey = NoKey
    Nobody = Nobody
    LastSecond = 1
SYMMETRY Symmetric
INVARIANTS
    SignatureIsOwn
    TwinsWereTogether
    SuccessLasts
    OrphansExplained
PROPERTIES
    RegisterRefined
CHECK_DEADLOCK FALSE
