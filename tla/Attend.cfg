SPECIFICATION Spec
CONSTANTS
    Prints = {p1, p2}
    Scans = {s1, s2}
    Members = {m1, m2}
    EventIds = {e1, e2, e0}
    Events = {e1, e2}
    LastMinute = 1
    Life = 1
    NotQr = NotQr
    NoTime = NoTime
CHECK_DEADLOCK FALSE
SYMMETRY Symmetry
INVARIANTS
    AnsweredMeansPresent
    ConfirmedOnce
    TakenByRival
