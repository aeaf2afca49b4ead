\* Two runs that may overlap, one newsletter, two members.
SPECIFICATION Spec
CONSTANTS
    Newsletters = {n1}
    Members = {a, b}
    Horizon = 2
    Lead = 1
    Late = 1
    CacheTtl = 1
    Nobody = Nobody
SYMMETRY Symmetric
INVARIANTS
    SentWasMailed
    NeverEarly
    EveryoneRecorded
    SendingHasRun
    RetrySkipsRecorded
PROPERTIES
    DeliveriesFinal
CHECK_DEADLOCK FALSE
