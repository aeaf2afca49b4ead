\* One newsletter, one member, two runs, a list that is served for two minutes.
SPECIFICATION Spec
CONSTANTS
    Newsletters = {n1}
    Members = {a}
    Horizon = 2
    Lead = 1
    Late = 1
    CacheTtl = 2
    Nobody = Nobody
INVARIANTS
    OneMailPerMember
CHECK_DEADLOCK FALSE
