\* Two newsletters, one member, one run, which a restart may cut off.
SPECIFICATION FairSpec
CONSTANTS
    Newsletters = {n1, n2}
    Members = {a}
    Horizon = 1
    Lead = 1
    Late = 1
    CacheTtl = 1
    Nobody = Nobody
PROPERTIES
    EveryRunEnds
CHECK_DEADLOCK FALSE
