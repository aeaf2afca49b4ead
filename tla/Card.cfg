\* Two requests, ids that no row has, one member whose data is incomplete.
SPECIFICATION FairSpec
CONSTANTS
    MemberIds = {m1, m2, mx}
    Members = {m1, m2}
    FormFilled = {m1}
    CardNumbers = {c1, c2, cx}
    Pool = {c1, c2}
    Requests = {r1, r2}
    NoCard = NoCard
    NoDate = NoDate
    OldDate = OldDate
INVARIANTS
    CardsUnshared
    EveryHolderJustified
    GrantLostOnlyToRival
    PdfShowsOwnCard
    OriginalDateKept
PROPERTIES
    RegistryRefined
    EveryRequestEnds
CHECK_DEADLOCK FALSE
