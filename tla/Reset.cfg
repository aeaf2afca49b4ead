\* Two requests for a link and one to use it, to the end.
SPECIFICATION FairSpec
CONSTANTS
    Asks = {a1, a2}
    Resets = {s1}
    Emails = {m1, mx}
    Members = {m1}
    Horizon = 3
    Spam = 2
    Life = 3
    NoLink = NoLink
    BadLink = BadLink
    Signup = Signup
INVARIANTS
    NoSpam
    LinkLasts
    ResetByCurrentLink
    RefusedWasReplaced
PROPERTIES
    SilenceIsShort
    EveryRequestEnds
CHECK_DEADLOCK FALSE
