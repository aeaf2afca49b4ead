\* One member that logs in, comes back and calls as an administrator, while its
\* role, its password and its row change; tokens live for two seconds.
SPECIFICATION Spec
CONSTANTS
    Members = {m1}
    Passwords = {p1, p2}
    Logins = {l1}
    Visits = {v1}
    Calls = {c1}
    Horizon = 3
    Life = 2
    NoToken = NoToken
    Nobody = Nobody
SYMMETRY Symmetric
INVARIANTS
    RenewalHeedsRow
    TrustedByPassword
PROPERTIES
    RoleLapses
CHECK_DEADLOCK FALSE
