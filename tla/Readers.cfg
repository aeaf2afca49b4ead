\* One spreadsheet, one form and two card requests; every row is complete but for
\* its signature.
SPECIFICATION SpecFewRows
CONSTANTS
    MemberIds = {m1, m2}
    Members = {m1, m2}
    FormFilled = {m1, m2}
    CardNumbers = {c1, c2}
    Pool = {c1, c2}
    Requests = {r1, r2}
    Exports = {e1}
    Downloads = {d1}
    NoCard = NoCard
    NoDate = NoDate
    OldDate = OldDate
    Nobody = Nobody
SYMMETRY Symmetric
INVARIANTS
    SheetsAgree
    FormLasts
CHECK_DEADLOCK FALSE
