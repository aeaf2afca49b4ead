\* Two purchases, a deletion and a report, while items come, go and change their price.
SPECIFICATION Spec
CONSTANTS
    Buys = {b1, b2}
    Deletes = {d1}
    Reports = {r1}
    i1 = i1
    i2 = i2
    n1 = n1
    Items = {i1, i2}
    InStore = {i1}
    Names = {n1, Empty}
    Empty = Empty
    ItemName <- MCNames
    Prices <- MCPrices
    Carts <- MCCarts
    Discounts = {1, Omitted}
    Amounts = {0}
    NoItem = NoItem
    Omitted = Omitted
    Nothing = Nothing
    Unknown = Unknown
SYMMETRY Symmetric
INVARIANTS
    TotalInRange
    ReceiptAddsUp
    LinesKept
    ReportAddsUp
CHECK_DEADLOCK FALSE
