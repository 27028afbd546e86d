SPECIFICATION Spec
CONSTANTS
    p1 = p1
    p2 = p2
    w1 = w1
    r1 = r1
    r2 = r2
    r3 = r3
    c1 = c1
    c2 = c2
    Request <- MCRequest
    Scope <- MCScope
    Product <- MCProduct
    Warehouse <- MCWarehouse
    ByName <- MCByName
    Count <- MCCount
    OpeningStock <- MCOpening
    Stocked <- MCStocked
    OpeningCounts <- MCShortCounts
    ReorderLevel <- MCReorderLevel
    Entries <- MCEntries
    MaxQuantity = 1
    MaxInt = 2
    DocRacing <- MCReconciling
    StockRacing = {}
PROPERTY ReconcilesToCounted
