SPECIFICATION Spec
CONSTANTS
    p1 = p1
    w1 = w1
    w2 = w2
    r1 = r1
    r2 = r2
    r3 = r3
    Request <- MCRequest
    Product <- MCProduct
    Warehouse <- MCOneStores
    ReorderLevel <- MCReorderLevel
    OpeningStock <- MCOneOpening
    Scope <- MCOneScope
    MaxInt = 3
    MaxQuantity = 2
    DocRacing = {}
    StockRacing <- MCAll
INVARIANT LedgerReconciles
