SPECIFICATION Spec
CONSTANTS
    p1 = p1
    w1 = w1
    w2 = w2
    r1 = r1
    r2 = r2
    r3 = r3
    Request <- MCRequest
    Product <- MCProduct
    Warehouse <- MCTwoStores
    ReorderLevel <- MCReorderLevel
    OpeningStock <- MCTwoOpening
    Scope <- MCTwoScope
    MaxInt = 3
    MaxQuantity = 1
    DocRacing = {}
    StockRacing <- MCAll
INVARIANTS
    TypeOK
    StockInRange
PROPERTY EveryRequestAnswered
