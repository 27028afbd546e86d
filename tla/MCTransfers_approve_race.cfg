SPECIFICATION Spec
CONSTANTS
    p1 = p1
    p2 = p2
    w1 = w1
    w2 = w2
    r1 = r1
    r2 = r2
    r3 = r3
    r4 = r4
    t1 = t1
    t2 = t2
    Request <- MCThree
    Product <- MCProduct
    Warehouse <- MCWarehouse
    Transfer <- MCTransfer
    ByName <- MCByName
    ReorderLevel <- MCReorderLevel
    Scope <- MCGlobal
    OpeningStock <- MCTwinOpening
    OpeningTransfers <- MCTwinTransfers
    Basket <- MCTwinBasket
    MaxInt = 4
    DocRacing <- MCApproving
    StockRacing = {}
INVARIANT SettledAtMostOnce
