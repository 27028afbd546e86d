SPECIFICATION Spec
CONSTANTS
    p1 = p1
    p2 = p2
    w1 = w1
    r1 = r1
    r2 = r2
    r3 = r3
    r4 = r4
    o1 = o1
    o2 = o2
    o3 = o3
    Request <- MCThree
    Scope <- MCThreeScope
    Product <- MCProduct
    Warehouse <- MCWarehouse
    Order <- MCOne
    OpeningOrders <- MCApproved
    OpeningStock <- MCOpening
    ReorderLevel <- MCReorderLevel
    Basket <- MCMixedBasket
    Delivery <- MCRaceDelivery
    MaxInt = 5
    DocRacing <- MCReceiving
    StockRacing = {}
INVARIANTS
    ReceiptsMatchLines
    StockMatchesReceipts
    LedgerReconciles
PROPERTY
    EveryRequestAnswered
