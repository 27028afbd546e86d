SPECIFICATION Spec
CONSTANTS
    p1 = p1
    p2 = p2
    w1 = w1
    r1 = r1
    r2 = r2
    r3 = r3
    r4 = r4
    o1 = o1
    o2 = o2
    o3 = o3
    Request <- MCFour
    Scope <- MCFourScope
    Product <- MCProduct
    Warehouse <- MCWarehouse
    Order <- MCMany
    OpeningOrders <- MCDraftAndPartial
    OpeningStock <- MCOpening
    ReorderLevel <- MCReorderLevel
    Basket <- MCMixedBasket
    Delivery <- MCMixedDelivery
    MaxInt = 5
    DocRacing = {}
    StockRacing = {}
INVARIANTS
    TypeOK
    NoOverReceipt
    PartialMeansOutstanding
PROPERTIES
    LegalTransitions
    UpdateReplaces
    ImplementsAtomicOrders
