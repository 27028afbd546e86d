SPECIFICATION Spec
CONSTANTS
    c1 = c1
    c2 = c2
    c3 = c3
    p1 = p1
    p2 = p2
    v1 = v1
    v2 = v2
    s1 = s1
    s2 = s2
    s3 = s3
    r1 = r1
    r2 = r2
    r3 = r3
    Category <- MCCategory
    Product <- MCProduct
    Variant <- MCVariant
    VariantOf <- MCVariantOf
    Sku <- MCSku
    Request <- MCRequest
    Exclusive <- MCExclusive
    Openings <- MCOpenings
    OpeningSku <- MCOpeningSku
    OpeningHome <- MCOpeningHome
INVARIANTS
    TypeOK
    ImagesPresent
PROPERTIES
    VariantsAvoidProducts
    EveryRequestAnswered
    ImplementsForest
