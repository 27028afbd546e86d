-------------------------- MODULE MCPurchaseOrders --------------------------
(* Values for the constants of PurchaseOrders: one warehouse, one to three  *)
(* orders of up to two products, three or four requests.                    *)
EXTENDS PurchaseOrders, TLC

CONSTANTS p1, p2, w1, r1, r2, r3, r4, o1, o2, o3

MCProduct   == {p1, p2}
MCWarehouse == {w1}
MCThree     == {r1, r2, r3}
MCFour      == {r1, r2, r3, r4}
MCOne       == {o1}
MCMany      == {o1, o2, o3}
MCReorderLevel == [p \in MCProduct |-> 0]
MCOpening      == [i \in MCProduct \X MCWarehouse |-> Zero]
MCScope(rs)    == [r \in rs |-> MCWarehouse]
MCThreeScope   == MCScope(MCThree)
MCFourScope    == [MCScope(MCFour) EXCEPT ![r4] = {}]   \* r4 has no warehouse

Line(p, q)      == [product |-> p, quantity |-> q]
Unit(p, s, d)   == [product |-> p, sound |-> s, damaged |-> d]
Of(q1, q2)      == [p \in MCProduct |-> IF p = p1 THEN q1 ELSE q2]
Unused == [status |-> "NONE", warehouse |-> w1, quantity |-> Of(0, 0),
           sound |-> Of(0, 0), damaged |-> Of(0, 0), completed |-> FALSE, rev |-> 0]

\* A free id, a draft of one product, and an order with two of three units
\* outstanding.
MCDraftAndPartial ==
    [o \in MCMany |->
        IF o = o3 THEN Unused
        ELSE IF o = o1 THEN [Unused EXCEPT !.status = "DRAFT", !.quantity = Of(1, 0)]
        ELSE [Unused EXCEPT !.status = "PARTIALLY_RECEIVED", !.quantity = Of(2, 1),
                            !.sound = Of(1, 0)]]
MCMixedBasket   == {<<Line(p1, 2)>>, <<Line(p2, 1), Line(p1, 1)>>}
MCMixedDelivery == {<<Unit(p1, 1, 0)>>, <<Unit(p1, 0, 1), Unit(p2, 1, 0)>>,
                    <<Unit(p1, 0, 0)>>, <<Unit(p2, 0, 1), Unit(p1, 0, 0)>>}

\* One approved order; deliveries list its two products in either order.
MCApproved ==
    [o \in MCOne |-> [Unused EXCEPT !.status = "APPROVED", !.quantity = Of(2, 1)]]
MCRaceDelivery == {<<Unit(p1, 1, 0), Unit(p2, 0, 1)>>, <<Unit(p2, 1, 0), Unit(p1, 1, 1)>>,
                   <<Unit(p2, 0, 0), Unit(p1, 1, 0)>>}

MCReceiving == {"receive"}
=============================================================================
