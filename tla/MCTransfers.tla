---------------------------- MODULE MCTransfers ----------------------------
(* Values for the constants of Transfers: two warehouses, up to two         *)
(* transfers, one or two products, three or four requests.                  *)
EXTENDS Transfers, TLC

CONSTANTS p1, p2, w1, w2, r1, r2, r3, r4, t1, t2

MCProduct   == {p1, p2}
MCWarehouse == {w1, w2}
MCThree     == {r1, r2, r3}
MCFour      == {r1, r2, r3, r4}
MCTransfer  == {t1, t2}
MCByName    == [ps \in SUBSET MCProduct |-> SelectSeq(<<p1, p2>>, LAMBDA p : p \in ps)]
MCReorderLevel == [p \in MCProduct |-> IF p = p1 THEN 1 ELSE 0]

\* All work everywhere, or all but r3, who works only at the destination of the open transfer.
MCScope  == [r \in MCFour |-> IF r = r3 THEN {w2} ELSE MCWarehouse]
MCGlobal == [r \in MCThree |-> MCWarehouse]

Line(p, q) == [product |-> p, quantity |-> q]
Quantities(q1, q2) == [p \in MCProduct |-> IF p = p1 THEN q1 ELSE q2]
Unused == [status |-> "NONE", source |-> w1, destination |-> w2,
           quantity |-> Quantities(0, 0)]
OneOpen(status, q1, q2) ==
    [t \in MCTransfer |->
        IF t = t1 THEN [Unused EXCEPT !.status = status, !.quantity = Quantities(q1, q2)]
                  ELSE Unused]

Stocked(available, inTransit) ==
    [Zero EXCEPT !["available"] = available, !["inTransit"] = inTransit]

\* t1 holds both products; new transfers carry both, in either order.
MCStockTransfers == OneOpen("REQUESTED", 1, 1)
MCStockOpening ==
    [i \in MCProduct \X MCWarehouse |->
        IF i[2] = w1 THEN Stocked(1, 1) ELSE Zero]
MCStockBasket == {<<Line(p1, 1), Line(p2, 1)>>, <<Line(p2, 1), Line(p1, 1)>>}

\* t1 and t2 are both requested and hold a unit of p1 each.
MCTwinTransfers ==
    [t \in MCTransfer |-> [Unused EXCEPT !.status = "REQUESTED",
                                         !.quantity = Quantities(1, 0)]]
MCTwinOpening ==
    [i \in MCProduct \X MCWarehouse |->
        IF i = <<p1, w1>> THEN Stocked(1, 2) ELSE Zero]
MCTwinBasket == {<<Line(p1, 1)>>, <<Line(p1, 2)>>}

MCApproving == {"approve", "cancel"}
MCSettling == {"cancel", "receive"}
MCMoving   == {"create", "cancel", "receive"}
=============================================================================
