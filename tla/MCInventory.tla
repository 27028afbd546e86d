---------------------------- MODULE MCInventory ----------------------------
(* Values for the constants of Inventory: one or two items, three callers. *)
EXTENDS Inventory, TLC

CONSTANTS p1, w1, w2, r1, r2, r3

MCProduct   == {p1}
MCOneStores  == {w1}
MCTwoStores == {w1, w2}
MCRequest   == {r1, r2, r3}

\* The alert level is one below the opening stock, so that one unit crosses it.
MCReorderLevel == [p \in MCProduct |-> 1]
MCOpening(stores) ==
    [i \in MCProduct \X stores |-> [Zero EXCEPT !["available"] = 2]]
MCOneOpening == MCOpening(MCOneStores)
MCTwoOpening == MCOpening(MCTwoStores)

\* r1 works everywhere, r2 and r3 only in the first warehouse.
MCOneScope == [r \in MCRequest |-> MCOneStores]
MCTwoScope == [r \in MCRequest |-> IF r = r1 THEN MCTwoStores ELSE MCOneStores]

MCAll == {"adjust", "reserve"}
=============================================================================
