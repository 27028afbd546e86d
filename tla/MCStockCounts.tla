--------------------------- MODULE MCStockCounts ---------------------------
(* Values for the constants of StockCounts: one warehouse of two products,  *)
(* a count still to be created and one with quantities, three requests.      *)
EXTENDS StockCounts

CONSTANTS p1, p2, w1, r1, r2, r3, c1, c2

MCProduct   == {p1, p2}
MCWarehouse == {w1}
MCByName    == [ps \in SUBSET MCProduct |-> SelectSeq(<<p2, p1>>, LAMBDA p : p \in ps)]
MCRequest   == {r1, r2, r3}
MCCount     == {c1, c2}
\* One unit, or two, away from the alert level of the product that has one.
MCReorderLevel == [p \in MCProduct |-> IF p = p1 THEN 1 ELSE 0]
MCOpening      == [i \in MCProduct \X MCWarehouse |-> [Zero EXCEPT !["available"] =
                                                       IF i[1] = p1 THEN 2 ELSE 1]]
MCScope        == [r \in MCRequest |-> MCWarehouse]
MCStocked      == MCProduct \X MCWarehouse

Entry(p, q) == [product |-> p, counted |-> q]
Both(q)     == [p \in MCProduct |-> q]
Unopened    == [status |-> "NONE", warehouse |-> w1, recorded |-> NoLines, counted |-> NoLines]

MCCounts == [c \in MCCount |-> IF c = c1 THEN Unopened
                               ELSE [Unopened EXCEPT !.status = "OPEN",
                                                     !.recorded = Both(1), !.counted = Both(0)]]

\* One product counted, a unit short of what is available.
MCShortCounts == [MCCounts EXCEPT ![c2].counted = [p \in {p1} |-> 1]]

\* Both lines, in either order, and once with a line twice.
MCEntries == {<<Entry(p1, 0), Entry(p2, 1)>>,
              <<Entry(p2, 1), Entry(p1, 1), Entry(p2, 0)>>}

\* Only entries overlap on a count, or only reconciliations.
MCEntering    == {"enter"}
MCReconciling == {"reconcile"}
=============================================================================
