---------------------------- MODULE AtomicOrders ----------------------------
(***************************************************************************)
(* What PurchaseOrdersService promises: each operation is one step of one   *)
(* order, and a receipt books its whole delivery, on the lines of the order *)
(* and in the stock of its warehouse, or nothing.  Loads, locks,            *)
(* transactions and refusals are not visible.                               *)
(***************************************************************************)
EXTENDS Stock

CONSTANTS Order, OpeningOrders, Basket, Delivery

VARIABLES rows, orders

atomicVars == <<rows, orders>>

\* What a basket or a delivery says of product p.
Brought(lines, p, field) ==
    IF \E n \in DOMAIN lines : lines[n].product = p
    THEN lines[CHOOSE n \in DOMAIN lines : lines[n].product = p][field] ELSE 0

All(lines, field) == [p \in Product |-> Brought(lines, p, field)]

Created(o) ==
    /\ orders[o].status = "NONE"
    /\ \E w \in Warehouse, b \in Basket :
          orders' = [orders EXCEPT ![o] =
                       [status |-> "DRAFT", warehouse |-> w, quantity |-> All(b, "quantity"),
                        sound |-> All(<<>>, "sound"), damaged |-> All(<<>>, "damaged"),
                        completed |-> FALSE, rev |-> 0]]
    /\ UNCHANGED rows

Updated(o) ==
    /\ orders[o].status = "DRAFT"
    /\ \E b \in Basket : orders' = [orders EXCEPT ![o].quantity = All(b, "quantity"),
                                                  ![o].rev = @ + 1]
    /\ UNCHANGED rows

Becomes(o, from, to) ==
    /\ orders[o].status \in from
    /\ orders' = [orders EXCEPT ![o].status = to, ![o].completed = (to = "COMPLETED")]
    /\ UNCHANGED rows

Decided(o) == \/ Becomes(o, {"DRAFT"}, "SENT")
              \/ Becomes(o, {"SENT"}, "APPROVED")
              \/ Becomes(o, {"DRAFT", "SENT"}, "CANCELLED")
              \/ Becomes(o, {"PARTIALLY_RECEIVED"}, "COMPLETED")

\* The units of delivery d come in: some, within what was ordered; the order is
\* complete when nothing is outstanding any more.
Received(o, d) ==
    LET More(old, field) == [p \in Product |-> old[p] + Brought(d, p, field)]
        sound   == More(orders[o].sound, "sound")
        damaged == More(orders[o].damaged, "damaged")
        full    == \A p \in Product : sound[p] + damaged[p] = orders[o].quantity[p]
    IN
    /\ orders[o].status \in {"APPROVED", "PARTIALLY_RECEIVED"}
    /\ \E p \in Product : Brought(d, p, "sound") + Brought(d, p, "damaged") > 0
    /\ \A p \in Product : sound[p] + damaged[p] <= orders[o].quantity[p]
    /\ orders' = [orders EXCEPT ![o].status = IF full THEN "COMPLETED"
                                                      ELSE "PARTIALLY_RECEIVED",
                                ![o].completed = full,
                                ![o].sound = sound, ![o].damaged = damaged]
    /\ rows' = [i \in Item |->
                  IF i[2] = orders[o].warehouse
                  THEN Plus(rows[i], [Zero EXCEPT !["available"] = Brought(d, i[1], "sound"),
                                                  !["damaged"] = Brought(d, i[1], "damaged")])
                  ELSE rows[i]]

\* Each changes its order and leaves every row in the range of its columns.
AtomicStep ==
    /\ orders' # orders
    /\ \E o \in Order : \/ Created(o) \/ Updated(o) \/ Decided(o)
                        \/ \E d \in Delivery : Received(o, d)
    /\ \A i \in Item : Fits(rows'[i])

AtomicOrdersSpec ==
    /\ rows = OpeningStock /\ orders = OpeningOrders
    /\ [][AtomicStep]_atomicVars
=============================================================================
