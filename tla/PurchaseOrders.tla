--------------------------- MODULE PurchaseOrders ---------------------------
(***************************************************************************)
(* PurchaseOrdersService: the lifecycle of a purchase order and the receipt *)
(* of its deliveries.  Every handler loads the order and checks its status  *)
(* first.  send, approve, cancel and close then update the row by id alone; *)
(* update replaces the lines; receive works through the delivery inside one *)
(* transaction: re-read the line, increment it, post the stock movement,    *)
(* and at the end set the status from the lines it can see.                 *)
(***************************************************************************)
EXTENDS StockDb, FiniteSets, Functions

CONSTANTS
    Order,         \* ids the autoincrement can hand out in a run
    Basket,        \* lines of a create or update: Seq([product, quantity])
    Delivery,      \* lines of a receipt: Seq([product, sound, damaged])
    OpeningOrders  \* the orders the run starts with

Status == {"NONE", "DRAFT", "SENT", "APPROVED", "PARTIALLY_RECEIVED",
           "COMPLETED", "CANCELLED"}
Count == [Product -> Nat]

\* An order with its lines: quantity 0 is "no line", rev counts how often the
\* set of lines was replaced, completed is "completedAt is set".
OrderRow == [status : Status, warehouse : Warehouse, quantity : Count,
             sound : Count, damaged : Count, completed : BOOLEAN, rev : Nat]

None == [p \in Product |-> 0]

\* An order that earlier requests can have left: completed with its time, no
\* units before the first receipt, never too many, and not partial when full.
Possible(o) ==
    /\ o.completed <=> o.status = "COMPLETED"
    /\ o.status \notin {"PARTIALLY_RECEIVED", "COMPLETED"} =>
          o.sound = None /\ o.damaged = None
    /\ \A p \in Product : o.sound[p] + o.damaged[p] <= o.quantity[p]
    /\ o.status = "PARTIALLY_RECEIVED" =>
          \E p \in Product : o.sound[p] + o.damaged[p] < o.quantity[p]

NoDuplicates(lines) ==
    \A m, n \in DOMAIN lines : lines[m].product = lines[n].product => m = n

ASSUME OrdersAssumption ==
    /\ \A b \in Basket : /\ b \in Seq([product : Product, quantity : Nat \ {0}])
                         /\ b # <<>> /\ NoDuplicates(b)
    /\ \A d \in Delivery : /\ d \in Seq([product : Product, sound : Nat, damaged : Nat])
                           /\ d # <<>> /\ NoDuplicates(d)
    /\ IsFiniteSet(Order) /\ OpeningOrders \in [Order -> OrderRow]
    /\ \A o \in Order : Possible(OpeningOrders[o])

VARIABLES
    orders,    \* purchase_orders and purchase_order_lines
    receipts,  \* per order and product, the units of the receipts of the run
    job,       \* what each handler remembers between its statements
    trail      \* activity and approval-request rows <<order, row>> written

vars == <<rows, ledger, alerts, tx, req, orders, receipts, job, trail>>

NoUnits == [sound |-> 0, damaged |-> 0]
NoJob == [step |-> "none", id |-> "none", lines |-> <<>>, left |-> {},
          at |-> 0, rev |-> 0,
          units |-> [p \in Product |-> NoUnits], complete |-> FALSE]

-----------------------------------------------------------------------------
Stored(b) ==
    [p \in Product |->
        IF \E n \in DOMAIN b : b[n].product = p
        THEN b[CHOOSE n \in DOMAIN b : b[n].product = p].quantity ELSE 0]

\* The lines of a delivery that carry units; the others are left out.
Meaningful(d) == {n \in DOMAIN d : d[n].sound + d[n].damaged > 0}

\* The goods receipt of a delivery: a row for each of those lines, as delivered.
ReceiptRows(d) ==
    [p \in Product |->
        IF \E n \in Meaningful(d) : d[n].product = p
        THEN LET n == CHOOSE n \in Meaningful(d) : d[n].product = p
             IN [sound |-> d[n].sound, damaged |-> d[n].damaged]
        ELSE NoUnits]

Accounted(o, p) == orders[o].sound[p] + orders[o].damaged[p]

\* A bug: damaged units do not count against the ordered quantity.
WithinCapSoundOnly(o, l) ==
    /\ orders[o].quantity[l.product] > 0
    /\ orders[o].sound[l.product] + l.sound <= orders[o].quantity[l.product]

\* The line exists and the delivered units stay within the ordered quantity.
WithinCap(o, l) ==
    /\ orders[o].quantity[l.product] > 0
    /\ Accounted(o, l.product) + l.sound + l.damaged <= orders[o].quantity[l.product]

\* A bug: a sent order can still be edited and an approved one cancelled.
ExpectedLate(op) == CASE op = "send"    -> {"DRAFT"}
                      [] op = "update"  -> {"DRAFT", "SENT"}
                      [] op = "approve" -> {"SENT"}
                      [] op = "cancel"  -> {"DRAFT", "SENT", "APPROVED"}
                      [] op = "receive" -> {"APPROVED", "PARTIALLY_RECEIVED"}
                      [] op = "close"   -> {"PARTIALLY_RECEIVED"}

Expected(op) == CASE op = "send"    -> {"DRAFT"}
                  [] op = "update"  -> {"DRAFT"}
                  [] op = "approve" -> {"SENT"}
                  [] op = "cancel"  -> {"DRAFT", "SENT"}
                  [] op = "receive" -> {"APPROVED", "PARTIALLY_RECEIVED"}
                  [] op = "close"   -> {"PARTIALLY_RECEIVED"}

Decision == [send |-> "SENT", approve |-> "APPROVED", cancel |-> "CANCELLED",
             close |-> "COMPLETED"]

Allowed(r, op, o) == /\ orders[o].status \in Expected(op)
                     /\ InScope(r, orders[o].warehouse)

\* Another open transaction has incremented this line, or some line, of o.
LineLocked(r, o, p) ==
    \E s \in Request \ {r} : job[s].id = o /\ job[s].units[p] # NoUnits
AnyLineLocked(r, o) == \E p \in Product : LineLocked(r, o, p)

-----------------------------------------------------------------------------
\* POST /purchase-orders: the order and its lines in one statement.
Create(r) ==
    \E o \in Order, w \in Warehouse, b \in Basket :
        /\ InScope(r, w)
        /\ orders[o].status = "NONE"
        /\ Start(r, "create", o, {})
        /\ orders' = [orders EXCEPT ![o] =
                        [status |-> "DRAFT", warehouse |-> w, quantity |-> Stored(b),
                         sound |-> None, damaged |-> None,
                         completed |-> FALSE, rev |-> 0]]
        /\ job' = [job EXCEPT ![r].step = "log", ![r].id = o]
        /\ UNCHANGED <<rows, ledger, alerts, tx, receipts, trail>>

\* loadInScope and the status check of send, approve, cancel and close.
Load(r) ==
    \E op \in DOMAIN Decision, o \in Order :
        /\ Allowed(r, op, o)
        /\ Start(r, op, o, {})
        /\ job' = [job EXCEPT ![r].step = "decide", ![r].id = o]
        /\ UNCHANGED <<rows, ledger, alerts, tx, orders, receipts, trail>>

\* The row is updated whatever its status is by now.
Decide(r) ==
    LET o == job[r].id  op == req[r].op IN
    /\ job[r].step = "decide"
    /\ orders' = [orders EXCEPT ![o].status = Decision[op],
                                ![o].completed = @ \/ op = "close"]
    /\ job' = [job EXCEPT ![r].step = "log"]
    /\ UNCHANGED <<rows, ledger, alerts, tx, req, receipts, trail>>

\* update with a new set of lines: the order is loaded and checked, then the
\* delete statement starts; it sees the lines of the current rev.  An update
\* without lines changes nothing that is modelled.
LoadUpdate(r) ==
    \E o \in Order, b \in Basket :
        /\ Allowed(r, "update", o)
        /\ Start(r, "update", o, {})
        /\ job' = [job EXCEPT ![r].step = "checked", ![r].id = o, ![r].lines = b]
        /\ UNCHANGED <<rows, ledger, alerts, tx, orders, receipts, trail>>

DeleteLines(r) ==
    /\ job[r].step = "checked"
    /\ job' = [job EXCEPT ![r].step = "replace", ![r].rev = orders[job[r].id].rev]
    /\ UNCHANGED <<rows, ledger, alerts, tx, req, orders, receipts, trail>>

\* Lines that another update created after the delete started stay; creating
\* one of them a second time violates their unique key.
Remaining(r) == IF job[r].rev = orders[job[r].id].rev
                THEN {} ELSE {p \in Product : orders[job[r].id].quantity[p] > 0}
Created(r)   == {job[r].lines[n].product : n \in DOMAIN job[r].lines}

\* A bug: the old lines are not deleted.
ReplaceMerges(r) ==
    /\ job[r].step = "replace"
    /\ orders' = [orders EXCEPT
                    ![job[r].id].quantity =
                       [p \in Product |-> IF p \in Created(r) THEN Stored(job[r].lines)[p]
                                                              ELSE @[p]],
                    ![job[r].id].rev = @ + 1]
    /\ job' = [job EXCEPT ![r].step = "reply"]
    /\ UNCHANGED <<rows, ledger, alerts, tx, req, receipts, trail>>

\* The new lines are created, and the transaction of update commits.
Replace(r) ==
    LET o == job[r].id
        Keep(old, new) == [p \in Product |-> IF p \in Remaining(r) THEN old[p] ELSE new[p]]
    IN
    /\ job[r].step = "replace"
    /\ ~AnyLineLocked(r, o)
    /\ Remaining(r) \cap Created(r) = {}
    /\ orders' = [orders EXCEPT
                    ![o].quantity = Keep(@, Stored(job[r].lines)),
                    ![o].sound = Keep(@, None), ![o].damaged = Keep(@, None),
                    ![o].rev = @ + 1]
    /\ job' = [job EXCEPT ![r].step = "reply"]
    /\ UNCHANGED <<rows, ledger, alerts, tx, req, receipts, trail>>

\* The commit of an update is acknowledged, and the handler answers.
Reply(r) ==
    /\ job[r].step = "reply"
    /\ job' = [job EXCEPT ![r] = NoJob]
    /\ Answer(r, "ok")
    /\ UNCHANGED <<rows, ledger, alerts, tx, orders, receipts, trail>>

\* receive: load, status, and the checks on the loaded lines; the transaction
\* opens with the receipt row.
LoadReceive(r) ==
    \E o \in Order, d \in Delivery :
        /\ Allowed(r, "receive", o)
        /\ Meaningful(d) # {}
        /\ \A n \in DOMAIN d : WithinCap(o, d[n])
        /\ Start(r, "receive", o,
                 {<<d[n].product, orders[o].warehouse>> : n \in DOMAIN d})
        /\ job' = [job EXCEPT ![r].step = "receive", ![r].id = o,
                              ![r].lines = d, ![r].left = Meaningful(d)]
        /\ tx' = [tx EXCEPT ![r] = Pending(<<>>)]
        /\ UNCHANGED <<rows, ledger, alerts, orders, receipts, trail>>

\* A validation, scope, status or cap check on what was loaded fails.
Reject(r) ==
    /\ req[r].status = "new"
    /\ \/ \E w \in Warehouse : ~InScope(r, w)
       \/ \E o \in Order, op \in {"send", "approve", "cancel", "close", "update", "receive"} :
             ~Allowed(r, op, o)
       \/ \E o \in Order, d \in Delivery :
             Meaningful(d) = {} \/ \E n \in DOMAIN d : ~WithinCap(o, d[n])
    /\ Answer(r, "refused")
    /\ UNCHANGED <<rows, ledger, alerts, tx, orders, receipts, job, trail>>

-----------------------------------------------------------------------------
\* The loop of receive over its lines: a line is next when those before it are
\* done and the movement of the last one is written.
AtLine(r, n) == /\ job[r].step = "receive" /\ tx[r].todo = <<>>
                /\ n \in job[r].left /\ \A m \in job[r].left : n <= m

Current(r) == job[r].lines[job[r].at]

\* The line is read again inside the transaction, and the cap checked again.
Recheck(r) ==
    \E n \in DOMAIN job[r].lines :
        /\ AtLine(r, n)
        /\ WithinCap(job[r].id, job[r].lines[n])
        /\ job' = [job EXCEPT ![r].step = "increment", ![r].at = n, ![r].left = @ \ {n}]
        /\ UNCHANGED <<rows, ledger, alerts, tx, req, orders, receipts, trail>>

\* A bug: the request is answered but its transaction is not rolled back.
OverReceiptKeepsTx(r) ==
    /\ \E n \in DOMAIN job[r].lines :
          AtLine(r, n) /\ ~WithinCap(job[r].id, job[r].lines[n])
    /\ Answer(r, "refused")
    /\ UNCHANGED <<rows, ledger, alerts, tx, orders, receipts, job, trail>>

OverReceipt(r) ==
    /\ \E n \in DOMAIN job[r].lines :
          AtLine(r, n) /\ ~WithinCap(job[r].id, job[r].lines[n])
    /\ tx' = [tx EXCEPT ![r] = NoTx]
    /\ job' = [job EXCEPT ![r] = NoJob]
    /\ Answer(r, "refused")
    /\ UNCHANGED <<rows, ledger, alerts, orders, receipts, trail>>

\* A bug: the movement is posted before the line is incremented, so that the
\* stock row is read without holding the lock of the line.
IncrementUnlocked(r) ==
    LET l == Current(r)
        w == orders[job[r].id].warehouse
        delta == [Zero EXCEPT !["available"] = l.sound, !["damaged"] = l.damaged]
    IN
    /\ job[r].step = "increment"
    /\ job' = [job EXCEPT ![r] =
                 [@ EXCEPT !.step = "receive",
                    !.units[l.product] = [sound |-> l.sound, damaged |-> l.damaged]]]
    /\ tx' = [tx EXCEPT ![r].todo = <<[item |-> <<l.product, w>>, delta |-> delta]>>]
    /\ UNCHANGED <<rows, ledger, alerts, req, orders, receipts, trail>>

\* A bug: the damaged units are stocked, but the line is not incremented by them.
IncrementSoundOnly(r) ==
    LET l == Current(r)
        w == orders[job[r].id].warehouse
        delta == [Zero EXCEPT !["available"] = l.sound, !["damaged"] = l.damaged]
    IN
    /\ job[r].step = "increment"
    /\ ~LineLocked(r, job[r].id, l.product)
    /\ orders[job[r].id].quantity[l.product] > 0
    /\ job' = [job EXCEPT ![r] =
                 [@ EXCEPT !.step = "receive",
                    !.units[l.product] = [sound |-> l.sound, damaged |-> 0]]]
    /\ tx' = [tx EXCEPT ![r].todo = <<[item |-> <<l.product, w>>, delta |-> delta]>>]
    /\ UNCHANGED <<rows, ledger, alerts, req, orders, receipts, trail>>

\* The increment waits for the lock of the line and adds to its latest value.
Increment(r) ==
    LET l == Current(r)
        w == orders[job[r].id].warehouse
        delta == [Zero EXCEPT !["available"] = l.sound, !["damaged"] = l.damaged]
    IN
    /\ job[r].step = "increment"
    /\ ~LineLocked(r, job[r].id, l.product)
    /\ orders[job[r].id].quantity[l.product] > 0
    /\ job' = [job EXCEPT ![r] =
                 [@ EXCEPT !.step = "receive",
                    !.units[l.product] = [sound |-> l.sound, damaged |-> l.damaged]]]
    /\ tx' = [tx EXCEPT ![r].todo = <<[item |-> <<l.product, w>>, delta |-> delta]>>]
    /\ UNCHANGED <<rows, ledger, alerts, req, orders, receipts, trail>>

\* A receipt only adds stock, so its movement is never refused.
PostLine(r) ==
    /\ ReadItem(r) \/ WriteItem(r)
    /\ UNCHANGED <<orders, receipts, job, trail>>

\* All lines are read back: the committed ones and this transaction's own.
FullyAccountedSoundOnly(r, o) ==   \* a bug: damaged units are still awaited
    \A p \in Product :
        orders[o].sound[p] + job[r].units[p].sound >= orders[o].quantity[p]

FullyAccounted(r, o) ==
    \A p \in Product :
        Accounted(o, p) + job[r].units[p].sound + job[r].units[p].damaged
            >= orders[o].quantity[p]

\* A bug: the loop stops after the first line that has units.
TallyEarly(r) ==
    /\ job[r].step = "receive" /\ tx[r].todo = <<>>
    /\ \E p \in Product : job[r].units[p] # NoUnits
    /\ job' = [job EXCEPT ![r].step = "finish", ![r].left = {},
                          ![r].complete = FullyAccounted(r, job[r].id)]
    /\ UNCHANGED <<rows, ledger, alerts, tx, req, orders, receipts, trail>>

Tally(r) ==
    /\ job[r].step = "receive" /\ tx[r].todo = <<>> /\ job[r].left = {}
    /\ job' = [job EXCEPT ![r].step = "finish",
                          ![r].complete = FullyAccounted(r, job[r].id)]
    /\ UNCHANGED <<rows, ledger, alerts, tx, req, orders, receipts, trail>>

\* The status is set from the tally, and the transaction commits: the increments
\* of its loop, and the receipt that was created before the loop.
Commit(r) ==
    LET o == job[r].id
        u == job[r].units
        new == ReceiptRows(job[r].lines)
        Add(old, field) == [p \in Product |-> old[p] + u[p][field]]
    IN
    /\ job[r].step = "finish"
    /\ Install(r)
    /\ orders' = [orders EXCEPT
                    ![o].status = IF job[r].complete THEN "COMPLETED"
                                                     ELSE "PARTIALLY_RECEIVED",
                    ![o].completed = job[r].complete,
                    ![o].sound = Add(@, "sound"), ![o].damaged = Add(@, "damaged")]
    /\ receipts' = [receipts EXCEPT
                      ![o] = [p \in Product |->
                                [sound |-> @[p].sound + new[p].sound,
                                 damaged |-> @[p].damaged + new[p].damaged]]]
    /\ job' = [job EXCEPT ![r] = [NoJob EXCEPT !.step = "log", !.id = o]]
    /\ UNCHANGED <<req, trail>>

\* A bug: send answers without awaiting the alert to the overseers.
LogAnswersEarly(r) ==
    /\ job[r].step = "log"
    /\ trail' = trail \cup {<<job[r].id, req[r].op>>}
    /\ job' = [job EXCEPT ![r] = IF req[r].op = "send" THEN [@ EXCEPT !.step = "notify"]
                                                      ELSE NoJob]
    /\ Answer(r, "ok")
    /\ UNCHANGED <<rows, ledger, alerts, tx, orders, receipts>>

\* logPo; after a send also the alert to the warehouse's overseers.
Log(r) ==
    /\ job[r].step = "log"
    /\ trail' = trail \cup {<<job[r].id, req[r].op>>}
    /\ IF req[r].op = "send"
       THEN job' = [job EXCEPT ![r].step = "notify"] /\ UNCHANGED req
       ELSE job' = [job EXCEPT ![r] = NoJob] /\ Answer(r, "ok")
    /\ UNCHANGED <<rows, ledger, alerts, tx, orders, receipts>>

Notify(r) ==
    /\ job[r].step = "notify"
    /\ trail' = trail \cup {<<job[r].id, "PO_APPROVAL">>}
    /\ job' = [job EXCEPT ![r] = NoJob]
    /\ Answer(r, "ok")
    /\ UNCHANGED <<rows, ledger, alerts, tx, orders, receipts>>

Fail(r) ==
    /\ Abort(r)
    /\ job' = [job EXCEPT ![r] = NoJob]
    /\ UNCHANGED <<orders, receipts, trail>>

Quiet == (\A r \in Request : ~Busy(r) /\ req[r].status # "new") /\ UNCHANGED vars

Serve(r) == \/ Decide(r) \/ DeleteLines(r) \/ Replace(r) \/ Reply(r)
            \/ Recheck(r) \/ OverReceipt(r) \/ Increment(r) \/ PostLine(r)
            \/ Tally(r) \/ Commit(r) \/ Log(r) \/ Notify(r)

Next == \/ \E r \in Request : \/ Create(r) \/ Load(r) \/ LoadUpdate(r) \/ LoadReceive(r)
                              \/ Reject(r) \/ Serve(r) \/ Fail(r)
        \/ Quiet

Init == /\ StockInit
        /\ orders = OpeningOrders
        /\ receipts = [o \in Order |-> [p \in Product |-> NoUnits]]
        /\ job = [r \in Request |-> NoJob]
        /\ trail = {}

\* Deadlocks now also run through the locks of order lines; a duplicate line,
\* and a line that is gone when it is to be incremented, are always reported.
WaitsFor(r, s) ==
    \/ WaitsForRow(r, s)
    \/ /\ job[r].step = "increment" /\ s # r
       /\ job[s].id = job[r].id
       /\ job[s].units[Current(r).product] # NoUnits

Hopeless(r) ==
    \/ Overflows(r) \/ OnCycle(WaitsFor, r)
    \/ job[r].step = "replace" /\ Remaining(r) \cap Created(r) # {}
    \/ /\ job[r].step = "increment"
       /\ orders[job[r].id].quantity[Current(r).product] = 0

Fairness == \A r \in Request : WF_vars(Serve(r)) /\ WF_vars(Hopeless(r) /\ Fail(r))

Spec == Init /\ [][Next]_vars /\ Fairness

-----------------------------------------------------------------------------
\* Tables and handlers keep their types, and a transaction is open exactly while
\* its handler is inside one.
TypeOK ==
    /\ StockTypeOK
    /\ orders \in [Order -> OrderRow]
    /\ \A r \in Request :
          /\ job[r].step \in {"none", "decide", "checked", "replace", "receive",
                             "increment", "finish", "reply", "log", "notify"}
          /\ job[r].step # "none" => Busy(r) /\ job[r].id \in Order
          /\ tx[r].open <=> job[r].step \in {"receive", "increment", "finish"}

(***************************************************************************)
(* No over-receipt (purchase-orders.service.ts:339-342): over all receipts, *)
(* the sound and damaged units of a line stay within the ordered quantity.  *)
(***************************************************************************)
NoOverReceipt ==
    \A o \in Order, p \in Product : Accounted(o, p) <= orders[o].quantity[p]

(***************************************************************************)
(* A receipt is atomic (purchase-orders.service.ts:306-309): the units on   *)
(* the lines of an order, which the loop increments one after the other,    *)
(* are those of its receipts, which are written from the delivery before    *)
(* the loop, however receipts of one order overlap, are refused half-way or *)
(* are aborted.                                                             *)
(***************************************************************************)
ReceiptsMatchLines ==
    \A o \in Order, p \in Product :
        /\ orders[o].sound[p] = OpeningOrders[o].sound[p] + receipts[o][p].sound
        /\ orders[o].damaged[p] = OpeningOrders[o].damaged[p] + receipts[o][p].damaged

(***************************************************************************)
(* What the receipts say arrived is what the warehouse's stock gained: sound *)
(* units are available, damaged ones damaged.  The lock of the order line,  *)
(* taken before the stock row is read, keeps overlapping receipts of one    *)
(* order from losing each other's stock.                                    *)
(***************************************************************************)
Arrived(i, field) ==
    SumFunction([o \in Order |->
        IF orders[o].warehouse = i[2] THEN receipts[o][i[1]][field] ELSE 0])

StockMatchesReceipts ==
    \A i \in Item :
        rows[i] = [OpeningStock[i] EXCEPT !["available"] = @ + Arrived(i, "sound"),
                                          !["damaged"] = @ + Arrived(i, "damaged")]

(***************************************************************************)
(* A fully reconciled order is not left partially received                  *)
(* (purchase-orders.service.ts:427-428): while an order waits for more      *)
(* deliveries, some line still has units outstanding.                       *)
(***************************************************************************)
PartialMeansOutstanding ==
    \A o \in Order : orders[o].status = "PARTIALLY_RECEIVED" =>
        \E p \in Product : Accounted(o, p) < orders[o].quantity[p]

(***************************************************************************)
(* An order carries a completion time exactly while it is completed, by a   *)
(* last receipt or by a close-out.                                          *)
(***************************************************************************)
CompletionTimed ==
    \A o \in Order : orders[o].completed <=> orders[o].status = "COMPLETED"

(***************************************************************************)
(* The order lifecycle (schema.prisma:56-57), in which close-out completes  *)
(* a partially received order.                                              *)
(***************************************************************************)
Successors(status) ==
    CASE status = "NONE"      -> {"DRAFT"}
      [] status = "DRAFT"     -> {"SENT", "CANCELLED"}
      [] status = "SENT"      -> {"APPROVED", "CANCELLED"}
      [] status \in {"APPROVED", "PARTIALLY_RECEIVED"}
                              -> {"PARTIALLY_RECEIVED", "COMPLETED"}
      [] OTHER                -> {}

LegalTransitions ==
    [][\A o \in Order : orders'[o].status # orders[o].status =>
          orders'[o].status \in Successors(orders[o].status)]_vars

(***************************************************************************)
(* The lines of an update replace all existing lines                        *)
(* (update-purchase-order.dto.ts:31): after it the order has its lines only. *)
(***************************************************************************)
UpdateReplaces ==
    [][\A r \in Request :
          req[r].op = "update" /\ req[r].status = "busy" /\ req'[r].status = "ok" =>
              orders'[job[r].id].quantity = Stored(job[r].lines)]_vars

(***************************************************************************)
(* Every request is answered, although receipts lock order lines and stock  *)
(* rows in the order their delivery lists them.                             *)
(***************************************************************************)
EveryRequestAnswered == \A r \in Request : Busy(r) ~> ~Busy(r)

(***************************************************************************)
(* While requests on one order or one item come one at a time, each handler *)
(* is one atomic step of the order and the stock: in particular a receipt   *)
(* books every line of its delivery or none.                                *)
(***************************************************************************)
Atomic == INSTANCE AtomicOrders

ImplementsAtomicOrders == Atomic!AtomicOrdersSpec
=============================================================================
