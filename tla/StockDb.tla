------------------------------ MODULE StockDb ------------------------------
(***************************************************************************)
(* The stock tables of the API (inventory_items, stock_movements, the      *)
(* LOW_STOCK rows of notifications) and the transactions that               *)
(* InventoryService.applyMovement runs over them.  PostgreSQL is used at    *)
(* its default isolation level, READ COMMITTED, through Prisma interactive  *)
(* transactions: a SELECT returns what is committed at that moment, an      *)
(* UPDATE or INSERT keeps its row locked until the transaction ends, and    *)
(* nothing a transaction wrote is seen by others before it commits.         *)
(*                                                                          *)
(* Every module that moves stock extends this one and supplies the requests *)
(* that open transactions.                                                  *)
(***************************************************************************)
EXTENDS Stock, Sequences

CONSTANTS
    Request,       \* the HTTP requests of a run; each is served once
    Scope,         \* [Request -> SUBSET Warehouse], the caller's warehouses
    DocRacing,     \* operations that may overlap on one document
    StockRacing    \* operations that may overlap on the stock of an item

ASSUME RequestAssumption == Scope \in [Request -> SUBSET Warehouse]

Move == [item : Item, delta : Delta]

VARIABLES
    rows,    \* inventory_items; a row that does not exist yet reads as zeros
    ledger,  \* per item, the sum of the deltas of its committed movements
    alerts,  \* per item, the number of LOW_STOCK alerts committed
    tx,      \* the transaction each request has open
    req      \* how far each request is, and what it named when it started

stockVars == <<rows, ledger, alerts, tx, req>>

-----------------------------------------------------------------------------
\* A transaction: the movements still to apply in order, the row the current
\* one has read, and what was written so far and is locked until the end.

NoTx == [open |-> FALSE, todo |-> <<>>, fresh |-> FALSE, before |-> Zero,
         held |-> {}, after |-> [i \in Item |-> Zero],
         posted |-> [i \in Item |-> Zero], alarms |-> {}]

TxType == [open : BOOLEAN, todo : Seq(Move), fresh : BOOLEAN, before : Row,
           held : SUBSET Item, after : [Item -> Row],
           posted : [Item -> Delta], alarms : SUBSET Item]

Pending(moves) == [NoTx EXCEPT !.open = TRUE, !.todo = moves]

\* What request r's transaction sees in row i: its own write, or what is committed.
View(r, i) == IF i \in tx[r].held THEN tx[r].after[i] ELSE rows[i]

\* A transaction after its read of a row, and after its write of row i.
Loaded(t, row) == [t EXCEPT !.fresh = TRUE, !.before = row]

\* A bug: every write at or below the level raises the alert again.
AlarmsWheneverLow(t, i, row) ==
    IF ReorderLevel[i[1]] > 0 /\ row["available"] <= ReorderLevel[i[1]]
    THEN t.alarms \cup {i} ELSE t.alarms

Alarms(t, i, row) ==
    IF Crosses(i, t.before, row) THEN t.alarms \cup {i} ELSE t.alarms

Written(t, i, row) ==
    [t EXCEPT !.todo   = Tail(@),
              !.fresh  = FALSE,
              !.before = Zero,
              !.held   = @ \cup {i},
              !.after[i]  = row,
              !.posted[i] = Plus(@, t.todo[1].delta),
              !.alarms = Alarms(t, i, row)]

Target(r) == tx[r].todo[1].item
Result(r) == Plus(tx[r].before, tx[r].todo[1].delta)

Ready(r) == tx[r].open /\ tx[r].todo # <<>> /\ tx[r].fresh

Insufficient(r) == Ready(r) /\ \E k \in Bucket : Result(r)[k] < 0
Overflows(r)    == Ready(r) /\ ~Insufficient(r) /\ ~Fits(Result(r))

\* r's next write waits for the transaction of s to end.
WaitsForRow(r, s) ==
    Ready(r) /\ Fits(Result(r)) /\ s # r /\ Target(r) \in tx[s].held

-----------------------------------------------------------------------------
\* The request a handler serves: the document it is about (itself, if it is
\* about none) and the stock it will touch.  Two requests about one document
\* overlap only if both run a DocRacing operation; two about different
\* documents that touch a common item, only if both run a StockRacing one.

NewRequest == [op |-> "none", status |-> "new", doc |-> "none", stock |-> {}]

Busy(r) == req[r].status = "busy"

MayStart(r, op, doc, stock) ==
    /\ req[r].status = "new"
    /\ \A s \in Request : Busy(s) =>
          IF req[s].doc = doc
          THEN {op, req[s].op} \subseteq DocRacing
          ELSE req[s].stock \cap stock # {} => {op, req[s].op} \subseteq StockRacing

Start(r, op, doc, stock) ==
    /\ MayStart(r, op, doc, stock)
    /\ req' = [req EXCEPT ![r] = [op |-> op, status |-> "busy",
                                  doc |-> doc, stock |-> stock]]

Answer(r, how) == req' = [req EXCEPT ![r].status = how]

InScope(r, w) == w \in Scope[r]

-----------------------------------------------------------------------------
\* The statements of applyMovementInTx, over the transaction r has open.

StockInit ==
    /\ rows = OpeningStock
    /\ ledger = OpeningStock
    /\ alerts = [i \in Item |-> 0]
    /\ tx = [r \in Request |-> NoTx]
    /\ req = [r \in Request |-> NewRequest]

\* findUnique of the row; a missing row reads as zeros.
ReadItem(r) ==
    /\ tx[r].open /\ tx[r].todo # <<>> /\ ~tx[r].fresh
    /\ tx' = [tx EXCEPT ![r] = Loaded(@, View(r, Target(r)))]
    /\ UNCHANGED <<rows, ledger, alerts, req>>

\* A bucket would go below zero: throw, and the transaction rolls back.
Refuse(r) ==
    /\ Insufficient(r)
    /\ tx' = [tx EXCEPT ![r] = NoTx]
    /\ Answer(r, "refused")
    /\ UNCHANGED <<rows, ledger, alerts>>

\* A bug: only the available bucket is checked before the row is written.
WriteItemAvailableOnly(r) ==
    /\ Ready(r)
    /\ Result(r)["available"] >= 0
    /\ \A s \in Request \ {r} : Target(r) \notin tx[s].held
    /\ tx' = [tx EXCEPT ![r] = Written(@, Target(r), Result(r))]
    /\ UNCHANGED <<rows, ledger, alerts, req>>

\* upsert with the computed row, then the movement, the activity row and, on a
\* downward crossing, the alert.  The upsert waits for the row's lock.
WriteItem(r) ==
    /\ Ready(r)
    /\ Fits(Result(r))
    /\ \A s \in Request \ {r} : Target(r) \notin tx[s].held
    /\ tx' = [tx EXCEPT ![r] = Written(@, Target(r), Result(r))]
    /\ UNCHANGED <<rows, ledger, alerts, req>>

\* A bug: the commit does not release the locks of the rows it wrote.
InstallKeepsLocks(r) ==
    /\ tx[r].open /\ tx[r].todo = <<>>
    /\ rows' = [i \in Item |-> View(r, i)]
    /\ ledger' = [i \in Item |-> Plus(ledger[i], tx[r].posted[i])]
    /\ alerts' = [i \in Item |-> IF i \in tx[r].alarms THEN alerts[i] + 1
                                                       ELSE alerts[i]]
    /\ tx' = [tx EXCEPT ![r].open = FALSE]

\* COMMIT: the written rows, their movements and alerts become visible at once.
Install(r) ==
    /\ tx[r].open /\ tx[r].todo = <<>>
    /\ rows' = [i \in Item |-> View(r, i)]
    /\ ledger' = [i \in Item |-> Plus(ledger[i], tx[r].posted[i])]
    /\ alerts' = [i \in Item |-> IF i \in tx[r].alarms THEN alerts[i] + 1
                                                       ELSE alerts[i]]
    /\ tx' = [tx EXCEPT ![r] = NoTx]

\* The database or the process gives the request up: a crash, a lost
\* connection, Prisma's transaction timeout, a value that does not fit its
\* column, a first insert that lost the row to another, or the deadlock
\* detector.  Nothing its open transaction wrote survives.
Abort(r) ==
    /\ Busy(r)
    /\ tx' = [tx EXCEPT ![r] = NoTx]
    /\ Answer(r, "failed")
    /\ UNCHANGED <<rows, ledger, alerts>>

\* r is on a cycle of transactions that wait for each other; each waits for one
\* row and a row has one holder, so the cycles are exactly the sets that the
\* waiting maps onto themselves.
OnCycle(Waits(_, _), r) ==
    \E C \in SUBSET Request :
        /\ r \in C
        /\ \A c \in C : /\ \E d \in C : Waits(c, d)
                        /\ \E d \in C : Waits(d, c)

\* The aborts that are certain to come: the two a database always reports.
MustAbort(r) == Overflows(r) \/ OnCycle(WaitsForRow, r)

-----------------------------------------------------------------------------
\* The tables, transactions and requests keep their types.
StockTypeOK ==
    /\ rows \in [Item -> Row]
    /\ ledger \in [Item -> Delta]
    /\ alerts \in [Item -> Nat]
    /\ tx \in [Request -> TxType]
    /\ DOMAIN req = Request
    /\ \A r \in Request :
          req[r].status \in {"new", "busy", "ok", "refused", "failed"}

(***************************************************************************)
(* Fails closed (inventory.service.ts:88): no schedule of requests, however *)
(* they interleave, leaves a bucket below zero or a total its columns       *)
(* cannot hold.                                                             *)
(***************************************************************************)
StockInRange == \A i \in Item : Fits(rows[i])

(***************************************************************************)
(* The ledger reconciles (schema.prisma:220): every bucket is the sum of    *)
(* the deltas of the item's movements.                                      *)
(***************************************************************************)
LedgerReconciles == ledger = rows

(***************************************************************************)
(* A LOW_STOCK alert is committed with exactly the commits that take the    *)
(* available stock of an item down across its reorder level                 *)
(* (inventory.service.ts:182).                                              *)
(***************************************************************************)
AlertOnCrossing ==
    [][\A i \in Item :
          alerts'[i] = alerts[i] + (IF Crosses(i, rows[i], rows'[i]) THEN 1 ELSE 0)
      ]_<<rows, alerts>>
=============================================================================
