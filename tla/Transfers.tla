----------------------------- MODULE Transfers -----------------------------
(***************************************************************************)
(* TransfersService: request, approve, cancel and receive of inter-         *)
(* warehouse transfers, each as the database steps of its handler.  Load    *)
(* and status check come before the transaction; cancel and receive then    *)
(* flip the status first, gated on the status they expect, and move the     *)
(* stock line by line; approve is a bare update.  The activity row is       *)
(* written after the commit, in a statement of its own.                     *)
(***************************************************************************)
EXTENDS StockDb, FiniteSets, Functions

CONSTANTS
    Transfer,          \* ids the autoincrement can hand out in a run
    Basket,            \* lines a request may carry: Seq([product, quantity])
    ByName,            \* per set of products, its members in the order of their names
    OpeningTransfers   \* the transfers the run starts with

Status == {"NONE", "REQUESTED", "APPROVED", "COMPLETED", "CANCELLED"}
TransferRow ==
    [status : Status, source : Warehouse, destination : Warehouse,
     quantity : [Product -> Nat]]

\* No product twice (assertNoDuplicateProducts), every quantity at least 1.
LineSeq == Seq([product : Product, quantity : Nat \ {0}])
NoDuplicates(b) == \A m, n \in DOMAIN b : b[m].product = b[n].product => m = n

ASSUME TransfersAssumption ==
    /\ \A b \in Basket : b \in LineSeq /\ b # <<>> /\ NoDuplicates(b)
    /\ \A ps \in SUBSET Product :
          /\ ByName[ps] \in Seq(ps) /\ IsInjective(ByName[ps])
          /\ \A p \in ps : \E n \in DOMAIN ByName[ps] : ByName[ps][n] = p
    /\ OpeningTransfers \in [Transfer -> TransferRow]

-----------------------------------------------------------------------------
\* What an open transfer holds on the source item, and what all of them do.
IsOpen(row) == row.status \in {"REQUESTED", "APPROVED"}

HeldBy(row, i) == IF IsOpen(row) /\ row.source = i[2] THEN row.quantity[i[1]] ELSE 0

OnTheWay(ts, i) == SumFunction([t \in Transfer |-> HeldBy(ts[t], i)])

\* A run starts where requests before it left off: every transfer goes from one
\* warehouse to another, and what the open ones hold is in transit.
ASSUME OpeningAssumption ==
    /\ IsFiniteSet(Transfer) /\ IsFiniteSet(Warehouse)
    /\ \A t \in Transfer : OpeningTransfers[t].status # "NONE" =>
          OpeningTransfers[t].source # OpeningTransfers[t].destination
    /\ \A i \in Item : OpeningStock[i]["inTransit"] = OnTheWay(OpeningTransfers, i)

VARIABLES
    transfers,  \* stock_transfers with their lines; "NONE" is an unused id
    job,        \* what each handler remembers between its statements
    trail       \* the activity rows <<transfer, operation>> written

vars == <<rows, ledger, alerts, tx, req, transfers, job, trail>>

NoRow == [status |-> "NONE"]
NoJob == [step |-> "none", id |-> "none", row |-> NoRow]

-----------------------------------------------------------------------------
\* The movements of the four handlers.

Lines(t) ==
    LET q == transfers[t].quantity
        names == ByName[{p \in Product : q[p] > 0}]
    IN  [n \in DOMAIN names |-> [product |-> names[n], quantity |-> q[names[n]]]]

Hold(lines, w) ==
    [n \in DOMAIN lines |->
        [item  |-> <<lines[n].product, w>>,
         delta |-> Shift("available", "inTransit", lines[n].quantity)]]

Release(lines, w) ==
    [n \in DOMAIN lines |->
        [item  |-> <<lines[n].product, w>>,
         delta |-> Shift("inTransit", "available", lines[n].quantity)]]

\* A bug: the destination is credited but the source's hold is not cleared.
LandKeepsHold(lines, source, destination) ==
    [n \in DOMAIN lines |->
        [item  |-> <<lines[n].product, destination>>,
         delta |-> Only("available", lines[n].quantity)]]

\* Line by line: the source's hold is cleared, then the destination is credited.
Land(lines, source, destination) ==
    [n \in 1 .. 2 * Len(lines) |->
        LET l == lines[(n + 1) \div 2] IN
        IF n % 2 = 1
        THEN [item  |-> <<l.product, source>>,
              delta |-> Only("inTransit", -l.quantity)]
        ELSE [item  |-> <<l.product, destination>>,
              delta |-> Only("available", l.quantity)]]

\* The quantity of each product in a basket, as the stored lines.
Stored(b) ==
    [p \in Product |->
        IF \E n \in DOMAIN b : b[n].product = p
        THEN b[CHOOSE n \in DOMAIN b : b[n].product = p].quantity ELSE 0]

Items(b, w) == {<<b[n].product, w>> : n \in DOMAIN b}

-----------------------------------------------------------------------------
Decisions == {"approve", "cancel", "receive"}

\* A bug: a transfer can be received before it is approved.
ExpectedUnapproved(op) == CASE op = "approve" -> {"REQUESTED"}
                            [] OTHER -> {"REQUESTED", "APPROVED"}

Expected(op) == CASE op = "approve" -> {"REQUESTED"}
                  [] op = "cancel"  -> {"REQUESTED", "APPROVED"}
                  [] op = "receive" -> {"APPROVED"}

\* Visible with scope over either end; a decision needs the end it acts on.
Visible(r, t) == InScope(r, transfers[t].source) \/ InScope(r, transfers[t].destination)
Authorised(r, op, t) ==
    InScope(r, IF op = "receive" THEN transfers[t].destination ELSE transfers[t].source)

Allowed(r, op, t) == /\ transfers[t].status \in Expected(op)
                     /\ Visible(r, t)
                     /\ Authorised(r, op, t)

StockOf(t) == Items(Lines(t), transfers[t].source)
                  \cup Items(Lines(t), transfers[t].destination)

\* Another transaction has written the row of t and has not ended.
RowLocked(r, t) ==
    \E s \in Request \ {r} : job[s].step = "posting" /\ job[s].id = t

-----------------------------------------------------------------------------
\* POST /transfers: the transfer is inserted and its stock held in one
\* transaction; nobody sees the row before the commit.
Create(r) ==
    \E t \in Transfer, source, destination \in Warehouse, b \in Basket :
        /\ source # destination
        /\ InScope(r, source)
        /\ transfers[t].status = "NONE"
        /\ ~\E s \in Request : Busy(s) /\ job[s].id = t
        /\ Start(r, "create", t, Items(b, source))
        /\ job' = [job EXCEPT ![r] =
                     [step |-> "posting", id |-> t,
                      row |-> [status |-> "REQUESTED", source |-> source,
                               destination |-> destination, quantity |-> Stored(b)]]]
        /\ tx' = [tx EXCEPT ![r] = Pending(Hold(b, source))]
        /\ UNCHANGED <<rows, ledger, alerts, transfers, trail>>

\* loadVisible, the scope of the acting end and the status check.
Load(r) ==
    \E op \in Decisions, t \in Transfer :
        /\ Allowed(r, op, t)
        /\ Start(r, op, t, StockOf(t))
        /\ job' = [job EXCEPT ![r] = [step |-> "loaded", id |-> t, row |-> NoRow]]
        /\ UNCHANGED <<rows, ledger, alerts, tx, transfers, trail>>

\* Same ends, an end outside the scope, an unknown transfer, a wrong status.
Reject(r) ==
    /\ req[r].status = "new"
    /\ \/ \E source, destination \in Warehouse :
             source = destination \/ ~InScope(r, source)
       \/ \E op \in Decisions, t \in Transfer : ~Allowed(r, op, t)
    /\ Answer(r, "refused")
    /\ UNCHANGED <<rows, ledger, alerts, tx, transfers, job, trail>>

\* approve: the loaded transfer is updated whatever its status is by now.
Approve(r) ==
    LET t == job[r].id IN
    /\ job[r].step = "loaded" /\ req[r].op = "approve"
    /\ ~RowLocked(r, t)
    /\ transfers' = [transfers EXCEPT ![t].status = "APPROVED"]
    /\ job' = [job EXCEPT ![r].step = "log"]
    /\ UNCHANGED <<rows, ledger, alerts, tx, req, trail>>

\* cancel, receive: the transaction flips the status if it is still an expected
\* one, and has then the movements to post.
Settling(r) == job[r].step = "loaded" /\ req[r].op \in {"cancel", "receive"}

Settled(op, t) ==
    [transfers[t] EXCEPT !.status = IF op = "cancel" THEN "CANCELLED" ELSE "COMPLETED"]

Moves(op, t) ==
    IF op = "cancel"
    THEN Release(Lines(t), transfers[t].source)
    ELSE Land(Lines(t), transfers[t].source, transfers[t].destination)

\* Bugs: the flip is not gated on the status; the flip is not part of the
\* transaction that moves the stock.
LockStatusUngated(r) ==
    LET t == job[r].id  op == req[r].op IN
    /\ Settling(r)
    /\ ~RowLocked(r, t)
    /\ job' = [job EXCEPT ![r].step = "posting", ![r].row = Settled(op, t)]
    /\ tx' = [tx EXCEPT ![r] = Pending(Moves(op, t))]
    /\ UNCHANGED <<rows, ledger, alerts, req, transfers, trail>>

LockStatusOutsideTx(r) ==
    LET t == job[r].id  op == req[r].op IN
    /\ Settling(r)
    /\ ~RowLocked(r, t)
    /\ transfers[t].status \in Expected(op)
    /\ transfers' = [transfers EXCEPT ![t] = Settled(op, t)]
    /\ job' = [job EXCEPT ![r].step = "posting", ![r].row = Settled(op, t)]
    /\ tx' = [tx EXCEPT ![r] = Pending(Moves(op, t))]
    /\ UNCHANGED <<rows, ledger, alerts, req, trail>>

LockStatus(r) ==
    LET t == job[r].id  op == req[r].op IN
    /\ Settling(r)
    /\ ~RowLocked(r, t)
    /\ transfers[t].status \in Expected(op)
    /\ job' = [job EXCEPT ![r].step = "posting", ![r].row = Settled(op, t)]
    /\ tx' = [tx EXCEPT ![r] = Pending(Moves(op, t))]
    /\ UNCHANGED <<rows, ledger, alerts, req, transfers, trail>>

\* The gated update matched no row: somebody else settled the transfer.
Conflict(r) ==
    /\ Settling(r)
    /\ ~RowLocked(r, job[r].id)
    /\ transfers[job[r].id].status \notin Expected(req[r].op)
    /\ job' = [job EXCEPT ![r] = NoJob]
    /\ Answer(r, "refused")
    /\ UNCHANGED <<rows, ledger, alerts, tx, transfers, trail>>

\* A bug: the failure of a line does not end the transaction of the flip.
PostLineKeepsFlip(r) ==
    \/ ReadItem(r)  /\ UNCHANGED <<transfers, job, trail>>
    \/ WriteItem(r) /\ UNCHANGED <<transfers, job, trail>>
    \/ Refuse(r) /\ UNCHANGED <<transfers, job, trail>>

\* The movements of the open transaction, one statement at a time.
PostLine(r) ==
    \/ ReadItem(r)  /\ UNCHANGED <<transfers, job, trail>>
    \/ WriteItem(r) /\ UNCHANGED <<transfers, job, trail>>
    \/ Refuse(r) /\ job' = [job EXCEPT ![r] = NoJob] /\ UNCHANGED <<transfers, trail>>

\* A bug: the caller is answered at the commit, with logTransfer still to run.
CommitAnswers(r) ==
    /\ job[r].step = "posting"
    /\ Install(r)
    /\ transfers' = [transfers EXCEPT ![job[r].id] = job[r].row]
    /\ job' = [job EXCEPT ![r].step = "log", ![r].row = NoRow]
    /\ Answer(r, "ok")
    /\ UNCHANGED trail

Commit(r) ==
    /\ job[r].step = "posting"
    /\ Install(r)
    /\ transfers' = [transfers EXCEPT ![job[r].id] = job[r].row]
    /\ job' = [job EXCEPT ![r].step = "log", ![r].row = NoRow]
    /\ UNCHANGED <<req, trail>>

\* logTransfer, then the answer.
Log(r) ==
    /\ job[r].step = "log"
    /\ trail' = trail \cup {<<job[r].id, req[r].op>>}
    /\ job' = [job EXCEPT ![r] = NoJob]
    /\ Answer(r, "ok")
    /\ UNCHANGED <<rows, ledger, alerts, tx, transfers>>

Fail(r) ==
    /\ Abort(r)
    /\ job' = [job EXCEPT ![r] = NoJob]
    /\ UNCHANGED <<transfers, trail>>

Quiet == (\A r \in Request : ~Busy(r) /\ req[r].status # "new") /\ UNCHANGED vars

Serve(r) == \/ Approve(r) \/ LockStatus(r) \/ Conflict(r)
            \/ PostLine(r) \/ Commit(r) \/ Log(r)

Next == \/ \E r \in Request : Create(r) \/ Load(r) \/ Reject(r) \/ Serve(r) \/ Fail(r)
        \/ Quiet

Init == /\ StockInit
        /\ transfers = OpeningTransfers
        /\ job = [r \in Request |-> NoJob]
        /\ trail = {}

Fairness == \A r \in Request : WF_vars(Serve(r)) /\ WF_vars(MustAbort(r) /\ Fail(r))

Spec == Init /\ [][Next]_vars /\ Fairness

-----------------------------------------------------------------------------
\* Tables and handlers keep their types, a handler between two statements is one
\* whose caller still waits, and a transaction is open exactly while it posts.
TypeOK ==
    /\ StockTypeOK
    /\ transfers \in [Transfer -> TransferRow]
    /\ trail \subseteq Transfer \X ({"create"} \cup Decisions)
    /\ \A r \in Request :
          /\ job[r].step \in {"none", "loaded", "posting", "log"}
          /\ job[r].step # "none" => Busy(r) /\ job[r].id \in Transfer
          /\ tx[r].open <=> job[r].step = "posting"

(***************************************************************************)
(* In-transit stock is held on the source item between request and receive  *)
(* (schema.prisma:350): the inTransit bucket of an item is exactly what the *)
(* open transfers out of its warehouse hold.                                *)
(***************************************************************************)
InTransitMatchesOpen == \A i \in Item : rows[i]["inTransit"] = OnTheWay(transfers, i)

(***************************************************************************)
(* Nothing is lost or double counted (schema.prisma:351): transfers leave   *)
(* the stock of a product, over all warehouses and buckets, as it was.      *)
(***************************************************************************)
OnHand(stock, p) == SumFunction([w \in Warehouse |-> Total(stock[<<p, w>>])])

StockConserved == \A p \in Product : OnHand(rows, p) = OnHand(OpeningStock, p)

(***************************************************************************)
(* The transfer lifecycle (schema.prisma:67-69): a settled transfer stays   *)
(* settled, and only an approved one is received.                           *)
(***************************************************************************)
Successors(status) ==
    CASE status = "NONE"      -> {"REQUESTED"}
      [] status = "REQUESTED" -> {"APPROVED", "CANCELLED"}
      [] status = "APPROVED"  -> {"COMPLETED", "CANCELLED"}
      [] OTHER                -> {}

LegalTransitions ==
    [][\A t \in Transfer : transfers'[t].status # transfers[t].status =>
          transfers'[t].status \in Successors(transfers[t].status)]_vars

(***************************************************************************)
(* At most one of the requests that cancel or receive a transfer is told it *)
(* did so (transfers.service.ts:213-215): cancels and receives of a         *)
(* transfer, in any overlap, have one winner.                               *)
(***************************************************************************)
Winner(r, t) == /\ req[r].op \in {"cancel", "receive"}
                /\ req[r].doc = t
                /\ req[r].status = "ok" \/ job[r].step = "log"

SettledAtMostOnce ==
    \A t \in Transfer : \A r, s \in Request : Winner(r, t) /\ Winner(s, t) => r = s

(***************************************************************************)
(* Every request is answered although its lines lock rows in the order the  *)
(* client or the product names give, and so can deadlock.                   *)
(***************************************************************************)
EveryRequestAnswered == \A r \in Request : Busy(r) ~> ~Busy(r)

(***************************************************************************)
(* Each handler is one atomic step of the transfers and the stock, however  *)
(* cancels and receives of a transfer overlap.                              *)
(***************************************************************************)
Atomic == INSTANCE AtomicTransfers

ImplementsAtomicTransfers == Atomic!AtomicTransfersSpec
=============================================================================
