---------------------------- MODULE StockCounts ----------------------------
(***************************************************************************)
(* StockCountsService, next to the adjust and reserve requests of           *)
(* InventoryService: a count snapshots the available stock of a warehouse,  *)
(* takes the counted quantities, and reconciles the stock to them.  Every   *)
(* handler checks the status it loaded; no statement checks it again.       *)
(***************************************************************************)
EXTENDS StockDb, Functions

CONSTANTS
    Count,         \* ids the autoincrement can hand out in a run
    Entries,       \* bodies of enterCounts: Seq([product, counted])
    ByName,        \* per set of products, its members in the order of their names
    Stocked,       \* the items whose row exists when the run starts
    OpeningCounts, \* the counts the run starts with
    MaxQuantity    \* bound of the quantities of adjust and reserve

\* The lines of a count are a function of the products it covers; counted has
\* those whose quantity was entered.
IsLines(f) == DOMAIN f \subseteq Product /\ f \in [DOMAIN f -> Nat]

IsCount(c) ==
    /\ DOMAIN c = {"status", "warehouse", "recorded", "counted"}
    /\ c.status \in {"NONE", "OPEN", "RECONCILED"} /\ c.warehouse \in Warehouse
    /\ IsLines(c.recorded) /\ IsLines(c.counted)
    /\ DOMAIN c.counted \subseteq DOMAIN c.recorded

ASSUME CountsAssumption ==
    /\ MaxQuantity \in Nat
    /\ Stocked \subseteq Item
    /\ \A e \in Entries : e \in Seq([product : Product, counted : Nat]) /\ e # <<>>
    /\ \A ps \in SUBSET Product :
          /\ ByName[ps] \in Seq(ps) /\ IsInjective(ByName[ps])
          /\ \A p \in ps : \E n \in DOMAIN ByName[ps] : ByName[ps][n] = p
    /\ DOMAIN OpeningCounts = Count /\ \A c \in Count : IsCount(OpeningCounts[c])

VARIABLES
    stocked,   \* the items whose inventory_items row exists
    counts,    \* stock_counts and stock_count_lines
    job,       \* what each handler remembers between its statements
    trail      \* activity rows <<count, action>> written

vars == <<rows, ledger, alerts, tx, req, stocked, counts, job, trail>>

Inv == INSTANCE Inventory   \* the adjust and reserve requests

NoLines == [p \in {} |-> 0]
NoJob == [step |-> "none", id |-> "none", at |-> "none", todo |-> <<>>, lines |-> NoLines]

\* The quantities of new, and of old where new has none.
Over(new, old) == [p \in DOMAIN new \cup DOMAIN old |->
                      IF p \in DOMAIN new THEN new[p] ELSE old[p]]

-----------------------------------------------------------------------------
Lined(w) == {p \in Product : <<p, w>> \in stocked}
Items(c) == {<<p, counts[c].warehouse>> : p \in DOMAIN counts[c].recorded}

\* A bug: the status of the count is not checked.
ExpectedAny(op) == {"OPEN", "RECONCILED"}
Expected(op) == {"OPEN"}

Allowed(r, op, c) == /\ counts[c].status \in Expected(op)
                     /\ InScope(r, counts[c].warehouse)

\* Another open enterCounts has updated line p of count c.
LineLocked(r, c, p) ==
    \E s \in Request \ {r} :
        job[s].step = "enter" /\ job[s].id = c /\ p \in DOMAIN job[s].lines

-----------------------------------------------------------------------------
\* create: the available stock of every item row of the warehouse is read ...
Snapshot(r) ==
    \E c \in Count, w \in Warehouse :
        /\ InScope(r, w)
        /\ counts[c].status = "NONE"
        /\ Start(r, "create", c, {<<p, w>> : p \in Product})
        /\ job' = [job EXCEPT ![r] = [@ EXCEPT
                     !.step = "create", !.id = c, !.at = w,
                     !.lines = [p \in Lined(w) |-> rows[<<p, w>>]["available"]]]]
        /\ UNCHANGED <<rows, ledger, alerts, tx, stocked, counts, trail>>

\* ... and becomes the recorded quantity of the lines of an open count.
Create(r) ==
    /\ job[r].step = "create"
    /\ counts' = [counts EXCEPT ![job[r].id] =
                    [status |-> "OPEN", warehouse |-> job[r].at,
                     recorded |-> job[r].lines, counted |-> NoLines]]
    /\ job' = [job EXCEPT ![r].step = "log"]
    /\ UNCHANGED <<rows, ledger, alerts, tx, req, stocked, trail>>

\* enterCounts: load, status, and every entry is a line of the count.
LoadEnter(r) ==
    \E c \in Count, e \in Entries :
        /\ Allowed(r, "enter", c)
        /\ \A n \in DOMAIN e : e[n].product \in DOMAIN counts[c].recorded
        /\ Start(r, "enter", c, {})
        /\ job' = [job EXCEPT ![r] = [@ EXCEPT !.step = "enter", !.id = c, !.todo = e]]
        /\ UNCHANGED <<rows, ledger, alerts, tx, stocked, counts, trail>>

\* One stockCountLine.update of the loop, which waits for the lock of the line.
EnterLine(r) ==
    /\ job[r].step = "enter" /\ job[r].todo # <<>>
    /\ LET e == job[r].todo[1] IN
       /\ ~LineLocked(r, job[r].id, e.product)
       /\ job' = [job EXCEPT ![r] = [job[r] EXCEPT
                    !.todo = Tail(@),
                    !.lines = Over([p \in {e.product} |-> e.counted], @)]]
    /\ UNCHANGED <<rows, ledger, alerts, tx, req, stocked, counts, trail>>

\* A bug: the entries are committed but their transaction stays open.
EnterKeepsLocks(r) ==
    /\ job[r].step = "enter" /\ job[r].todo = <<>>
    /\ counts' = [counts EXCEPT ![job[r].id].counted = Over(job[r].lines, @)]
    /\ Answer(r, "ok")
    /\ UNCHANGED <<rows, ledger, alerts, tx, stocked, job, trail>>

\* The entries commit together, and their locks end ...
Enter(r) ==
    /\ job[r].step = "enter" /\ job[r].todo = <<>>
    /\ counts' = [counts EXCEPT ![job[r].id].counted = Over(job[r].lines, @)]
    /\ job' = [job EXCEPT ![r] = [@ EXCEPT !.step = "reload"]]
    /\ UNCHANGED <<rows, ledger, alerts, tx, req, stocked, trail>>

\* ... and the count is loaded once more for the answer.
Reload(r) ==
    /\ job[r].step = "reload"
    /\ job' = [job EXCEPT ![r] = NoJob]
    /\ Answer(r, "ok")
    /\ UNCHANGED <<rows, ledger, alerts, tx, stocked, counts, trail>>

\* reconcile: load and status; the counted lines are those of this load.
LoadReconcile(r) ==
    \E c \in Count :
        /\ Allowed(r, "reconcile", c)
        /\ Start(r, "reconcile", c, Items(c))
        /\ job' = [job EXCEPT ![r] = [@ EXCEPT
                     !.step = "reconcile", !.id = c, !.lines = counts[c].counted,
                     !.todo = ByName[DOMAIN counts[c].counted]]]
        /\ tx' = [tx EXCEPT ![r] = Pending(<<>>)]
        /\ UNCHANGED <<rows, ledger, alerts, stocked, counts, trail>>

\* The next counted line: available is read, and the difference to the counted
\* quantity is moved unless it is zero.  applyMovement reads the row again.
DifferenceFromSnapshot(r, p) ==   \* a bug: the snapshot taken at creation
    job[r].lines[p] - counts[job[r].id].recorded[p]

Difference(r, p) ==
    job[r].lines[p] - View(r, <<p, counts[job[r].id].warehouse>>)["available"]

CompareLine(r) ==
    /\ job[r].step = "reconcile" /\ tx[r].todo = <<>> /\ job[r].todo # <<>>
    /\ LET p == job[r].todo[1]
           move == [item  |-> <<p, counts[job[r].id].warehouse>>,
                    delta |-> Only("available", Difference(r, p))]
       IN tx' = [tx EXCEPT ![r].todo = IF Difference(r, p) = 0 THEN <<>> ELSE <<move>>]
    /\ job' = [job EXCEPT ![r].todo = Tail(@)]
    /\ UNCHANGED <<rows, ledger, alerts, req, stocked, counts, trail>>

PostLine(r) ==
    /\ job[r].step = "reconcile"
    /\ \/ ReadItem(r)  /\ UNCHANGED job
       \/ WriteItem(r) /\ UNCHANGED job
       \/ Refuse(r) /\ job' = [job EXCEPT ![r] = NoJob]
    /\ UNCHANGED <<stocked, counts, trail>>

\* The count is marked, whatever its status is by now, and all commits.
Reconcile(r) ==
    /\ job[r].step = "reconcile" /\ job[r].todo = <<>>
    /\ Install(r)
    /\ stocked' = stocked \cup tx[r].held
    /\ counts' = [counts EXCEPT ![job[r].id].status = "RECONCILED"]
    /\ job' = [job EXCEPT ![r] = [@ EXCEPT !.step = "log"]]
    /\ UNCHANGED <<req, trail>>

\* The activity row of create and reconcile, then the answer.
Log(r) ==
    /\ job[r].step = "log"
    /\ trail' = trail \cup {<<job[r].id, req[r].op>>}
    /\ job' = [job EXCEPT ![r] = NoJob]
    /\ Answer(r, "ok")
    /\ UNCHANGED <<rows, ledger, alerts, tx, stocked, counts>>

\* Out of scope, not open, or an entry that is not a line of the count.
Reject(r) ==
    /\ req[r].status = "new"
    /\ \/ \E w \in Warehouse : ~InScope(r, w)
       \/ \E c \in Count, op \in {"enter", "reconcile"} : ~Allowed(r, op, c)
       \/ \E c \in Count, e \in Entries :
             \E n \in DOMAIN e : e[n].product \notin DOMAIN counts[c].recorded
    /\ Answer(r, "refused")
    /\ UNCHANGED <<rows, ledger, alerts, tx, stocked, counts, job, trail>>

-----------------------------------------------------------------------------
\* The movements of InventoryService.
Movement(r) ==
    /\ job[r].step = "none"
    /\ \/ Inv!Adjust(r) /\ UNCHANGED stocked
       \/ Inv!Reserve(r) /\ UNCHANGED stocked
       \/ (ReadItem(r) \/ WriteItem(r) \/ Refuse(r) \/ Inv!Reply(r)) /\ UNCHANGED stocked
       \/ Inv!Commit(r) /\ stocked' = stocked \cup tx[r].held
    /\ UNCHANGED <<counts, job, trail>>

Fail(r) ==
    /\ Abort(r)
    /\ job' = [job EXCEPT ![r] = NoJob]
    /\ UNCHANGED <<stocked, counts, trail>>

Quiet == (\A r \in Request : ~Busy(r) /\ req[r].status # "new") /\ UNCHANGED vars

Serve(r) == \/ Create(r) \/ EnterLine(r) \/ Enter(r) \/ Reload(r)
            \/ CompareLine(r) \/ PostLine(r) \/ Reconcile(r) \/ Log(r)
            \/ Busy(r) /\ Movement(r)

Next == \/ \E r \in Request : \/ Snapshot(r) \/ LoadEnter(r) \/ LoadReconcile(r)
                              \/ req[r].status = "new" /\ Movement(r)
                              \/ Reject(r) \/ Serve(r) \/ Fail(r)
        \/ Quiet

Init == /\ StockInit
        /\ stocked = Stocked
        /\ counts = OpeningCounts
        /\ job = [r \in Request |-> NoJob]
        /\ trail = {}

WaitsFor(r, s) ==
    \/ WaitsForRow(r, s)
    \/ /\ job[r].step = "enter" /\ job[r].todo # <<>>
       /\ s # r /\ job[s].step = "enter" /\ job[s].id = job[r].id
       /\ job[r].todo[1].product \in DOMAIN job[s].lines

Hopeless(r) == Overflows(r) \/ OnCycle(WaitsFor, r)

Fairness == \A r \in Request : WF_vars(Serve(r)) /\ WF_vars(Hopeless(r) /\ Fail(r))

Spec == Init /\ [][Next]_vars /\ Fairness

-----------------------------------------------------------------------------
\* Tables and counts keep their types, and a handler between two statements is
\* about a count and has a caller that still waits.
TypeOK ==
    /\ StockTypeOK
    /\ stocked \subseteq Item
    /\ DOMAIN counts = Count /\ \A c \in Count : IsCount(counts[c])
    /\ \A r \in Request : job[r].step # "none" => Busy(r) /\ job[r].id \in Count

(***************************************************************************)
(* A reconciled count accepts no more quantities                            *)
(* (stock-counts.service.ts:243-248): its lines stay the evidence for the   *)
(* adjustments that were written from them.                                 *)
(***************************************************************************)
CountedFrozen ==
    [][\A c \in Count : counts[c].status = "RECONCILED" =>
          counts'[c].counted = counts[c].counted]_vars

(***************************************************************************)
(* Every request, being served once, is answered, although enterCounts      *)
(* locks the lines of a count in the order of its entries and reconcile     *)
(* locks stock rows in the order of the product names.                      *)
(***************************************************************************)
EveryRequestAnswered == <>[](\A r \in Request : ~Busy(r))

(***************************************************************************)
(* A reconciliation brings the available stock of every counted line to the *)
(* counted quantity, by a delta computed from the current available         *)
(* (stock-counts.service.ts:164-168): that is what its commit leaves.       *)
(***************************************************************************)
ReconcilesToCounted ==
    [][\A r \in Request : job[r].step = "reconcile" /\ job'[r].step = "log" =>
          \A p \in DOMAIN job[r].lines :
             rows'[<<p, counts[job[r].id].warehouse>>]["available"] = job[r].lines[p]]_vars

(***************************************************************************)
(* When no two requests race on the stock of an item and only entries       *)
(* overlap on one count, every handler is one step: a count opens with the  *)
(* stock of that moment, a request's quantities are entered together, and   *)
(* reconciling aligns the available stock with the count and closes it      *)
(* (stock-counts.service.ts:164-168, schema.prisma:394).                    *)
(***************************************************************************)
Atomic == INSTANCE AtomicCounts

ImplementsAtomicCounts == Atomic!AtomicCountsSpec
=============================================================================
