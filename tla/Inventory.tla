----------------------------- MODULE Inventory -----------------------------
(***************************************************************************)
(* InventoryService: concurrent adjust and reserve requests, each of which  *)
(* is one applyMovement in a transaction of its own.                        *)
(***************************************************************************)
EXTENDS StockDb

CONSTANT MaxQuantity   \* bound of the quantities the requests carry

Quantity   == 1 .. MaxQuantity
Adjustable == {"available", "damaged"}

ASSUME InventoryAssumption == MaxQuantity \in Nat

-----------------------------------------------------------------------------
\* The transaction of one movement is opened.
Post(r, op, m) ==
    /\ Start(r, op, r, {m.item})
    /\ tx' = [tx EXCEPT ![r] = Pending(<<m>>)]
    /\ UNCHANGED <<rows, ledger, alerts>>

\* POST /inventory/adjust: a signed, non-zero change of one adjustable bucket.
Adjust(r) ==
    \E i \in Item, k \in Adjustable, q \in Quantity, sign \in {-1, 1} :
        /\ InScope(r, i[2])
        /\ Post(r, "adjust", [item |-> i, delta |-> Only(k, sign * q)])

\* POST /inventory/reserve: available stock is set aside.
Reserve(r) ==
    \E i \in Item, q \in Quantity :
        /\ InScope(r, i[2])
        /\ Post(r, "reserve", [item |-> i, delta |-> Shift("available", "reserved", q)])

\* Either request for a warehouse outside the caller's scope is a 403.
Forbid(r) ==
    /\ req[r].status = "new"
    /\ \E i \in Item : ~InScope(r, i[2])
    /\ Answer(r, "refused")
    /\ UNCHANGED <<rows, ledger, alerts, tx>>

\* The transaction commits; the handler still awaits that.
Commit(r) == Install(r) /\ UNCHANGED req

\* The commit is acknowledged and the handler answers with the item.  Until it
\* has, Abort can still fail the request: its movement stays.
Reply(r) ==
    /\ Busy(r) /\ ~tx[r].open
    /\ Answer(r, "ok")
    /\ UNCHANGED <<rows, ledger, alerts, tx>>

\* Every request has its answer.
Quiet == (\A r \in Request : ~Busy(r) /\ req[r].status # "new") /\ UNCHANGED stockVars

Serve(r) == ReadItem(r) \/ Refuse(r) \/ WriteItem(r) \/ Commit(r) \/ Reply(r)

Next ==
    \/ \E r \in Request : \/ Adjust(r) \/ Reserve(r) \/ Forbid(r)
                          \/ Serve(r)  \/ Abort(r)
    \/ Quiet

\* A handler that can take its next database step takes it, and a value that
\* does not fit its column is always reported.  No other abort is certain.
Fairness ==
    \A r \in Request : /\ WF_stockVars(Serve(r))
                       /\ WF_stockVars(MustAbort(r) /\ Abort(r))

Init == StockInit

Spec == Init /\ [][Next]_stockVars /\ Fairness

-----------------------------------------------------------------------------
\* The tables, transactions and requests keep their types.
TypeOK == StockTypeOK

(***************************************************************************)
(* Every request that reached the database is answered: waiting for a row's *)
(* lock is never for ever, because its holder commits or is rolled back.    *)
(***************************************************************************)
EveryRequestAnswered == \A r \in Request : Busy(r) ~> ~Busy(r)
=============================================================================
