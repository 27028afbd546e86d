-------------------------- MODULE AtomicTransfers --------------------------
(***************************************************************************)
(* What TransfersService promises: a request, an approval, a cancellation   *)
(* and a receipt are each one step that changes the transfer and its stock  *)
(* together.  Loads, locks, transactions and refusals are not visible.      *)
(***************************************************************************)
EXTENDS Stock

CONSTANTS Transfer, OpeningTransfers

VARIABLES rows, transfers

atomicVars == <<rows, transfers>>

\* The stock after lines are moved: source(i) and landed(i) are what changes.
Shifted(t, out, in) ==
    [i \in Item |->
        LET q == transfers'[t].quantity[i[1]] IN
        IF i[2] = transfers'[t].source
        THEN Plus(rows[i], [k \in Bucket |-> out[k] * q])
        ELSE IF i[2] = transfers'[t].destination
        THEN Plus(rows[i], [k \in Bucket |-> in[k] * q])
        ELSE rows[i]]

Becomes(t, from, to) ==
    /\ transfers[t].status \in from
    /\ transfers' = [transfers EXCEPT ![t].status = to]

Requested(t) ==
    /\ transfers[t].status = "NONE"
    /\ transfers'[t].status = "REQUESTED"
    /\ transfers'[t].source # transfers'[t].destination
    /\ transfers' = [transfers EXCEPT ![t] = transfers'[t]]
    /\ rows' = Shifted(t, Shift("available", "inTransit", 1), Zero)

Approved(t) == Becomes(t, {"REQUESTED"}, "APPROVED") /\ UNCHANGED rows

Cancelled(t) ==
    /\ Becomes(t, {"REQUESTED", "APPROVED"}, "CANCELLED")
    /\ rows' = Shifted(t, Shift("inTransit", "available", 1), Zero)

Received(t) ==
    /\ Becomes(t, {"APPROVED"}, "COMPLETED")
    /\ rows' = Shifted(t, Only("inTransit", -1), Only("available", 1))

\* Each leaves every row in the range of its columns.
AtomicStep ==
    /\ \E t \in Transfer : Requested(t) \/ Approved(t) \/ Cancelled(t) \/ Received(t)
    /\ \A i \in Item : Fits(rows'[i])

AtomicTransfersSpec ==
    /\ rows = OpeningStock /\ transfers = OpeningTransfers
    /\ [][AtomicStep]_atomicVars
=============================================================================
