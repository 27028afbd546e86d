---------------------------- MODULE AtomicCounts ----------------------------
(***************************************************************************)
(* What StockCountsService promises beside the movements of                 *)
(* InventoryService: a count opens with the stock of that moment, takes     *)
(* all quantities of a request or none, and is reconciled in one step that  *)
(* makes the available stock what was counted and closes it.  Loads, locks, *)
(* transactions and refusals are not visible.                               *)
(***************************************************************************)
EXTENDS Stock, Sequences

CONSTANTS Count, Entries, Stocked, OpeningCounts, MaxQuantity

VARIABLES rows, stocked, counts

atomicVars == <<rows, stocked, counts>>

NoLines == [p \in {} |-> 0]

\* The products that a request names, and what it says of each in the end.
Named(e) == {e[n].product : n \in DOMAIN e}

Latest(e, p) == CHOOSE n \in DOMAIN e :
                   /\ e[n].product = p
                   /\ \A m \in DOMAIN e : e[m].product = p => m <= n

Told(e) == [p \in Named(e) |-> e[Latest(e, p)].counted]

Opened(c) ==
    /\ counts[c].status = "NONE"
    /\ \E w \in Warehouse :
          counts' = [counts EXCEPT ![c] =
                       [status |-> "OPEN", warehouse |-> w,
                        recorded |-> [p \in {q \in Product : <<q, w>> \in stocked}
                                         |-> rows[<<p, w>>]["available"]],
                        counted |-> NoLines]]
    /\ UNCHANGED <<rows, stocked>>

Entered(c, e) ==
    LET old == counts[c].counted IN
    /\ counts[c].status = "OPEN"
    /\ Named(e) \subseteq DOMAIN counts[c].recorded
    /\ counts' = [counts EXCEPT ![c].counted =
                    [p \in Named(e) \cup DOMAIN old |-> IF p \in Named(e) THEN Told(e)[p]
                                                                          ELSE old[p]]]
    /\ UNCHANGED <<rows, stocked>>

\* Every counted item has the counted quantity available; the other buckets and
\* items are as they were, and an item without a row gets one when it changes.
Reconciled(c) ==
    LET counted == counts[c].counted IN
    /\ counts[c].status = "OPEN"
    /\ counts' = [counts EXCEPT ![c].status = "RECONCILED"]
    /\ rows' = [i \in Item |->
                  IF i[2] = counts[c].warehouse /\ i[1] \in DOMAIN counted
                  THEN [rows[i] EXCEPT !["available"] = counted[i[1]]]
                  ELSE rows[i]]
    /\ stocked' = stocked \cup {i \in Item : rows'[i] # rows[i]}

\* An adjustment, or a reservation, of one item.
Booking(d) == \E q \in 1 .. MaxQuantity :
                 \/ d = Shift("available", "reserved", q)
                 \/ \E k \in {"available", "damaged"} : d = Only(k, q) \/ d = Only(k, -q)

Moved(i) ==
    /\ Booking(Minus(rows'[i], rows[i]))
    /\ rows' = [rows EXCEPT ![i] = rows'[i]]
    /\ stocked' = stocked \cup {i}
    /\ UNCHANGED counts

\* Each leaves every row in the range of its columns.
AtomicStep ==
    /\ \/ \E c \in Count : \/ Opened(c) \/ Reconciled(c)
                           \/ \E e \in Entries : Entered(c, e)
       \/ \E i \in Item : Moved(i)
    /\ \A i \in Item : Fits(rows'[i])

AtomicCountsSpec ==
    /\ rows = OpeningStock /\ stocked = Stocked /\ counts = OpeningCounts
    /\ [][AtomicStep]_atomicVars
=============================================================================
