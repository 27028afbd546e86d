------------------------------- MODULE Stock -------------------------------
(***************************************************************************)
(* The data of one (product x warehouse) stock row and the arithmetic of a  *)
(* movement over it: no state, so that the database model and the abstract  *)
(* specification of the stock share it.                                     *)
(***************************************************************************)
EXTENDS Integers

CONSTANTS
    Product,
    Warehouse,
    ReorderLevel,  \* [Product -> Nat], Product.reorderLevel; 0 is "no alert"
    OpeningStock,  \* the stock a run starts from
    MaxInt         \* the largest value of an int4 column

Item   == Product \X Warehouse
Bucket == {"available", "reserved", "damaged", "inTransit"}
Row    == [Bucket -> 0 .. MaxInt]
Delta  == [Bucket -> Int]

Zero == [k \in Bucket |-> 0]

\* Deltas that touch one bucket, or move q units from one bucket to another.
Only(k, q)         == [Zero EXCEPT ![k] = q]
Shift(from, to, q) == [Zero EXCEPT ![from] = -q, ![to] = q]

Plus(a, b)  == [k \in Bucket |-> a[k] + b[k]]
Minus(a, b) == [k \in Bucket |-> a[k] - b[k]]

Total(row) ==
    row["available"] + row["reserved"] + row["damaged"] + row["inTransit"]

\* The columns a movement writes (four buckets, before_qty, after_qty) fit int4.
Fits(row) == /\ \A k \in Bucket : row[k] \in 0 .. MaxInt
             /\ Total(row) <= MaxInt

\* The downward crossing of the reorder threshold of the item's product.
Crosses(i, before, after) ==
    /\ ReorderLevel[i[1]] > 0
    /\ before["available"] > ReorderLevel[i[1]]
    /\ after["available"] <= ReorderLevel[i[1]]

ASSUME StockAssumption ==
    /\ MaxInt \in Nat
    /\ ReorderLevel \in [Product -> Nat]
    /\ OpeningStock \in [Item -> Row]
    /\ \A i \in Item : Fits(OpeningStock[i])
=============================================================================
