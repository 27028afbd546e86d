-------------------------- MODULE InventoryProofs --------------------------
(***************************************************************************)
(* What the requests of Inventory preserve, for every set of requests,      *)
(* items, quantities and reorder levels: first whatever overlaps, then when *)
(* requests on one item do not.                                             *)
(***************************************************************************)
EXTENDS Inventory, StockDbProofs

\* An adjustment posts one well-typed movement, which changes something.
LEMMA AdjustPosts ==
  ASSUME NEW r \in Request, Adjust(r)
  PROVE  \E m \in Move : m.delta # Zero /\ Post(r, "adjust", m)
  <1>1. PICK i \in Item, k \in Adjustable, q \in Quantity, sign \in {-1, 1} :
          Post(r, "adjust", [item |-> i, delta |-> Only(k, sign * q)])
    BY DEF Adjust
  <1>2. sign * q \in Int \ {0} /\ k \in Bucket
    BY InventoryAssumption DEF Quantity, Adjustable, Bucket
  <1>3. Only(k, sign * q) \in Delta /\ Only(k, sign * q)[k] # Zero[k]
    BY <1>2, OnlyType DEF Only, Zero
  <1> QED BY <1>1, <1>3 DEF Move

\* So does a reservation.
LEMMA ReservePosts ==
  ASSUME NEW r \in Request, Reserve(r)
  PROVE  \E m \in Move : m.delta # Zero /\ Post(r, "reserve", m)
  <1>1. PICK i \in Item, q \in Quantity :
          Post(r, "reserve", [item |-> i, delta |-> Shift("available", "reserved", q)])
    BY DEF Reserve
  <1> DEFINE d == Shift("available", "reserved", q)
  <1>2. q \in Int \ {0} /\ {"available", "reserved"} \subseteq Bucket
    BY InventoryAssumption DEF Quantity, Bucket
  <1>3. d \in Delta /\ d["reserved"] # Zero["reserved"]
    BY <1>2, ShiftType DEF Shift, Zero
  <1> QED BY <1>1, <1>3 DEF Move

\* Opening the transaction of a movement keeps types and range.
LEMMA PostSafe ==
  ASSUME StockTypeOK, RangeInv, NEW r \in Request, NEW op, NEW m \in Move,
         Post(r, op, m)
  PROVE  StockTypeOK' /\ RangeInv'
  <1>1. <<m>> \in Seq(Move)
    OBVIOUS
  <1>2. tx' \in [Request -> TxType]
    BY <1>1, PendingType DEF Post, StockTypeOK
  <1>3. /\ DOMAIN req' = Request
        /\ \A s \in Request :
              req'[s].status \in {"new", "busy", "ok", "refused", "failed"}
    BY DEF Post, Start, StockTypeOK
  <1>4. \A s \in Request : \A i \in tx'[s].held : Fits(tx'[s].after[i])
    BY DEF Post, Pending, NoTx, RangeInv, StockTypeOK
  <1> QED BY <1>2, <1>3, <1>4 DEF Post, StockTypeOK, RangeInv, StockInRange

\* Every step of the requests keeps types and range.
LEMMA NextSafe ==
  ASSUME StockTypeOK, RangeInv, [Next]_stockVars
  PROVE  StockTypeOK' /\ RangeInv'
  <1>1. ASSUME NEW r \in Request, Adjust(r) PROVE StockTypeOK' /\ RangeInv'
    BY <1>1, AdjustPosts, PostSafe
  <1>2. ASSUME NEW r \in Request, Reserve(r) PROVE StockTypeOK' /\ RangeInv'
    BY <1>2, ReservePosts, PostSafe
  <1>3. ASSUME NEW r \in Request, Forbid(r) PROVE StockTypeOK' /\ RangeInv'
    BY <1>3, AnswerType DEF Forbid, StockTypeOK, RangeInv, StockInRange
  <1>4. ASSUME NEW r \in Request, ReadItem(r) PROVE StockTypeOK' /\ RangeInv'
    BY <1>4, ReadItemSafe
  <1>5. ASSUME NEW r \in Request, Refuse(r) PROVE StockTypeOK' /\ RangeInv'
    BY <1>5, RefuseSafe
  <1>6. ASSUME NEW r \in Request, WriteItem(r) PROVE StockTypeOK' /\ RangeInv'
    BY <1>6, WriteItemSafe
  <1>7. ASSUME NEW r \in Request, Commit(r) \/ Reply(r) PROVE StockTypeOK' /\ RangeInv'
    BY <1>7, InstallSafe, AnswerType DEF Commit, Reply, StockTypeOK, RangeInv, StockInRange
  <1>8. ASSUME NEW r \in Request, Abort(r) PROVE StockTypeOK' /\ RangeInv'
    BY <1>8, AbortSafe
  <1>9. CASE UNCHANGED stockVars
    BY <1>9 DEF stockVars, StockTypeOK, RangeInv, StockInRange
  <1> QED
    BY <1>1, <1>2, <1>3, <1>4, <1>5, <1>6, <1>7, <1>8, <1>9 DEF Next, Serve, Quiet

(***************************************************************************)
(* Types hold in every state: what is stored always has the columns' types. *)
(***************************************************************************)
THEOREM TypeCorrect == Spec => []TypeOK
  <1>1. Init => StockTypeOK /\ RangeInv
    BY InitType DEF Init
  <1>2. StockTypeOK /\ RangeInv /\ [Next]_stockVars => StockTypeOK' /\ RangeInv'
    BY NextSafe
  <1> QED BY <1>1, <1>2, PTL DEF Spec, TypeOK

(***************************************************************************)
(* applyMovement fails closed (inventory.service.ts:88): no interleaving of *)
(* any number of requests leaves a bucket below zero or a total too large   *)
(* for its column.                                                          *)
(***************************************************************************)
THEOREM StockStaysInRange == Spec => []StockInRange
  <1>1. Init => StockTypeOK /\ RangeInv
    BY InitType DEF Init
  <1>2. StockTypeOK /\ RangeInv /\ [Next]_stockVars => StockTypeOK' /\ RangeInv'
    BY NextSafe
  <1>3. RangeInv => StockInRange
    BY DEF RangeInv
  <1> QED BY <1>1, <1>2, <1>3, PTL DEF Spec

-----------------------------------------------------------------------------
(***************************************************************************)
(* What the requests guarantee when no two of them overlap on one item      *)
(* (StockRacing = {}): the ledger reconciles, and alerts are raised on      *)
(* crossings.  Requests on different items still interleave freely, and any *)
(* of them may abort at any point, after its commit too.                    *)
(***************************************************************************)
RequestType == [op : {"none", "adjust", "reserve"},
                status : {"new", "busy", "ok", "refused", "failed"},
                doc : Request \cup {"none"}, stock : SUBSET Item]

\* The three states of the transaction of movement m, whose row is now row:
\* opened, with the row read, with the row written.
Opened(m)    == Pending(<<m>>)
Fresh(m, row) == Loaded(Opened(m), row)
Done(m, row)  == Written(Fresh(m, row), m.item, Plus(row, m.delta))

\* What request r has done so far is one of these, for the movement it serves.
Serves(r, m) ==
    /\ req[r].stock = {m.item}
    /\ \/ tx[r] = Opened(m)
       \/ tx[r] = Fresh(m, rows[m.item])
       \/ tx[r] = Done(m, rows[m.item])

\* A request that is not over has opened its transaction, and has no other
\* once that one has committed.
Claims == \A r \in Request :
              /\ Busy(r) => req[r].doc = r
              /\ \/ tx[r] = NoTx
                 \/ Busy(r) /\ \E m \in Move : Serves(r, m)

Disjoint == \A r, s \in Request :
                Busy(r) /\ Busy(s) /\ r # s => req[r].stock \cap req[s].stock = {}

SerialInv ==
    /\ StockRacing = {}
    /\ StockTypeOK /\ RangeInv
    /\ req \in [Request -> RequestType]
    /\ LedgerReconciles
    /\ Claims
    /\ Disjoint

-----------------------------------------------------------------------------
\* The fields of a transaction that has just opened.
LEMMA OpenedFields ==
  ASSUME NEW m \in Move
  PROVE  /\ Opened(m).open /\ Opened(m).todo = <<m>> /\ ~Opened(m).fresh
         /\ Opened(m).held = {} /\ Opened(m).posted = [i \in Item |-> Zero]
         /\ Opened(m).alarms = {}
         /\ Opened(m) \in TxType
  <1>1. <<m>> \in Seq(Move)
    OBVIOUS
  <1> QED BY <1>1, PendingType DEF Opened, Pending, NoTx

\* The fields of one that has read its row.
LEMMA FreshFields ==
  ASSUME NEW m \in Move, NEW row \in Row
  PROVE  /\ Fresh(m, row).open /\ Fresh(m, row).todo = <<m>> /\ Fresh(m, row).fresh
         /\ Fresh(m, row).before = row
         /\ Fresh(m, row).held = {} /\ Fresh(m, row).posted = [i \in Item |-> Zero]
         /\ Fresh(m, row).alarms = {}
         /\ Fresh(m, row) \in TxType
  BY OpenedFields, LoadedType DEF Fresh, Loaded, TxType

\* What a transaction that has read is about to write is well typed.
LEMMA FreshWrites ==
  ASSUME NEW m \in Move, NEW row \in Row
  PROVE  /\ m.item \in Item /\ m.delta \in Delta /\ Plus(row, m.delta) \in Delta
         /\ Fresh(m, row) \in TxType
  BY FreshFields, PlusType, RowIsDelta DEF Move

\* A transaction that has written has nothing left to do.
LEMMA DoneFields ==
  ASSUME NEW m \in Move, NEW row \in Row
  PROVE  /\ Done(m, row).open /\ Done(m, row).todo = <<>>
         /\ ~Done(m, row).fresh
  <1>1. Fresh(m, row).open /\ Fresh(m, row).todo = <<m>>
    BY FreshFields
  <1>2. Tail(<<m>>) = <<>>
    OBVIOUS
  <1> QED BY ZenonT(60), <1>1, <1>2, FreshWrites, WrittenState DEF Done

\* It holds its one row.
LEMMA DoneHeld ==
  ASSUME NEW m \in Move, NEW row \in Row
  PROVE  Done(m, row).held = {m.item}
  BY FreshFields, FreshWrites, WrittenHeld DEF Done

\* That row is the one it read plus the delta.
LEMMA DoneAfter ==
  ASSUME NEW m \in Move, NEW row \in Row
  PROVE  Done(m, row).after[m.item] = Plus(row, m.delta)
  BY FreshWrites, WrittenAfter DEF Done

\* It raises the alarm exactly when that row has crossed.
LEMMA DoneAlarms ==
  ASSUME NEW m \in Move, NEW row \in Row
  PROVE  Done(m, row).alarms = IF Crosses(m.item, row, Plus(row, m.delta))
                               THEN {m.item} ELSE {}
  <1>1. Fresh(m, row).before = row /\ Fresh(m, row).alarms = {}
    BY FreshFields
  <1>2. Alarms(Fresh(m, row), m.item, Plus(row, m.delta)) =
          IF Crosses(m.item, row, Plus(row, m.delta)) THEN {m.item} ELSE {}
    BY <1>1 DEF Alarms
  <1> QED BY <1>2, FreshWrites, WrittenAlarms DEF Done

\* It books the delta on its item and nothing elsewhere.
LEMMA DonePosted ==
  ASSUME NEW m \in Move, NEW row \in Row, NEW i \in Item
  PROVE  Done(m, row).posted[i] = IF i = m.item THEN m.delta ELSE Zero
  <1>1. Fresh(m, row).todo[1] = m /\ Fresh(m, row).posted[i] = Zero
    BY FreshFields
  <1>2. Plus(Zero, m.delta) = m.delta
    BY FreshWrites, PlusZero
  <1>3. CASE i = m.item
    BY <1>1, <1>2, <1>3, FreshWrites, WrittenPosted DEF Done
  <1>4. CASE i # m.item
    BY <1>1, <1>4, FreshWrites, WrittenPosted DEF Done
  <1> QED BY <1>3, <1>4

\* The closed transaction is not open.
LEMMA NoTxFields == ~NoTx.open
  BY DEF NoTx

-----------------------------------------------------------------------------
\* Which of its three states an open transaction is in follows from what it
\* still has to do and whether it has read.
LEMMA OpenIsBusy ==
  ASSUME SerialInv, NEW r \in Request, tx[r].open
  PROVE  Busy(r) /\ \E m \in Move : Serves(r, m)
  BY NoTxFields DEF SerialInv, Claims

\* The row of a movement is a row that fits.
LEMMA RowType ==
  ASSUME SerialInv, NEW m \in Move
  PROVE  m.item \in Item /\ rows[m.item] \in Row /\ Fits(rows[m.item])
  BY DEF SerialInv, StockTypeOK, RangeInv, StockInRange, Move

\* A transaction that may read has just opened.
LEMMA WhenToRead ==
  ASSUME SerialInv, NEW r \in Request, NEW m \in Move, Serves(r, m),
         tx[r].todo # <<>>, ~tx[r].fresh
  PROVE  tx[r] = Opened(m)
  <1>1. rows[m.item] \in Row
    BY RowType
  <1>2. Fresh(m, rows[m.item]).fresh
    BY <1>1, FreshFields
  <1>3. Done(m, rows[m.item]).todo = <<>>
    BY <1>1, DoneFields
  <1>4. tx[r] # Fresh(m, rows[m.item])
    BY <1>2, Zenon
  <1>5. tx[r] # Done(m, rows[m.item])
    BY <1>3, Zenon
  <1> QED BY <1>4, <1>5 DEF Serves

\* One that has read still holds the committed row: nobody changed it since.
LEMMA WhenRead ==
  ASSUME SerialInv, NEW r \in Request, NEW m \in Move, Serves(r, m), tx[r].fresh
  PROVE  tx[r] = Fresh(m, rows[m.item])
  <1>1. rows[m.item] \in Row
    BY RowType
  <1>2. ~Opened(m).fresh
    BY OpenedFields
  <1>3. ~Done(m, rows[m.item]).fresh
    BY <1>1, DoneFields
  <1>4. tx[r] # Opened(m)
    BY <1>2, Zenon
  <1>5. tx[r] # Done(m, rows[m.item])
    BY <1>3, Zenon
  <1> QED BY <1>4, <1>5 DEF Serves

\* One that may commit has written its row.
LEMMA WhenDone ==
  ASSUME SerialInv, NEW r \in Request, NEW m \in Move, Serves(r, m), tx[r].todo = <<>>
  PROVE  tx[r] = Done(m, rows[m.item])
  <1>1. <<m>> # <<>>
    OBVIOUS
  <1> QED BY <1>1, RowType, OpenedFields, FreshFields DEF Serves

\* A step that keeps the rows and who is busy with what, and changes no open
\* transaction but r's, which stays one of the three, keeps the invariant.
LEMMA KeepsClaims ==
  ASSUME SerialInv, UNCHANGED <<rows, req>>, NEW r \in Request, Busy(r),
         NEW u, tx' = [tx EXCEPT ![r] = u], NEW m \in Move,
         req[r].stock = {m.item},
         \/ u = Opened(m)
         \/ u = Fresh(m, rows[m.item])
         \/ u = Done(m, rows[m.item])
  PROVE  Claims' /\ Disjoint'
  <1>1. tx'[r] = u /\ \A s \in Request \ {r} : tx'[s] = tx[s]
    BY DEF SerialInv, StockTypeOK
  <1>2. Serves(r, m)'
    BY <1>1 DEF Serves
  <1>3. \A s \in Request \ {r} : \A n \in Move : Serves(s, n) => Serves(s, n)'
    BY <1>1 DEF Serves
  <1>4. \A s \in Request : Busy(s)' = Busy(s) /\ req'[s] = req[s]
    BY DEF Busy
  <1>5. Claims'
    BY <1>1, <1>2, <1>3, <1>4 DEF SerialInv, Claims
  <1> QED BY <1>4, <1>5 DEF SerialInv, Disjoint

\* A step that ends r without touching the rows keeps the invariant.
LEMMA EndsRequest ==
  ASSUME SerialInv, UNCHANGED <<rows, ledger>>, NEW r \in Request,
         tx' = [tx EXCEPT ![r] = NoTx], NEW how \in {"ok", "refused", "failed"},
         Answer(r, how), StockTypeOK', RangeInv'
  PROVE  SerialInv'
  <1>1. /\ req' \in [Request -> RequestType]
        /\ \A s \in Request : /\ req'[s].doc = req[s].doc
                              /\ req'[s].stock = req[s].stock
        /\ \A s \in Request \ {r} : req'[s] = req[s]
        /\ ~Busy(r)'
    BY DEF SerialInv, Answer, RequestType, Busy
  <1>2. tx'[r] = NoTx /\ \A s \in Request \ {r} : tx'[s] = tx[s]
    BY DEF SerialInv, StockTypeOK
  <1>3. \A s \in Request : Busy(s)' => s # r /\ Busy(s)
    BY <1>1 DEF Busy
  <1>4. Claims'
    <2> SUFFICES ASSUME NEW s \in Request
                 PROVE  (/\ Busy(s) => req[s].doc = s
                         /\ \/ tx[s] = NoTx
                            \/ Busy(s) /\ \E m \in Move : Serves(s, m))'
      BY DEF Claims
    <2>1. CASE s = r
      BY <2>1, <1>1, <1>2
    <2>2. CASE s # r
      <3>1. Busy(s)' = Busy(s) /\ tx'[s] = tx[s] /\ req'[s] = req[s]
        BY <2>2, <1>1, <1>2 DEF Busy
      <3>2. \A m \in Move : Serves(s, m) => Serves(s, m)'
        BY <3>1 DEF Serves
      <3> QED BY <3>1, <3>2 DEF SerialInv, Claims
    <2> QED BY <2>1, <2>2
  <1>5. Disjoint'
    BY <1>1, <1>3 DEF SerialInv, Disjoint
  <1> QED BY <1>1, <1>4, <1>5 DEF SerialInv, LedgerReconciles

-----------------------------------------------------------------------------
\* The actions of Inventory.
LEMMA SerialInit == Init /\ StockRacing = {} => SerialInv
  <1> SUFFICES ASSUME Init, StockRacing = {} PROVE SerialInv
    OBVIOUS
  <1>1. StockTypeOK /\ RangeInv
    BY InitType DEF Init
  <1>2. req \in [Request -> RequestType] /\ \A r \in Request : ~Busy(r) /\ tx[r] = NoTx
    BY DEF Init, StockInit, NewRequest, RequestType, Busy
  <1> QED BY <1>1, <1>2 DEF SerialInv, Claims, Disjoint, LedgerReconciles, Init, StockInit

\* Opening a transaction: no busy request has the item, so the claims stay disjoint.
LEMMA PostSerial ==
  ASSUME SerialInv, NEW r \in Request, NEW op \in {"adjust", "reserve"},
         NEW m \in Move, Post(r, op, m)
  PROVE  SerialInv'
  <1>1. StockTypeOK' /\ RangeInv'
    BY PostSafe DEF SerialInv
  <1>2. m.item \in Item
    BY DEF Move
  <1>3. /\ req' \in [Request -> RequestType]
        /\ req'[r].doc = r /\ req'[r].stock = {m.item} /\ Busy(r)'
        /\ \A s \in Request \ {r} : req'[s] = req[s]
    BY <1>2 DEF SerialInv, Post, Start, RequestType, Busy
  <1>4. tx'[r] = Opened(m) /\ \A s \in Request \ {r} : tx'[s] = tx[s]
    BY DEF SerialInv, Post, StockTypeOK, Opened
  <1>5. Serves(r, m)'
    BY <1>3, <1>4 DEF Serves
  <1>6. \A s \in Request \ {r} : Busy(s)' = Busy(s)
    BY <1>3 DEF Busy
  <1>7. \A s \in Request \ {r} : \A n \in Move : Serves(s, n) => Serves(s, n)'
    BY <1>3, <1>4 DEF Serves, Post
  <1>8. Claims'
    BY <1>3, <1>4, <1>5, <1>6, <1>7 DEF SerialInv, Claims
  <1>9. \A s \in Request \ {r} : Busy(s) => req[s].stock \cap {m.item} = {}
    <2> SUFFICES ASSUME NEW s \in Request \ {r}, Busy(s)
                 PROVE  req[s].stock \cap {m.item} = {}
      OBVIOUS
    <2>1. req[s].doc # r
      BY DEF SerialInv, Claims
    <2>2. req[s].stock \cap {m.item} # {} => {op, req[s].op} \subseteq StockRacing
      BY <2>1 DEF Post, Start, MayStart
    <2> QED BY <2>2 DEF SerialInv
  <1>10. Disjoint'
    BY <1>3, <1>6, <1>9 DEF SerialInv, Disjoint
  <1> QED BY <1>1, <1>3, <1>8, <1>10 DEF SerialInv, LedgerReconciles, Post

\* A 403 ends a request that never opened a transaction.
LEMMA ForbidSerial ==
  ASSUME SerialInv, NEW r \in Request, Forbid(r)
  PROVE  SerialInv'
  <1>1. ~Busy(r) /\ tx[r] = NoTx
    BY DEF SerialInv, Claims, Forbid, Busy
  <1>2. tx' = [tx EXCEPT ![r] = NoTx]
    BY <1>1 DEF Forbid, SerialInv, StockTypeOK
  <1>3. StockTypeOK' /\ RangeInv'
    BY AnswerType DEF Forbid, SerialInv, StockTypeOK, RangeInv, StockInRange
  <1> QED BY <1>2, <1>3, EndsRequest DEF Forbid

\* The read takes the committed row.
LEMMA ReadSerial ==
  ASSUME SerialInv, NEW r \in Request, ReadItem(r)
  PROVE  SerialInv'
  <1>1. StockTypeOK' /\ RangeInv'
    BY ReadItemSafe DEF SerialInv
  <1>2. PICK m \in Move : Busy(r) /\ Serves(r, m)
    BY OpenIsBusy DEF ReadItem
  <1>3. tx[r] = Opened(m)
    BY <1>2, WhenToRead DEF ReadItem
  <1>4. tx[r].todo = <<m>> /\ tx[r].held = {}
    BY <1>3, OpenedFields
  <1>5. Target(r) = m.item
    BY <1>4 DEF Target
  <1>6. View(r, Target(r)) = rows[m.item]
    BY <1>4, <1>5 DEF View
  <1>7. tx' = [tx EXCEPT ![r] = Fresh(m, rows[m.item])]
    BY <1>3, <1>6 DEF ReadItem, Fresh
  <1>8. UNCHANGED <<rows, req>> /\ req[r].stock = {m.item}
    BY <1>2 DEF ReadItem, Serves
  <1>9. Claims' /\ Disjoint'
    BY <1>2, <1>7, <1>8, KeepsClaims
  <1> QED BY <1>1, <1>9 DEF ReadItem, SerialInv, LedgerReconciles

\* The write is computed from the row that is still committed.
LEMMA WriteSerial ==
  ASSUME SerialInv, NEW r \in Request, WriteItem(r)
  PROVE  SerialInv'
  <1>1. StockTypeOK' /\ RangeInv'
    BY WriteItemSafe DEF SerialInv
  <1>2. PICK m \in Move : Busy(r) /\ Serves(r, m)
    BY OpenIsBusy DEF WriteItem, Ready
  <1>3. tx[r] = Fresh(m, rows[m.item])
    BY <1>2, WhenRead DEF WriteItem, Ready
  <1>4. tx[r].todo = <<m>> /\ tx[r].before = rows[m.item]
    BY <1>3, RowType, FreshFields
  <1>5. Target(r) = m.item /\ Result(r) = Plus(rows[m.item], m.delta)
    BY <1>4 DEF Target, Result
  <1>6. tx' = [tx EXCEPT ![r] = Done(m, rows[m.item])]
    BY <1>3, <1>5 DEF WriteItem, Done
  <1>7. UNCHANGED <<rows, req>> /\ req[r].stock = {m.item}
    BY <1>2 DEF WriteItem, Serves
  <1>8. Claims' /\ Disjoint'
    BY <1>2, <1>6, <1>7, KeepsClaims
  <1> QED BY <1>1, <1>8 DEF WriteItem, SerialInv, LedgerReconciles

\* A refusal ends its request and changes no row.
LEMMA RefuseSerial ==
  ASSUME SerialInv, NEW r \in Request, Refuse(r)
  PROVE  SerialInv'
  <1>1. StockTypeOK' /\ RangeInv'
    BY RefuseSafe DEF SerialInv
  <1> QED BY <1>1, EndsRequest DEF Refuse

\* So does an abort.
LEMMA AbortSerial ==
  ASSUME SerialInv, NEW r \in Request, Abort(r)
  PROVE  SerialInv'
  <1>1. StockTypeOK' /\ RangeInv'
    BY AbortSafe DEF SerialInv
  <1> QED BY <1>1, EndsRequest DEF Abort

\* A request answered after its commit has no transaction any more.
LEMMA ReplySerial ==
  ASSUME SerialInv, NEW r \in Request, Reply(r)
  PROVE  SerialInv'
  <1>1. tx[r] = NoTx
    <2>1. \A m \in Move : Serves(r, m) => tx[r].open
      BY RowType, OpenedFields, FreshFields, DoneFields DEF Serves
    <2> QED BY <2>1 DEF SerialInv, Claims, Reply
  <1>2. tx' = [tx EXCEPT ![r] = NoTx]
    BY <1>1 DEF Reply, SerialInv, StockTypeOK
  <1>3. StockTypeOK' /\ RangeInv'
    BY AnswerType DEF Reply, SerialInv, StockTypeOK, RangeInv, StockInRange
  <1> QED BY <1>2, <1>3, EndsRequest DEF Reply

\* What a commit does: the row of one movement changes by its delta, the ledger
\* books that delta, and the alert depends on that row alone.
LEMMA CommitEffect ==
  ASSUME SerialInv, NEW r \in Request, Commit(r)
  PROVE  \E m \in Move :
            /\ Busy(r) /\ req[r].stock = {m.item}
            /\ \A i \in Item :
                  /\ rows'[i] = IF i = m.item THEN Plus(rows[i], m.delta) ELSE rows[i]
                  /\ ledger'[i] = IF i = m.item THEN Plus(ledger[i], m.delta) ELSE ledger[i]
                  /\ alerts'[i] = IF i = m.item /\ Crosses(i, rows[i], rows'[i])
                                  THEN alerts[i] + 1 ELSE alerts[i]
  <1>1. PICK m \in Move : Busy(r) /\ Serves(r, m)
    BY OpenIsBusy DEF Commit, Install
  <1>2. tx[r] = Done(m, rows[m.item])
    BY <1>1, WhenDone DEF Commit, Install
  <1>3. /\ tx[r].held = {m.item}
        /\ tx[r].after[m.item] = Plus(rows[m.item], m.delta)
    BY <1>2, RowType, DoneHeld, DoneAfter
  <1>4. \A i \in Item : tx[r].posted[i] = IF i = m.item THEN m.delta ELSE Zero
    BY <1>2, RowType, DonePosted
  <1>5. tx[r].alarms = IF Crosses(m.item, rows[m.item], Plus(rows[m.item], m.delta))
                       THEN {m.item} ELSE {}
    BY <1>2, RowType, DoneAlarms
  <1>6. \A i \in Item :
           rows'[i] = IF i = m.item THEN Plus(rows[i], m.delta) ELSE rows[i]
    BY <1>3 DEF Commit, Install, View
  <1>7. \A i \in Item :
           ledger'[i] = IF i = m.item THEN Plus(ledger[i], m.delta) ELSE ledger[i]
    <2>1. \A i \in Item : Plus(ledger[i], Zero) = ledger[i]
      BY PlusZero DEF SerialInv, StockTypeOK
    <2> QED BY <1>4, <2>1 DEF Commit, Install
  <1>8. \A i \in Item :
           alerts'[i] = IF i = m.item /\ Crosses(i, rows[i], rows'[i])
                        THEN alerts[i] + 1 ELSE alerts[i]
    BY <1>5, <1>6 DEF Commit, Install
  <1>9. req[r].stock = {m.item}
    BY <1>1 DEF Serves
  <1> QED BY <1>1, <1>6, <1>7, <1>8, <1>9

\* The commit keeps the ledger equal to the rows, and the other claims as they were.
LEMMA CommitSerial ==
  ASSUME SerialInv, NEW r \in Request, Commit(r)
  PROVE  SerialInv'
  <1>1. StockTypeOK' /\ RangeInv'
    BY InstallSafe DEF SerialInv, Commit
  <1>2. PICK m \in Move :
            /\ Busy(r) /\ req[r].stock = {m.item}
            /\ \A i \in Item :
                  /\ rows'[i] = IF i = m.item THEN Plus(rows[i], m.delta) ELSE rows[i]
                  /\ ledger'[i] = IF i = m.item THEN Plus(ledger[i], m.delta) ELSE ledger[i]
    BY CommitEffect
  <1>3. LedgerReconciles'
    <2>1. \A i \in Item : ledger'[i] = rows'[i]
      BY <1>2 DEF SerialInv, LedgerReconciles
    <2> QED BY <1>1, <2>1 DEF StockTypeOK, LedgerReconciles
  <1>4. /\ req' \in [Request -> RequestType]
        /\ \A s \in Request : req'[s] = req[s] /\ Busy(s)' = Busy(s)
    BY DEF SerialInv, Commit, Busy
  <1>5. tx'[r] = NoTx /\ \A s \in Request \ {r} : tx'[s] = tx[s]
    BY DEF SerialInv, StockTypeOK, Commit, Install
  <1>6. ASSUME NEW s \in Request \ {r}, Busy(s), NEW n \in Move, Serves(s, n)
        PROVE  Serves(s, n)'
    <2>1. n.item # m.item
      BY <1>2, <1>6 DEF SerialInv, Disjoint, Serves
    <2>2. rows'[n.item] = rows[n.item]
      BY <1>2, <2>1 DEF Move
    <2> QED BY <1>4, <1>5, <1>6, <2>2 DEF Serves
  <1>7. Claims'
    BY <1>4, <1>5, <1>6 DEF SerialInv, Claims
  <1>8. Disjoint'
    BY <1>4 DEF SerialInv, Disjoint
  <1> QED BY <1>1, <1>3, <1>4, <1>7, <1>8 DEF SerialInv

\* Every step keeps the invariant.
LEMMA StepSerial ==
  ASSUME SerialInv, [Next]_stockVars
  PROVE  SerialInv'
  <1>1. ASSUME NEW r \in Request, Adjust(r) PROVE SerialInv'
    BY <1>1, AdjustPosts, PostSerial
  <1>2. ASSUME NEW r \in Request, Reserve(r) PROVE SerialInv'
    BY <1>2, ReservePosts, PostSerial
  <1>3. CASE UNCHANGED stockVars
    <2>1. StockTypeOK' /\ RangeInv' /\ LedgerReconciles'
      BY <1>3 DEF stockVars, SerialInv, StockTypeOK, RangeInv, StockInRange, LedgerReconciles
    <2>2. Claims' /\ Disjoint'
      BY <1>3 DEF stockVars, SerialInv, Claims, Disjoint, Serves, Busy
    <2> QED BY <1>3, <2>1, <2>2 DEF stockVars, SerialInv
  <1> QED
    BY <1>1, <1>2, <1>3, ForbidSerial, ReadSerial, RefuseSerial, WriteSerial,
       CommitSerial, ReplySerial, AbortSerial DEF Next, Serve, Quiet

\* The invariant holds in every reachable state.
LEMMA SerialAlways == StockRacing = {} /\ Spec => []SerialInv
  <1>1. SerialInv /\ [Next]_stockVars => SerialInv'
    BY StepSerial
  <1> QED BY SerialInit, <1>1, PTL DEF Spec

-----------------------------------------------------------------------------
(***************************************************************************)
(* The ledger reconciles (schema.prisma:220) as long as requests on one     *)
(* item do not overlap: every bucket of every item is the sum of the deltas *)
(* of the item's movements, through any refusals and aborts.                *)
(***************************************************************************)
THEOREM SerialLedger == StockRacing = {} /\ Spec => []LedgerReconciles
  <1>1. SerialInv => LedgerReconciles
    BY DEF SerialInv
  <1> QED BY SerialAlways, <1>1, PTL

\* A step raises alerts as the rows that it changes say.
LEMMA StepAlerts ==
  ASSUME SerialInv, [Next]_stockVars, NEW i \in Item
  PROVE  \/ alerts'[i] = alerts[i] + (IF Crosses(i, rows[i], rows'[i]) THEN 1 ELSE 0)
         \/ UNCHANGED <<rows, alerts>>
  <1>1. ASSUME NEW r \in Request, Adjust(r) \/ Reserve(r)
        PROVE  UNCHANGED <<rows, alerts>>
    BY <1>1, AdjustPosts, ReservePosts DEF Post
  <1>2. ASSUME NEW r \in Request, \/ Forbid(r) \/ ReadItem(r) \/ Refuse(r)
                                  \/ WriteItem(r) \/ Reply(r) \/ Abort(r)
        PROVE  UNCHANGED <<rows, alerts>>
    BY <1>2 DEF Forbid, ReadItem, Refuse, WriteItem, Reply, Abort
  <1>3. CASE UNCHANGED stockVars
    BY <1>3 DEF stockVars
  <1>4. ASSUME NEW r \in Request, Commit(r)
        PROVE  alerts'[i] = alerts[i] + (IF Crosses(i, rows[i], rows'[i]) THEN 1 ELSE 0)
    <2>1. PICK m \in Move :
            /\ rows'[i] = IF i = m.item THEN Plus(rows[i], m.delta) ELSE rows[i]
            /\ alerts'[i] = IF i = m.item /\ Crosses(i, rows[i], rows'[i])
                            THEN alerts[i] + 1 ELSE alerts[i]
      BY <1>4, CommitEffect
    <2>2. alerts[i] \in Nat /\ rows[i]["available"] \in Int /\ ReorderLevel[i[1]] \in Int
      BY StockAssumption DEF SerialInv, StockTypeOK, Row, Bucket, Item
    <2>3. i # m.item => ~Crosses(i, rows[i], rows'[i])
      BY <2>1, <2>2 DEF Crosses
    <2> QED BY <2>1, <2>2, <2>3
  <1> QED BY <1>1, <1>2, <1>3, <1>4 DEF Next, Serve, Quiet

(***************************************************************************)
(* As long as requests on one item do not overlap, a LOW_STOCK alert is     *)
(* committed with exactly the commits that take the available stock of an   *)
(* item down across its reorder level (inventory.service.ts:182): none is   *)
(* missed, and none is raised twice or by a transaction that rolls back.    *)
(***************************************************************************)
THEOREM SerialAlerts == StockRacing = {} /\ Spec => AlertOnCrossing
  <1>1. SerialInv /\ [Next]_stockVars =>
          [\A i \in Item : alerts'[i] = alerts[i] + (IF Crosses(i, rows[i], rows'[i])
                                                     THEN 1 ELSE 0)]_<<rows, alerts>>
    BY StepAlerts
  <1> QED BY SerialAlways, <1>1, PTL DEF Spec, AlertOnCrossing
=============================================================================
