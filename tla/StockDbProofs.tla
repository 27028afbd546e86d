--------------------------- MODULE StockDbProofs ---------------------------
(***************************************************************************)
(* Lemmas about the database actions of StockDb, for every module that      *)
(* composes them: each preserves the types and the range of the stock.      *)
(***************************************************************************)
EXTENDS StockDb, Functions, TLAPS

-----------------------------------------------------------------------------
\* Arithmetic of rows.  Zero is a row; sums of deltas are deltas; a sum that
\* fits is a row again.
LEMMA ZeroType == Zero \in Row /\ Zero \in Delta
  BY StockAssumption DEF Zero, Row, Delta, Bucket

\* The sum of two deltas is a delta.
LEMMA PlusType ==
  ASSUME NEW a \in Delta, NEW b \in Delta
  PROVE  Plus(a, b) \in Delta
  BY DEF Plus, Delta

\* Every row is a delta.
LEMMA RowIsDelta == Row \subseteq Delta
  BY StockAssumption DEF Row, Delta

\* A sum that fits is a row.
LEMMA FitsType ==
  ASSUME NEW a, NEW b, Fits(Plus(a, b))
  PROVE  Plus(a, b) \in Row
  BY DEF Fits, Plus, Row

\* A movement of one bucket is a delta.
LEMMA OnlyType ==
  ASSUME NEW k \in Bucket, NEW q \in Int
  PROVE  Only(k, q) \in Delta
  BY DEF Only, Zero, Delta, Bucket

\* A shift between two buckets is a delta.
LEMMA ShiftType ==
  ASSUME NEW from \in Bucket, NEW to \in Bucket, NEW q \in Int
  PROVE  Shift(from, to, q) \in Delta
  BY DEF Shift, Zero, Delta, Bucket

\* A closed transaction is well typed, and so is one that is about to post moves.
LEMMA NoTxType == NoTx \in TxType
  <1>1. <<>> \in Seq(Move)
    OBVIOUS
  <1> QED
    BY <1>1, ZeroType DEF NoTx, TxType

\* A transaction that has moves to post is well typed.
LEMMA PendingType ==
  ASSUME NEW moves \in Seq(Move)
  PROVE  Pending(moves) \in TxType
  BY NoTxType DEF Pending, TxType

\* So is one that has read its row.
LEMMA LoadedType ==
  ASSUME NEW t \in TxType, NEW row \in Row
  PROVE  Loaded(t, row) \in TxType
  BY DEF Loaded, TxType

\* A write is well typed, locks its row, and shows the new one to its own reads.
LEMMA WrittenType ==
  ASSUME NEW t \in TxType, NEW i \in Item, NEW row \in Row,
         t.todo[1].delta \in Delta, Tail(t.todo) \in Seq(Move)
  PROVE  /\ Written(t, i, row) \in TxType
         /\ Written(t, i, row).held = t.held \cup {i}
         /\ Written(t, i, row).after = [t.after EXCEPT ![i] = row]
  <1>1. Alarms(t, i, row) \in SUBSET Item
    BY DEF Alarms, TxType
  <1>2. Plus(t.posted[i], t.todo[1].delta) \in Delta
    BY PlusType DEF TxType
  <1> QED BY <1>1, <1>2, ZeroType DEF Written, TxType

\* A write takes one movement off the list.
LEMMA WrittenState ==
  ASSUME NEW t \in TxType, NEW i \in Item, NEW row \in Delta
  PROVE  /\ Written(t, i, row).open = t.open
         /\ Written(t, i, row).todo = Tail(t.todo)
         /\ Written(t, i, row).fresh = FALSE
  BY DEF Written, TxType

\* A write locks its row.
LEMMA WrittenHeld ==
  ASSUME NEW t \in TxType, NEW i \in Item, NEW row \in Delta
  PROVE  Written(t, i, row).held = t.held \cup {i}
  BY DEF Written, TxType

\* A write shows its row to the reads of its own transaction.
LEMMA WrittenAfter ==
  ASSUME NEW t \in TxType, NEW i \in Item, NEW row \in Delta
  PROVE  Written(t, i, row).after[i] = row
  BY DEF Written, TxType

\* A write raises at most the alarm of its row.
LEMMA WrittenAlarms ==
  ASSUME NEW t \in TxType, NEW i \in Item, NEW row \in Delta
  PROVE  Written(t, i, row).alarms = Alarms(t, i, row)
  BY DEF Written, TxType

\* A write books the delta of its own row only.
LEMMA WrittenPosted ==
  ASSUME NEW t \in TxType, NEW i \in Item, NEW row \in Delta
  PROVE  /\ Written(t, i, row).posted[i] = Plus(t.posted[i], t.todo[1].delta)
         /\ \A j \in Item \ {i} : Written(t, i, row).posted[j] = t.posted[j]
  BY DEF Written, TxType

-----------------------------------------------------------------------------
\* The range of the stock, strengthened by what open transactions have written.
RangeInv ==
    /\ StockInRange
    /\ \A r \in Request : \A i \in tx[r].held : Fits(tx[r].after[i])

\* The tables start well typed and in range.
LEMMA InitType == StockInit => StockTypeOK /\ RangeInv
  <1> SUFFICES ASSUME StockInit PROVE StockTypeOK /\ RangeInv
    OBVIOUS
  <1>1. StockTypeOK
    BY StockAssumption, RowIsDelta, NoTxType
    DEF StockInit, StockTypeOK, NewRequest
  <1>2. RangeInv
    BY StockAssumption DEF StockInit, RangeInv, StockInRange, NoTx
  <1> QED BY <1>1, <1>2

\* What a transaction sees of an item is a row.
LEMMA ViewType ==
  ASSUME StockTypeOK, NEW r \in Request, NEW i \in Item
  PROVE  View(r, i) \in Row
  BY DEF StockTypeOK, TxType, View

\* The next movement of an open transaction is well typed.
LEMMA TargetType ==
  ASSUME StockTypeOK, NEW r \in Request, tx[r].todo # <<>>
  PROVE  /\ Target(r) \in Item
         /\ tx[r].todo[1].delta \in Delta
         /\ Tail(tx[r].todo) \in Seq(Move)
  <1>1. tx[r].todo \in Seq(Move)
    BY DEF StockTypeOK, TxType
  <1>2. tx[r].todo[1] \in Move
    BY <1>1
  <1> QED BY <1>1, <1>2 DEF Target, Move

\* Closing a transaction, committed or not, keeps the types of the others.
LEMMA CloseType ==
  ASSUME StockTypeOK, NEW r \in Request, tx' = [tx EXCEPT ![r] = NoTx]
  PROVE  tx' \in [Request -> TxType]
  BY NoTxType DEF StockTypeOK

\* An answer leaves the other requests as they were.
LEMMA AnswerType ==
  ASSUME StockTypeOK, NEW r \in Request,
         NEW how \in {"ok", "refused", "failed"}, Answer(r, how)
  PROVE  /\ DOMAIN req' = Request
         /\ \A s \in Request :
               req'[s].status \in {"new", "busy", "ok", "refused", "failed"}
  BY DEF StockTypeOK, Answer

\* The read keeps types and range.
LEMMA ReadItemSafe ==
  ASSUME StockTypeOK, RangeInv, NEW r \in Request, ReadItem(r)
  PROVE  StockTypeOK' /\ RangeInv'
  <1>1. View(r, Target(r)) \in Row
    BY ViewType, TargetType DEF ReadItem
  <1>2. tx' \in [Request -> TxType]
    BY <1>1, LoadedType DEF ReadItem, StockTypeOK
  <1>3. \A s \in Request : tx'[s].held = tx[s].held /\ tx'[s].after = tx[s].after
    BY DEF ReadItem, Loaded, StockTypeOK, TxType
  <1> QED BY <1>2, <1>3 DEF ReadItem, StockTypeOK, RangeInv, StockInRange

\* The write keeps types and range: what it makes the row of fits.
LEMMA WriteItemSafe ==
  ASSUME StockTypeOK, RangeInv, NEW r \in Request, WriteItem(r)
  PROVE  StockTypeOK' /\ RangeInv'
  <1> DEFINE i == Target(r)
             u == Written(tx[r], i, Result(r))
  <1>1. tx[r] \in TxType
    BY DEF StockTypeOK
  <1>2. /\ i \in Item
        /\ tx[r].todo[1].delta \in Delta
        /\ Tail(tx[r].todo) \in Seq(Move)
    BY TargetType DEF WriteItem, Ready
  <1>3. Result(r) \in Row /\ Fits(Result(r))
    BY FitsType DEF WriteItem, Result
  <1>4. /\ u \in TxType
        /\ u.held = tx[r].held \cup {i}
        /\ u.after = [tx[r].after EXCEPT ![i] = Result(r)]
    BY <1>1, <1>2, <1>3, WrittenType
  <1>5. tx' = [tx EXCEPT ![r] = u]
    BY DEF WriteItem
  <1> HIDE DEF u
  <1>6. tx' \in [Request -> TxType]
    BY <1>4, <1>5 DEF StockTypeOK
  <1>7. \A s \in Request : \A j \in tx'[s].held : Fits(tx'[s].after[j])
    BY <1>1, <1>2, <1>3, <1>4, <1>5 DEF RangeInv, TxType, StockTypeOK
  <1> QED BY <1>6, <1>7 DEF WriteItem, StockTypeOK, RangeInv, StockInRange

\* The rollback of a refused movement keeps types and range.
LEMMA RefuseSafe ==
  ASSUME StockTypeOK, RangeInv, NEW r \in Request, Refuse(r)
  PROVE  StockTypeOK' /\ RangeInv'
  BY CloseType, AnswerType DEF Refuse, StockTypeOK, RangeInv, StockInRange, NoTx

\* So does the rollback of an aborted one.
LEMMA AbortSafe ==
  ASSUME StockTypeOK, RangeInv, NEW r \in Request, Abort(r)
  PROVE  StockTypeOK' /\ RangeInv'
  BY CloseType, AnswerType DEF Abort, StockTypeOK, RangeInv, StockInRange, NoTx

\* The commit keeps types and range, whether or not the request has its answer
\* with it: every row it installs was written and fits.
LEMMA InstallSafe ==
  ASSUME StockTypeOK, RangeInv, NEW r \in Request, Install(r),
         Answer(r, "ok") \/ UNCHANGED req
  PROVE  StockTypeOK' /\ RangeInv'
  <1>1. rows' \in [Item -> Row]
    BY ViewType DEF Install
  <1>2. ledger' \in [Item -> Delta]
    BY PlusType DEF Install, StockTypeOK, TxType
  <1>3. alerts' \in [Item -> Nat]
    BY DEF Install, StockTypeOK
  <1>4. tx' \in [Request -> TxType]
    BY CloseType DEF Install
  <1>5. \A i \in Item : Fits(rows'[i])
    BY DEF Install, View, RangeInv, StockInRange
  <1>6. \A s \in Request : \A i \in tx'[s].held : Fits(tx'[s].after[i])
    BY DEF Install, RangeInv, StockTypeOK, NoTx
  <1>7. /\ DOMAIN req' = Request
        /\ \A s \in Request :
              req'[s].status \in {"new", "busy", "ok", "refused", "failed"}
    BY AnswerType DEF StockTypeOK
  <1> QED BY <1>1, <1>2, <1>3, <1>4, <1>5, <1>6, <1>7
          DEF StockTypeOK, RangeInv, StockInRange

-----------------------------------------------------------------------------
(***************************************************************************)
(* Transactions of several movements, while nobody else writes their rows:  *)
(* one with record t carries the change D of the rows base when what it has *)
(* written is changed by D already and what it has still to write will be.  *)
(***************************************************************************)
Carries(t, D, base) ==
    /\ \A i \in t.held : t.after[i] = Plus(base[i], D[i])
    /\ \A n \in DOMAIN t.todo : /\ t.todo[n].item \notin t.held
                               /\ t.todo[n].delta = D[t.todo[n].item]
    /\ \A m, n \in DOMAIN t.todo : t.todo[m].item = t.todo[n].item => m = n
    /\ \A i \in Item : \/ D[i] = Zero \/ i \in t.held
                       \/ \E n \in DOMAIN t.todo : t.todo[n].item = i
    /\ t.fresh => t.todo # <<>> /\ t.before = base[t.todo[1].item]

\* The rows it works on.
Within(t, stock) == /\ t.held \subseteq stock
                    /\ \A n \in DOMAIN t.todo : t.todo[n].item \in stock

\* A zero delta changes nothing.
LEMMA PlusZero ==
  ASSUME NEW d \in Delta
  PROVE  Plus(Zero, d) = d /\ Plus(d, Zero) = d
  BY DEF Plus, Zero, Delta

\* A sequence without its head: one element fewer, none of them twice.
LEMMA TailFacts ==
  ASSUME NEW S, NEW q \in Seq(S), q # <<>>
  PROVE  /\ q[1] \in S /\ Tail(q) \in Seq(S) /\ 1 \in DOMAIN q
         /\ \A n \in DOMAIN Tail(q) : n + 1 \in DOMAIN q /\ Tail(q)[n] = q[n + 1] /\ n + 1 # 1
         /\ \A n \in DOMAIN q : n = 1 \/ n - 1 \in DOMAIN Tail(q)
         /\ IsInjective(q) => /\ IsInjective(Tail(q))
                              /\ \A n \in DOMAIN Tail(q) : Tail(q)[n] # q[1]
  <1>1. /\ Len(q) \in Nat /\ Len(q) > 0 /\ DOMAIN q = 1 .. Len(q)
        /\ Tail(q) \in Seq(S) /\ q[1] \in S
    OBVIOUS
  <1>2. Len(Tail(q)) = Len(q) - 1 /\ DOMAIN Tail(q) = 1 .. (Len(q) - 1)
    BY <1>1
  <1>3. \A n \in 1 .. (Len(q) - 1) : Tail(q)[n] = q[n + 1]
    BY <1>1
  <1>4. /\ \A n \in DOMAIN Tail(q) : n + 1 \in DOMAIN q /\ Tail(q)[n] = q[n + 1] /\ n + 1 # 1
        /\ \A n \in DOMAIN q : n = 1 \/ n - 1 \in DOMAIN Tail(q)
        /\ 1 \in DOMAIN q
    BY <1>1, <1>2, <1>3
  <1>5. ASSUME IsInjective(q)
        PROVE  /\ IsInjective(Tail(q))
               /\ \A n \in DOMAIN Tail(q) : Tail(q)[n] # q[1]
    <2>1. \A m, n \in DOMAIN q : q[m] = q[n] => m = n
      BY <1>5 DEF IsInjective
    <2>2. \A m, n \in DOMAIN Tail(q) : Tail(q)[m] = Tail(q)[n] => m = n
      <3> SUFFICES ASSUME NEW m \in DOMAIN Tail(q), NEW n \in DOMAIN Tail(q),
                          Tail(q)[m] = Tail(q)[n]
                   PROVE  m = n
        OBVIOUS
      <3>1. m + 1 = n + 1 /\ m \in Int /\ n \in Int
        BY <1>2, <1>4, <2>1
      <3> QED BY <3>1
    <2> QED BY <1>4, <2>1, <2>2 DEF IsInjective
  <1> QED BY <1>1, <1>4, <1>5

\* What others do to other rows does not matter to it.
LEMMA CarriesFrame ==
  ASSUME NEW t \in TxType, NEW D, NEW base, NEW g, NEW stock,
         Carries(t, D, base), Within(t, stock),
         \A i \in Item \cap stock : g[i] = base[i]
  PROVE  Carries(t, D, g)
  <1>1. t.todo \in Seq(Move) /\ t.held \subseteq Item
    BY DEF TxType
  <1>2. t.fresh => g[t.todo[1].item] = base[t.todo[1].item]
    <2> SUFFICES ASSUME t.fresh PROVE g[t.todo[1].item] = base[t.todo[1].item]
      OBVIOUS
    <2>1. 1 \in DOMAIN t.todo /\ t.todo[1] \in Move
      BY <1>1, TailFacts DEF Carries
    <2> QED BY <2>1 DEF Within, Move
  <1>3. \A i \in t.held : g[i] = base[i]
    BY <1>1 DEF Within
  <1> QED BY <1>2, <1>3 DEF Carries

\* A transaction that has only to begin.
LEMMA CarriesPending ==
  ASSUME NEW moves, NEW D, NEW base, NEW stock,
         \A n \in DOMAIN moves : /\ moves[n].item \in stock
                                /\ moves[n].delta = D[moves[n].item],
         \A m, n \in DOMAIN moves : moves[m].item = moves[n].item => m = n,
         \A i \in Item : D[i] = Zero \/ \E n \in DOMAIN moves : moves[n].item = i
  PROVE  Carries(Pending(moves), D, base) /\ Within(Pending(moves), stock)
  <1>1. Pending(moves).todo = moves /\ Pending(moves).held = {} /\ ~Pending(moves).fresh
    BY DEF Pending, NoTx
  <1> QED BY <1>1 DEF Carries, Within

\* It reads the row it is to change next, which it has not written before.
LEMMA CarriesRead ==
  ASSUME StockTypeOK, NEW r \in Request, ReadItem(r), NEW D, NEW stock,
         Carries(tx[r], D, rows), Within(tx[r], stock)
  PROVE  Carries(tx'[r], D, rows) /\ Within(tx'[r], stock)
  <1>1. tx[r] \in TxType /\ tx[r].todo # <<>> /\ tx'[r] = Loaded(tx[r], View(r, Target(r)))
    BY DEF ReadItem, StockTypeOK
  <1>2. 1 \in DOMAIN tx[r].todo
    BY <1>1, TailFacts DEF TxType
  <1>3. View(r, Target(r)) = rows[tx[r].todo[1].item]
    BY <1>2 DEF View, Target, Carries
  <1>4. /\ tx'[r].todo = tx[r].todo /\ tx'[r].held = tx[r].held
        /\ tx'[r].after = tx[r].after /\ tx'[r].before = View(r, Target(r))
    BY <1>1 DEF Loaded, TxType
  <1> DEFINE t == tx[r]  u == tx'[r]
  <1>5. /\ u.todo = t.todo /\ u.held = t.held /\ u.after = t.after /\ t.todo # <<>>
        /\ u.before = rows[t.todo[1].item] /\ Carries(t, D, rows) /\ Within(t, stock)
    BY <1>1, <1>3, <1>4
  <1> HIDE DEF t, u
  <1>6. Carries(u, D, rows) /\ Within(u, stock)
    BY <1>5 DEF Carries, Within
  <1> QED BY <1>6 DEF u

\* It writes the changed row, and has one movement fewer to post.
LEMMA CarriesWrite ==
  ASSUME StockTypeOK, NEW r \in Request, WriteItem(r), NEW D, NEW stock,
         Carries(tx[r], D, rows), Within(tx[r], stock)
  PROVE  Carries(tx'[r], D, rows) /\ Within(tx'[r], stock)
  <1> DEFINE t == tx[r]
             i == Target(r)
             u == Written(t, i, Result(r))
  <1>1. t \in TxType /\ t.todo # <<>> /\ t.fresh /\ t.todo \in Seq(Move)
    BY DEF WriteItem, Ready, StockTypeOK, TxType
  <1>2. /\ 1 \in DOMAIN t.todo
        /\ \A n \in DOMAIN Tail(t.todo) :
              n + 1 \in DOMAIN t.todo /\ Tail(t.todo)[n] = t.todo[n + 1] /\ n + 1 # 1
        /\ \A n \in DOMAIN t.todo : n = 1 \/ n - 1 \in DOMAIN Tail(t.todo)
        /\ DOMAIN t.todo \subseteq Int /\ DOMAIN Tail(t.todo) \subseteq Int
    BY <1>1, TailFacts
  <1>3. Result(r) \in Delta /\ i \in Item
    BY <1>1, FitsType, RowIsDelta, TargetType DEF WriteItem, Result
  <1>4. tx' = [tx EXCEPT ![r] = u]
    BY DEF WriteItem
  <1>5. /\ u.todo = Tail(t.todo) /\ u.fresh = FALSE /\ u.held = t.held \cup {i}
        /\ u.after[i] = Result(r)
    <2>1. u.todo = Tail(t.todo) /\ u.fresh = FALSE
      BY <1>1, <1>3, WrittenState, Zenon
    <2>2. u.held = t.held \cup {i}
      BY <1>1, <1>3, WrittenHeld, Zenon
    <2>3. u.after[i] = Result(r)
      BY <1>1, <1>3, WrittenAfter, Zenon
    <2> QED BY <2>1, <2>2, <2>3
  <1>6. \A j \in t.held \ {i} : u.after[j] = t.after[j]
    BY <1>1, <1>3 DEF Written, TxType
  <1>7. tx'[r] = u
    BY <1>4 DEF StockTypeOK
  <1>8. Result(r) = Plus(rows[i], D[i]) /\ i = t.todo[1].item
    BY <1>1, <1>2 DEF Result, Target, Carries
  <1> HIDE DEF u, i, t
  <1>9. \A n \in DOMAIN u.todo : /\ u.todo[n] = t.todo[n + 1] /\ n + 1 \in DOMAIN t.todo
                                /\ u.todo[n].item # i
    <2> SUFFICES ASSUME NEW n \in DOMAIN u.todo
                 PROVE  /\ u.todo[n] = t.todo[n + 1] /\ n + 1 \in DOMAIN t.todo
                        /\ u.todo[n].item # i
      OBVIOUS
    <2>1. u.todo[n] = t.todo[n + 1] /\ n + 1 \in DOMAIN t.todo /\ n + 1 # 1
      BY <1>2, <1>5
    <2> QED BY <1>2, <1>8, <2>1 DEF Carries, t
  <1>10. \A j \in u.held : u.after[j] = Plus(rows[j], D[j])
    BY <1>5, <1>6, <1>8 DEF Carries, t
  <1>11. \A n \in DOMAIN u.todo : u.todo[n].item \notin u.held /\ u.todo[n].delta = D[u.todo[n].item]
    BY <1>5, <1>9 DEF Carries, t
  <1>12. \A m, n \in DOMAIN u.todo : u.todo[m].item = u.todo[n].item => m = n
    <2> SUFFICES ASSUME NEW m \in DOMAIN u.todo, NEW n \in DOMAIN u.todo,
                        u.todo[m].item = u.todo[n].item
                 PROVE  m = n
      OBVIOUS
    <2>1. m + 1 = n + 1
      BY <1>9 DEF Carries, t
    <2> QED BY <1>2, <1>5, <2>1
  <1>13. ASSUME NEW j \in Item
         PROVE  D[j] = Zero \/ j \in u.held \/ \E n \in DOMAIN u.todo : u.todo[n].item = j
    <2>1. CASE D[j] = Zero \/ j \in t.held
      BY <1>5, <2>1
    <2>2. CASE \E n \in DOMAIN t.todo : t.todo[n].item = j
      <3>1. PICK n \in DOMAIN t.todo : t.todo[n].item = j
        BY <2>2
      <3>2. CASE n = 1
        BY <1>5, <1>8, <3>1, <3>2
      <3>3. CASE n # 1
        <4>1. n - 1 \in DOMAIN u.todo /\ (n - 1) + 1 = n
          BY <1>2, <1>5, <3>3
        <4>2. u.todo[n - 1] = t.todo[n]
          BY <1>9, <4>1
        <4> QED BY <3>1, <4>1, <4>2
      <3> QED BY <3>2, <3>3
    <2> QED BY <2>1, <2>2 DEF Carries, t
  <1>14. Within(u, stock)
    BY <1>2, <1>5, <1>8, <1>9 DEF Within, t
  <1>15. Carries(u, D, rows)
    BY <1>5, <1>10, <1>11, <1>12, <1>13 DEF Carries
  <1> QED BY <1>7, <1>14, <1>15

\* When it has nothing left to post, its commit is the whole change.
LEMMA CarriesCommit ==
  ASSUME StockTypeOK, NEW r \in Request, Install(r), NEW D, Carries(tx[r], D, rows)
  PROVE  rows' = [i \in Item |-> Plus(rows[i], D[i])]
  <1>1. tx[r].todo = <<>> /\ rows' = [i \in Item |-> View(r, i)]
    BY DEF Install
  <1>2. \A i \in Item : View(r, i) = Plus(rows[i], D[i])
    <2> SUFFICES ASSUME NEW i \in Item PROVE View(r, i) = Plus(rows[i], D[i])
      OBVIOUS
    <2>1. CASE i \in tx[r].held
      BY <2>1 DEF View, Carries
    <2>2. CASE i \notin tx[r].held
      <3>1. D[i] = Zero
        BY <1>1, <2>2 DEF Carries
      <3>2. rows[i] \in Delta
        BY RowIsDelta DEF StockTypeOK
      <3> QED BY <2>2, <3>1, <3>2, PlusZero DEF View
    <2> QED BY <2>1, <2>2
  <1> QED BY <1>1, <1>2
-----------------------------------------------------------------------------
(***************************************************************************)
(* The ledger.  What a transaction has written of a row is what is          *)
(* committed plus what it has posted on it; it has posted on no other, and  *)
(* what it has read is what it sees.                                        *)
(***************************************************************************)
Even(t, base) ==
    /\ t.open = TRUE \/ t = NoTx
    /\ \A i \in t.held : t.after[i] = Plus(base[i], t.posted[i])
    /\ \A i \in Item \ t.held : t.posted[i] = Zero
    /\ t.fresh => /\ t.todo # <<>>
                  /\ t.before = IF t.todo[1].item \in t.held
                                THEN t.after[t.todo[1].item]
                                ELSE base[t.todo[1].item]

\* A row that t depends on: it has written it, or is about to.
Depends(t, i) == i \in t.held \/ (t.fresh /\ i = t.todo[1].item)

LedgerInv == LedgerReconciles /\ \A r \in Request : Even(tx[r], rows)

\* A transaction that is closed, or has only to begin.
LEMMA EvenPending ==
  ASSUME NEW moves, NEW base
  PROVE  Even(NoTx, base) /\ Even(Pending(moves), base)
  BY DEF Even, NoTx, Pending

\* Further movements for an open one that has none left.
LEMMA EvenMore ==
  ASSUME NEW t \in TxType, NEW moves, NEW base,
         t.open = TRUE, t.todo = <<>>, Even(t, base)
  PROVE  Even([t EXCEPT !.todo = moves], base)
  BY DEF Even, TxType

\* What others do to the rows it does not depend on does not matter to it.
LEMMA EvenFrame ==
  ASSUME NEW t \in TxType, NEW base, NEW g, Even(t, base),
         \A i \in Item : Depends(t, i) => g[i] = base[i]
  PROVE  Even(t, g)
  <1>1. \A i \in t.held : g[i] = base[i]
    BY DEF TxType, Depends
  <1>2. t.fresh => g[t.todo[1].item] = base[t.todo[1].item]
    <2> SUFFICES ASSUME t.fresh PROVE g[t.todo[1].item] = base[t.todo[1].item]
      OBVIOUS
    <2>1. t.todo \in Seq(Move) /\ t.todo # <<>>
      BY DEF TxType, Even
    <2>2. t.todo[1] \in Move
      BY <2>1, TailFacts
    <2> QED BY <2>2 DEF Depends, Move
  <1> QED BY <1>1, <1>2 DEF Even

\* It reads what it sees.
LEMMA EvenRead ==
  ASSUME StockTypeOK, NEW r \in Request, ReadItem(r), Even(tx[r], rows)
  PROVE  Even(tx'[r], rows)
  <1> DEFINE t == tx[r]  u == tx'[r]
  <1>1. t \in TxType /\ t.open = TRUE /\ t.todo # <<>> /\ u = Loaded(t, View(r, Target(r)))
    BY DEF ReadItem, StockTypeOK, TxType
  <1>2. /\ u.todo = t.todo /\ u.held = t.held /\ u.after = t.after
        /\ u.posted = t.posted /\ u.before = View(r, Target(r)) /\ u.open = t.open
    BY <1>1 DEF Loaded, TxType
  <1>3. View(r, Target(r)) = IF t.todo[1].item \in t.held THEN t.after[t.todo[1].item]
                                                          ELSE rows[t.todo[1].item]
    BY DEF View, Target
  <1>4. Even(t, rows)
    OBVIOUS
  <1>5. t.todo # <<>> /\ t.open = TRUE
    BY <1>1
  <1> HIDE DEF t, u
  <1>6. Even(u, rows)
    BY <1>2, <1>3, <1>4, <1>5 DEF Even
  <1> QED BY <1>6 DEF u

\* Movements on one row add up.
LEMMA PlusTwice ==
  ASSUME NEW a \in Delta, NEW b \in Delta, NEW c \in Delta
  PROVE  Plus(Plus(a, b), c) = Plus(a, Plus(b, c))
  BY DEF Plus, Delta

\* It writes what it read plus the movement it posts.
LEMMA EvenWrite ==
  ASSUME StockTypeOK, NEW r \in Request, WriteItem(r), Even(tx[r], rows)
  PROVE  Even(tx'[r], rows)
  <1> DEFINE t == tx[r]
             i == Target(r)
             d == t.todo[1].delta
             u == Written(t, i, Result(r))
  <1>1. t \in TxType /\ t.todo # <<>> /\ t.fresh /\ t.open = TRUE
    BY DEF WriteItem, Ready, StockTypeOK, TxType
  <1>2. i \in Item /\ d \in Delta /\ i = t.todo[1].item
    BY <1>1, TargetType DEF Target
  <1>3. Result(r) \in Delta /\ Result(r) = Plus(t.before, d)
    BY FitsType, RowIsDelta DEF WriteItem, Result
  <1>0. t \in TxType /\ i \in Item /\ Result(r) \in Delta
    BY <1>1, <1>2, <1>3
  <1>4. tx'[r] = u
    BY DEF WriteItem, StockTypeOK
  <1>5. /\ u.held = t.held \cup {i} /\ u.after[i] = Result(r)
        /\ u.fresh = FALSE /\ u.open = t.open
    <2>1. u.fresh = FALSE /\ u.open = t.open
      BY <1>0, WrittenState, Zenon
    <2>2. u.held = t.held \cup {i}
      BY <1>0, WrittenHeld, Zenon
    <2>3. u.after[i] = Result(r)
      BY <1>0, WrittenAfter, Zenon
    <2> QED BY <2>1, <2>2, <2>3
  <1>6. /\ u.posted[i] = Plus(t.posted[i], d)
        /\ \A j \in Item \ {i} : u.posted[j] = t.posted[j]
    BY <1>0, WrittenPosted, Zenon
  <1>7. \A j \in t.held \ {i} : u.after[j] = t.after[j]
    BY <1>1, <1>2, <1>3 DEF Written, TxType
  <1>8. rows[i] \in Delta /\ t.posted[i] \in Delta /\ t.held \subseteq Item
    BY <1>1, <1>2, RowIsDelta DEF StockTypeOK, TxType
  <1>9. Even(t, rows)
    OBVIOUS
  <1>10. t.before = Plus(rows[i], t.posted[i])
    <2>1. CASE i \in t.held
      BY <1>1, <1>2, <1>9, <2>1 DEF Even
    <2>2. CASE i \notin t.held
      BY <1>1, <1>2, <1>8, <1>9, <2>2, PlusZero DEF Even
    <2> QED BY <2>1, <2>2
  <1>11. Plus(Plus(rows[i], t.posted[i]), d) = Plus(rows[i], Plus(t.posted[i], d))
    BY <1>2, <1>8, PlusTwice
  <1> HIDE DEF t, u, i, d
  <1>12. u.after[i] = Plus(rows[i], u.posted[i])
    BY <1>3, <1>5, <1>6, <1>10, <1>11
  <1>13. Even(u, rows)
    BY <1>1, <1>5, <1>6, <1>7, <1>8, <1>9, <1>12 DEF Even
  <1> QED BY <1>4, <1>13

\* The commit books in the ledger what it changes in the rows.
LEMMA EvenCommit ==
  ASSUME StockTypeOK, NEW r \in Request, Install(r), Even(tx[r], rows), LedgerReconciles
  PROVE  LedgerReconciles'
  <1>1. ASSUME NEW i \in Item PROVE View(r, i) = Plus(ledger[i], tx[r].posted[i])
    <2>1. CASE i \in tx[r].held
      BY <2>1 DEF Even, View, LedgerReconciles
    <2>2. CASE i \notin tx[r].held
      <3>1. rows[i] \in Delta
        BY RowIsDelta DEF StockTypeOK
      <3> QED BY <2>2, <3>1, PlusZero DEF Even, View, LedgerReconciles
    <2> QED BY <2>1, <2>2
  <1> QED BY <1>1 DEF Install, LedgerReconciles

\* A step of r over its own transaction.
LEMMA LedgerOwn ==
  ASSUME LedgerInv, NEW r \in Request, UNCHANGED <<rows, ledger>>, Even(tx'[r], rows),
         \A s \in Request : s # r => tx'[s] = tx[s]
  PROVE  LedgerInv'
  <1>1. \A s \in Request : Even(tx'[s], rows)
    BY DEF LedgerInv
  <1> QED BY <1>1 DEF LedgerInv, LedgerReconciles

\* A step that opens, reads, writes or gives up a transaction.
LEMMA LedgerStep ==
  ASSUME StockTypeOK, LedgerInv, NEW r \in Request,
         \/ UNCHANGED <<rows, ledger, tx>>
         \/ UNCHANGED <<rows, ledger>> /\ tx' = [tx EXCEPT ![r] = NoTx]
         \/ /\ UNCHANGED <<rows, ledger>>
            /\ \E moves : tx' = [tx EXCEPT ![r] = Pending(moves)]
         \/ ReadItem(r) \/ WriteItem(r)
  PROVE  LedgerInv'
  <1>1. Even(tx[r], rows)
    BY DEF LedgerInv
  <1>2. CASE UNCHANGED <<rows, ledger, tx>>
    BY <1>1, <1>2, LedgerOwn
  <1>3. CASE UNCHANGED <<rows, ledger>> /\ tx' = [tx EXCEPT ![r] = NoTx]
    <2>1. tx'[r] = NoTx /\ \A s \in Request : s # r => tx'[s] = tx[s]
      BY <1>3 DEF StockTypeOK
    <2> QED BY <1>3, <2>1, EvenPending, LedgerOwn
  <1>4. ASSUME UNCHANGED <<rows, ledger>>, NEW moves, tx' = [tx EXCEPT ![r] = Pending(moves)]
        PROVE  LedgerInv'
    <2>1. tx'[r] = Pending(moves) /\ \A s \in Request : s # r => tx'[s] = tx[s]
      BY <1>4 DEF StockTypeOK
    <2> QED BY <1>4, <2>1, EvenPending, LedgerOwn
  <1>5. CASE ReadItem(r) \/ WriteItem(r)
    <2>1. UNCHANGED <<rows, ledger>> /\ \A s \in Request : s # r => tx'[s] = tx[s]
      BY <1>5 DEF ReadItem, WriteItem, StockTypeOK
    <2>2. Even(tx'[r], rows)
      BY <1>1, <1>5, EvenRead, EvenWrite
    <2> QED BY <2>1, <2>2, LedgerOwn
  <1> QED BY <1>2, <1>3, <1>4, <1>5

\* A commit, if no other transaction depends on the rows it wrote.
LEMMA LedgerCommit ==
  ASSUME StockTypeOK, LedgerInv, NEW r \in Request, Install(r),
         \A s \in Request : \A i \in Item : s # r /\ Depends(tx[s], i) => i \notin tx[r].held
  PROVE  LedgerInv'
  <1>1. /\ tx' = [tx EXCEPT ![r] = NoTx]
        /\ \A i \in Item : rows'[i] = View(r, i)
    BY DEF Install
  <1>2. ASSUME NEW s \in Request PROVE Even(tx'[s], rows')
    <2>1. CASE s = r
      BY <1>1, <2>1, EvenPending DEF StockTypeOK
    <2>2. CASE s # r
      <3>1. tx'[s] = tx[s] /\ tx[s] \in TxType /\ Even(tx[s], rows)
        BY <1>1, <2>2 DEF StockTypeOK, LedgerInv
      <3>2. \A i \in Item : Depends(tx[s], i) => rows'[i] = rows[i]
        BY <1>1, <2>2 DEF View
      <3>3. Even(tx[s], rows')
        BY <3>1, <3>2, EvenFrame
      <3> QED BY <3>1, <3>3
    <2> QED BY <2>1, <2>2
  <1>3. LedgerReconciles'
    BY EvenCommit DEF LedgerInv
  <1> QED BY <1>2, <1>3 DEF LedgerInv

\* The tables start even, and stay so while nothing happens.
LEMMA LedgerInit == StockInit => LedgerInv
  BY EvenPending DEF StockInit, LedgerInv, LedgerReconciles
=============================================================================
