--------------------------- MODULE TransferProofs ---------------------------
(***************************************************************************)
(* Proofs about Transfers, for any stock, transfers, baskets and requests, *)
(* when an approval does not overlap with another decision on its transfer. *)
(***************************************************************************)
EXTENDS Transfers, StockDbProofs, SumProofs, SequenceTheorems

Op == {"none", "create"} \cup Decisions

\* A request is a record of these fields; which rows it names does not matter.
Shaped(q) ==
    /\ q = [op |-> q.op, status |-> q.status, doc |-> q.doc, stock |-> q.stock]
    /\ q.op \in Op
    /\ q.status \in {"new", "busy", "ok", "refused", "failed"}
    /\ q.doc \in Transfer \cup {"none"}

ReqsOK == req = [r \in Request |-> req[r]] /\ \A r \in Request : Shaped(req[r])

JobType == [step : {"none", "loaded", "posting", "log"}, id : Transfer \cup {"none"},
            row : TransferRow \cup {NoRow}]

Typed ==
    /\ transfers \in [Transfer -> TransferRow]
    /\ ReqsOK
    /\ job \in [Request -> JobType]

\* A handler under way is on the document its request named, and one that
\* overlaps with it there is allowed to.
Attended ==
    /\ \A r \in Request : job[r].step # "none" =>
          Busy(r) /\ job[r].id \in Transfer /\ req[r].doc = job[r].id
    /\ \A r, s \in Request : r # s /\ Busy(r) /\ Busy(s) /\ req[r].doc = req[s].doc =>
          {req[r].op, req[s].op} \subseteq DocRacing

\* What the guard of a step found still holds while its row is locked, or while
\* nobody else may work on the transfer.
Guarded ==
    /\ \A r \in Request : job[r].step = "loaded" =>
          /\ req[r].op \in Decisions
          /\ req[r].op = "approve" => transfers[job[r].id].status = "REQUESTED"
    /\ \A r \in Request : job[r].step = "posting" =>
          \/ /\ req[r].op = "create" /\ job[r].row.status = "REQUESTED"
             /\ transfers[job[r].id].status = "NONE"
          \/ /\ req[r].op \in {"cancel", "receive"}
             /\ transfers[job[r].id].status \in Expected(req[r].op)
             /\ job[r].row.status = IF req[r].op = "cancel" THEN "CANCELLED" ELSE "COMPLETED"
    /\ \A r \in Request : job[r].step = "posting" => job[r].row \in TransferRow

OneWriter ==
    \A r, s \in Request :
        job[r].step = "posting" /\ job[s].step = "posting" /\ job[r].id = job[s].id => r = s

\* A transfer that somebody settled is settled.
WonIsSettled ==
    \A t \in Transfer, r \in Request : Winner(r, t) =>
        transfers[t].status \in {"CANCELLED", "COMPLETED"}

TInv == Typed /\ Attended /\ Guarded /\ OneWriter /\ WonIsSettled /\ SettledAtMostOnce

-----------------------------------------------------------------------------
\* Approvals stay alone on their transfer: the update by id does not look at the
\* status again, and the run MCTransfers_approve_race shows what it then overwrites.
Apart == "approve" \notin DocRacing

Elsewhere(r) == \A s \in Request : s # r => req'[s] = req[s] /\ job'[s] = job[s]

\* What a handler remembers when it has nothing to do.
LEMMA NoJobType == NoJob \in JobType /\ NoJob.step = "none"
  BY DEF NoJob, JobType

\* An answer changes the status of one request, and nothing else of it.
LEMMA AnswerFacts ==
  ASSUME Typed, NEW r \in Request, NEW how \in {"ok", "refused", "failed"}, Answer(r, how)
  PROVE  /\ ReqsOK'
         /\ \A s \in Request : s # r => req'[s] = req[s]
         /\ req'[r].status = how /\ req'[r].op = req[r].op /\ req'[r].doc = req[r].doc
  <1> DEFINE x == [req[r] EXCEPT !.status = how]
  <1>1. Shaped(req[r])
    BY DEF Typed, ReqsOK
  <1>2. Shaped(x) /\ x.status = how /\ x.op = req[r].op /\ x.doc = req[r].doc
    BY <1>1 DEF Shaped
  <1>3. req' = [req EXCEPT ![r] = x]
    BY DEF Answer
  <1> HIDE DEF x
  <1> QED BY <1>2, <1>3 DEF Typed, ReqsOK

\* A handler that is refused, fails, or never started, is out of the way.
LEMMA GoneKeeps ==
  ASSUME TInv, NEW r \in Request, NEW how \in {"refused", "failed"}, Answer(r, how),
         job' = [job EXCEPT ![r] = NoJob], UNCHANGED transfers
  PROVE  TInv'
  <1> USE DEF TInv
  <1>1. /\ ReqsOK'
        /\ req'[r].status = how /\ req'[r].op = req[r].op /\ req'[r].doc = req[r].doc
        /\ job' \in [Request -> JobType] /\ job'[r].step = "none" /\ Elsewhere(r)
    BY AnswerFacts, NoJobType DEF Typed, Elsewhere
  <1>2. Typed'
    BY <1>1 DEF Typed
  <1>3. Attended'
    BY <1>1 DEF Attended, Elsewhere, Busy
  <1>4. Guarded'
    BY <1>1 DEF Guarded, Elsewhere
  <1>5. OneWriter'
    BY <1>1 DEF OneWriter, Elsewhere
  <1>6. WonIsSettled'
    BY <1>1 DEF WonIsSettled, Winner, Elsewhere
  <1>7. SettledAtMostOnce'
    BY <1>1 DEF SettledAtMostOnce, Winner, Elsewhere
  <1> QED BY <1>2, <1>3, <1>4, <1>5, <1>6, <1>7

\* A request that starts is alone on its document, up to DocRacing.
LEMMA StartFacts ==
  ASSUME Typed, NEW r \in Request, NEW op \in Op, NEW t \in Transfer,
         NEW stock, Start(r, op, t, stock)
  PROVE  /\ ReqsOK'
         /\ req[r].status = "new"
         /\ \A s \in Request : s # r => req'[s] = req[s]
         /\ req'[r].status = "busy" /\ req'[r].op = op /\ req'[r].doc = t
         /\ \A s \in Request : Busy(s) /\ req[s].doc = t => {op, req[s].op} \subseteq DocRacing
  <1> DEFINE x == [op |-> op, status |-> "busy", doc |-> t, stock |-> stock]
  <1>1. Shaped(x) /\ x.status = "busy" /\ x.op = op /\ x.doc = t
    BY DEF Shaped
  <1>2. req' = [req EXCEPT ![r] = x]
    BY DEF Start
  <1> HIDE DEF x
  <1>3. req[r].status = "new" /\
        \A s \in Request : Busy(s) /\ req[s].doc = t => {op, req[s].op} \subseteq DocRacing
    BY DEF Start, MayStart
  <1> QED BY <1>1, <1>2, <1>3 DEF Typed, ReqsOK

\* A new transfer takes an unused id that no other handler has.
LEMMA CreateKeeps ==
  ASSUME TInv, NEW r \in Request, Create(r)
  PROVE  TInv'
  <1> USE DEF TInv
  <1>1. PICK t \in Transfer, source \in Warehouse, destination \in Warehouse, b \in Basket :
          /\ transfers[t].status = "NONE"
          /\ ~\E s \in Request : Busy(s) /\ job[s].id = t
          /\ Start(r, "create", t, Items(b, source))
          /\ job' = [job EXCEPT ![r] =
                       [step |-> "posting", id |-> t,
                        row |-> [status |-> "REQUESTED", source |-> source,
                                 destination |-> destination, quantity |-> Stored(b)]]]
          /\ UNCHANGED transfers
    BY DEF Create
  <1>2. b \in LineSeq
    BY TransfersAssumption
  <1>3. \A n \in DOMAIN b : b[n].product \in Product /\ b[n].quantity \in Nat
    <2>1. b \in Seq([product : Product, quantity : Nat \ {0}])
      BY <1>2 DEF LineSeq
    <2>2. \A n \in 1 .. Len(b) : b[n] \in [product : Product, quantity : Nat \ {0}]
      BY <2>1, ElementOfSeq
    <2>3. DOMAIN b = 1 .. Len(b)
      BY <2>1, LenProperties
    <2> QED BY <2>2, <2>3
  <1> DEFINE row == [status |-> "REQUESTED", source |-> source,
                     destination |-> destination, quantity |-> Stored(b)]
             x == [step |-> "posting", id |-> t, row |-> row]
  <1>4. row \in TransferRow /\ row.status = "REQUESTED"
    <2>1. Stored(b) \in [Product -> Nat]
      BY <1>3 DEF Stored
    <2> QED BY <2>1 DEF TransferRow, Status
  <1> HIDE DEF row
  <1>6. /\ x \in JobType /\ x.step = "posting" /\ x.id = t /\ x.row = row
        /\ job' = [job EXCEPT ![r] = x]
    BY <1>1, <1>4 DEF JobType, row
  <1> HIDE DEF x
  <1>7. /\ ReqsOK' /\ req[r].status = "new"
        /\ req'[r].status = "busy" /\ req'[r].op = "create" /\ req'[r].doc = t
        /\ \A s \in Request : s # r => req'[s] = req[s]
        /\ \A s \in Request : Busy(s) /\ req[s].doc = t =>
              {"create", req[s].op} \subseteq DocRacing
    BY <1>1, StartFacts DEF Op
  <1>8. Elsewhere(r) /\ job'[r] = x /\ job' \in [Request -> JobType]
    BY <1>6, <1>7 DEF Elsewhere, Typed
  <1>9. Typed'
    BY <1>1, <1>7, <1>8 DEF Typed
  <1>10. Attended'
    BY <1>6, <1>7, <1>8 DEF Attended, Elsewhere, Busy
  <1>11. Guarded'
    BY <1>1, <1>4, <1>6, <1>7, <1>8 DEF Guarded, Elsewhere
  <1>12. OneWriter'
    <2>1. \A s \in Request : job[s].step = "posting" => job[s].id # t
      BY <1>1 DEF Attended
    <2> QED BY <1>6, <1>8, <2>1 DEF OneWriter, Elsewhere
  <1>13. WonIsSettled' /\ SettledAtMostOnce'
    BY <1>1, <1>6, <1>7, <1>8 DEF WonIsSettled, SettledAtMostOnce, Winner, Elsewhere
  <1> QED BY <1>9, <1>10, <1>11, <1>12, <1>13

\* A decision has checked the status it starts from.
LEMMA LoadKeeps ==
  ASSUME TInv, NEW r \in Request, Load(r)
  PROVE  TInv'
  <1> USE DEF TInv
  <1>1. PICK op \in Decisions, t \in Transfer :
          /\ Allowed(r, op, t)
          /\ Start(r, op, t, StockOf(t))
          /\ job' = [job EXCEPT ![r] = [step |-> "loaded", id |-> t, row |-> NoRow]]
          /\ UNCHANGED transfers
    BY DEF Load
  <1> DEFINE x == [step |-> "loaded", id |-> t, row |-> NoRow]
  <1>2. x \in JobType /\ x.step = "loaded" /\ x.id = t /\ job' = [job EXCEPT ![r] = x]
    BY <1>1 DEF JobType
  <1> HIDE DEF x
  <1>4. /\ ReqsOK' /\ req[r].status = "new"
        /\ req'[r].status = "busy" /\ req'[r].op = op /\ req'[r].doc = t
        /\ \A s \in Request : s # r => req'[s] = req[s]
        /\ \A s \in Request : Busy(s) /\ req[s].doc = t =>
              {op, req[s].op} \subseteq DocRacing
    BY <1>1, StartFacts DEF Op
  <1>5. Elsewhere(r) /\ job'[r] = x /\ job' \in [Request -> JobType]
    BY <1>2, <1>4 DEF Elsewhere, Typed
  <1>6. Typed'
    BY <1>1, <1>4, <1>5 DEF Typed
  <1>7. Attended'
    BY <1>2, <1>4, <1>5 DEF Attended, Elsewhere, Busy
  <1>8. Guarded'
    <2>1. op = "approve" => transfers[t].status = "REQUESTED"
      BY <1>1 DEF Allowed, Expected
    <2> QED BY <1>1, <1>2, <1>4, <1>5, <2>1 DEF Guarded, Elsewhere
  <1>9. OneWriter'
    BY <1>2, <1>5 DEF OneWriter, Elsewhere
  <1>10. WonIsSettled' /\ SettledAtMostOnce'
    BY <1>1, <1>2, <1>4, <1>5 DEF WonIsSettled, SettledAtMostOnce, Winner, Elsewhere
  <1> QED BY <1>6, <1>7, <1>8, <1>9, <1>10

\* Nobody else is on the transfer, so it still is REQUESTED when it is approved.
LEMMA ApproveKeeps ==
  ASSUME TInv, Apart, NEW r \in Request, Approve(r)
  PROVE  TInv'
  <1> USE DEF TInv
  <1> DEFINE t == job[r].id
             x == [job[r] EXCEPT !.step = "log"]
             y == [transfers[t] EXCEPT !.status = "APPROVED"]
  <1>1. /\ job[r].step = "loaded" /\ req[r].op = "approve" /\ UNCHANGED req
        /\ transfers' = [transfers EXCEPT ![t] = y] /\ job' = [job EXCEPT ![r] = x]
    BY DEF Approve
  <1>2. t \in Transfer /\ req[r].doc = t /\ Busy(r) /\ transfers[t].status = "REQUESTED"
    BY <1>1 DEF Attended, Guarded
  <1>3. x \in JobType /\ x.step = "log" /\ x.id = t /\ y \in TransferRow /\ y.status = "APPROVED"
    BY ZenonT(60), <1>1, <1>2 DEF Typed, JobType, TransferRow, Status
  <1> HIDE DEF x, y, t
  <1>4. /\ transfers' \in [Transfer -> TransferRow] /\ job' \in [Request -> JobType]
        /\ transfers'[t].status = "APPROVED"
        /\ \A u \in Transfer : u # t => transfers'[u] = transfers[u]
        /\ job'[r].step = "log" /\ job'[r].id = t /\ \A s \in Request : s # r => job'[s] = job[s]
    BY <1>1, <1>2, <1>3 DEF Typed
  <1>5. \A s \in Request : s # r /\ job[s].step # "none" => job[s].id # t
    BY <1>1, <1>2 DEF Attended, Apart
  <1>6. \A s \in Request : ~Winner(s, t)
    BY <1>2 DEF WonIsSettled
  <1>7. Typed'
    BY <1>1, <1>4 DEF Typed, ReqsOK
  <1>8. Attended'
    BY <1>1, <1>2, <1>4 DEF Attended, Busy, t
  <1>9. Guarded'
    <2>1. \A s \in Request : job'[s].step \in {"loaded", "posting"} =>
             /\ job'[s] = job[s] /\ job[s].id \in Transfer
             /\ transfers'[job[s].id] = transfers[job[s].id]
      BY <1>4, <1>5 DEF Attended
    <2> QED BY <1>1, <2>1 DEF Guarded
  <1>10. OneWriter'
    BY <1>4 DEF OneWriter
  <1>11. \A s \in Request, u \in Transfer : Winner(s, u)' <=> Winner(s, u)
    BY <1>1, <1>4 DEF Winner
  <1>12. WonIsSettled' /\ SettledAtMostOnce'
    BY <1>4, <1>6, <1>11 DEF WonIsSettled, SettledAtMostOnce
  <1> QED BY <1>7, <1>8, <1>9, <1>10, <1>12

\* The gated flip finds the row free and its status an expected one.
LEMMA LockStatusKeeps ==
  ASSUME TInv, NEW r \in Request, LockStatus(r)
  PROVE  TInv'
  <1> USE DEF TInv
  <1> DEFINE t == job[r].id  op == req[r].op
             x == [job[r] EXCEPT !.step = "posting", !.row = Settled(op, t)]
  <1>1. /\ job[r].step = "loaded" /\ op \in {"cancel", "receive"} /\ ~RowLocked(r, t)
        /\ transfers[t].status \in Expected(op)
        /\ UNCHANGED <<req, transfers>>
        /\ job' = [job EXCEPT ![r] = x]
    BY DEF LockStatus, Settling
  <1>2. t \in Transfer
    BY <1>1 DEF Attended
  <1>3. /\ Settled(op, t) \in TransferRow
        /\ Settled(op, t).status = IF op = "cancel" THEN "CANCELLED" ELSE "COMPLETED"
    BY <1>2 DEF Typed, Settled, TransferRow, Status
  <1>4. x \in JobType /\ x.step = "posting" /\ x.id = t /\ x.row = Settled(op, t)
    BY <1>3 DEF Typed, JobType
  <1> HIDE DEF x
  <1>5. job' \in [Request -> JobType] /\ job'[r] = x /\ \A s \in Request : s # r => job'[s] = job[s]
    BY <1>1, <1>4 DEF Typed
  <1>6. Typed'
    BY <1>1, <1>5 DEF Typed, ReqsOK
  <1>7. Attended'
    BY <1>1, <1>4, <1>5 DEF Attended, Busy
  <1>8. Guarded'
    BY <1>1, <1>3, <1>4, <1>5 DEF Guarded, Expected
  <1>9. OneWriter'
    BY <1>1, <1>4, <1>5 DEF OneWriter, RowLocked
  <1>10. \A s \in Request, u \in Transfer : Winner(s, u)' <=> Winner(s, u)
    BY <1>1, <1>4, <1>5 DEF Winner
  <1>11. WonIsSettled' /\ SettledAtMostOnce'
    BY <1>1, <1>10 DEF WonIsSettled, SettledAtMostOnce
  <1> QED BY <1>6, <1>7, <1>8, <1>9, <1>11

\* The one writer of the row commits: the transfer has not been settled before.
LEMMA CommitKeeps ==
  ASSUME TInv, Apart, NEW r \in Request, Commit(r)
  PROVE  TInv'
  <1> USE DEF TInv
  <1>0. PICK t \in Transfer : t = job[r].id /\ job[r].step = "posting"
    BY DEF Commit, Attended
  <1> DEFINE x == [job[r] EXCEPT !.step = "log", !.row = NoRow]
  <1>1. /\ job[r].step = "posting" /\ job[r].id = t /\ UNCHANGED req
        /\ transfers' = [transfers EXCEPT ![t] = job[r].row] /\ job' = [job EXCEPT ![r] = x]
    BY <1>0 DEF Commit
  <1>2. t \in Transfer /\ req[r].doc = t /\ Busy(r) /\ job[r].row \in TransferRow
    BY <1>1 DEF Attended, Guarded
  <1>3. x \in JobType /\ x.step = "log" /\ x.id = t
    BY <1>1, <1>2 DEF Typed, JobType
  <1> HIDE DEF x
  <1>4. /\ transfers' \in [Transfer -> TransferRow] /\ job' \in [Request -> JobType]
        /\ transfers'[t] = job[r].row
        /\ \A u \in Transfer : u # t => transfers'[u] = transfers[u]
        /\ job'[r].step = "log" /\ job'[r].id = t /\ \A s \in Request : s # r => job'[s] = job[s]
    BY <1>1, <1>2, <1>3 DEF Typed
  <1>5. \A s \in Request : s # r /\ job[s].step = "posting" => job[s].id # t
    BY <1>1 DEF OneWriter
  <1>6. \/ /\ req[r].op = "create" /\ job[r].row.status = "REQUESTED"
           /\ transfers[t].status = "NONE"
        \/ /\ req[r].op \in {"cancel", "receive"}
           /\ transfers[t].status \in {"REQUESTED", "APPROVED"}
           /\ job[r].row.status \in {"CANCELLED", "COMPLETED"}
    BY <1>1 DEF Guarded, Expected
  <1>7. \A s \in Request : ~Winner(s, t)
    BY <1>2, <1>6 DEF WonIsSettled
  <1>8. \A s \in Request : s # r /\ job[s].step = "loaded" /\ req[s].op = "approve" =>
           job[s].id # t
    <2>1. SUFFICES ASSUME NEW s \in Request, s # r, job[s].step = "loaded",
                          req[s].op = "approve", job[s].id = t
                   PROVE  FALSE
      OBVIOUS
    <2>2. Busy(s) /\ req[s].doc = t
      BY <2>1 DEF Attended
    <2> QED BY <1>2, <2>1, <2>2 DEF Attended, Apart
  <1>9. Typed'
    BY <1>1, <1>4 DEF Typed, ReqsOK
  <1>10. Attended'
    BY <1>1, <1>2, <1>4 DEF Attended, Busy
  <1>11. Guarded'
    <2>1. \A s \in Request : job'[s].step = "posting" =>
             job'[s] = job[s] /\ job[s].id \in Transfer /\ job[s].id # t
      BY <1>4, <1>5 DEF Attended
    <2>2. \A s \in Request : job'[s].step = "loaded" =>
             /\ job'[s] = job[s] /\ job[s].id \in Transfer
             /\ req[s].op = "approve" => job[s].id # t
      BY <1>4, <1>8 DEF Attended
    <2> QED BY <1>1, <1>4, <2>1, <2>2 DEF Guarded
  <1>12. OneWriter'
    BY <1>4 DEF OneWriter
  <1>13. \A s \in Request, u \in Transfer : s # r \/ u # t => (Winner(s, u)' <=> Winner(s, u))
    BY <1>1, <1>2, <1>4 DEF Winner
  <1>14. Winner(r, t)' => transfers'[t].status \in {"CANCELLED", "COMPLETED"}
    BY <1>1, <1>4, <1>6 DEF Winner
  <1>15. WonIsSettled'
    BY <1>4, <1>7, <1>13, <1>14 DEF WonIsSettled
  <1>16. SettledAtMostOnce'
    BY <1>7, <1>13 DEF SettledAtMostOnce
  <1> QED BY <1>9, <1>10, <1>11, <1>12, <1>15, <1>16

\* The answer after the activity row keeps the winner of the commit.
LEMMA LogKeeps ==
  ASSUME TInv, NEW r \in Request, Log(r)
  PROVE  TInv'
  <1> USE DEF TInv
  <1>1. /\ job[r].step = "log" /\ job' = [job EXCEPT ![r] = NoJob]
        /\ Answer(r, "ok") /\ UNCHANGED transfers
    BY DEF Log
  <1>2. /\ ReqsOK'
        /\ req'[r].status = "ok" /\ req'[r].op = req[r].op /\ req'[r].doc = req[r].doc
        /\ job' \in [Request -> JobType] /\ job'[r].step = "none" /\ Elsewhere(r)
    BY <1>1, AnswerFacts, NoJobType DEF Typed, Elsewhere
  <1>3. Typed'
    BY <1>1, <1>2 DEF Typed
  <1>4. Attended'
    BY <1>2 DEF Attended, Elsewhere, Busy
  <1>5. Guarded'
    BY <1>1, <1>2 DEF Guarded, Elsewhere
  <1>6. OneWriter'
    BY <1>2 DEF OneWriter, Elsewhere
  <1>7. \A s \in Request, u \in Transfer : Winner(s, u)' => Winner(s, u)
    BY <1>1, <1>2 DEF Winner, Elsewhere
  <1>8. WonIsSettled' /\ SettledAtMostOnce'
    BY <1>1, <1>7 DEF WonIsSettled, SettledAtMostOnce
  <1> QED BY <1>3, <1>4, <1>5, <1>6, <1>8

\* A step of the stock alone.
LEMMA IdleKeeps ==
  ASSUME TInv, UNCHANGED <<req, job, transfers>>
  PROVE  TInv'
  <1>1. Typed' /\ Attended' /\ Guarded' /\ OneWriter'
    BY DEF TInv, Typed, ReqsOK, Attended, Busy, Guarded, OneWriter
  <1>2. WonIsSettled' /\ SettledAtMostOnce'
    BY DEF TInv, WonIsSettled, SettledAtMostOnce, Winner
  <1> QED BY <1>1, <1>2 DEF TInv

\* A guard that finds the transfer settled, or a request that starts nothing.
LEMMA RejectKeeps ==
  ASSUME TInv, NEW r \in Request, Reject(r)
  PROVE  TInv'
  <1> USE DEF TInv
  <1>1. /\ req[r].status = "new" /\ Answer(r, "refused") /\ UNCHANGED <<transfers, job>>
    BY DEF Reject
  <1>2. /\ ReqsOK' /\ Elsewhere(r)
        /\ req'[r].status = "refused" /\ req'[r].op = req[r].op /\ req'[r].doc = req[r].doc
    BY <1>1, AnswerFacts DEF Elsewhere
  <1>3. job[r].step = "none"
    BY <1>1 DEF Attended, Busy
  <1>4. Typed'
    BY <1>1, <1>2 DEF Typed
  <1>5. Attended'
    BY <1>1, <1>2, <1>3 DEF Attended, Elsewhere, Busy
  <1>6. Guarded'
    BY <1>1, <1>2, <1>3 DEF Guarded, Elsewhere
  <1>7. OneWriter'
    BY <1>1 DEF OneWriter
  <1>8. \A s \in Request, u \in Transfer : Winner(s, u)' => Winner(s, u)
    BY <1>1, <1>2, <1>3 DEF Winner, Elsewhere
  <1>9. WonIsSettled' /\ SettledAtMostOnce'
    BY <1>1, <1>8 DEF WonIsSettled, SettledAtMostOnce
  <1> QED BY <1>4, <1>5, <1>6, <1>7, <1>9

\* Nobody has started.
LEMMA InitHolds == Init => TInv
  <1> SUFFICES ASSUME Init PROVE TInv
    OBVIOUS
  <1>1. transfers = OpeningTransfers /\ transfers \in [Transfer -> TransferRow]
    BY TransfersAssumption DEF Init
  <1>2. req = [r \in Request |-> NewRequest] /\ job = [r \in Request |-> NoJob]
    BY DEF Init, StockInit
  <1>3. Shaped(NewRequest) /\ NewRequest.status = "new"
    BY DEF Shaped, NewRequest, Op
  <1>4. Typed
    BY <1>1, <1>2, <1>3, NoJobType DEF Typed, ReqsOK
  <1>5. \A r \in Request : job[r].step = "none" /\ req[r].status = "new"
    BY <1>2, <1>3, NoJobType
  <1> QED BY <1>4, <1>5
          DEF TInv, Attended, Guarded, OneWriter, WonIsSettled, SettledAtMostOnce, Winner, Busy

\* One case for every action of Next.
LEMMA NextKeeps ==
  ASSUME TInv, Apart, [Next]_vars
  PROVE  TInv'
  <1>1. CASE UNCHANGED vars
    BY <1>1, IdleKeeps DEF vars
  <1>2. ASSUME NEW r \in Request, Create(r) \/ Load(r) \/ Reject(r)
        PROVE  TInv'
    BY <1>2, CreateKeeps, LoadKeeps, RejectKeeps
  <1>3. ASSUME NEW r \in Request, Approve(r) \/ LockStatus(r) \/ Commit(r) \/ Log(r)
        PROVE  TInv'
    BY <1>3, ApproveKeeps, LockStatusKeeps, CommitKeeps, LogKeeps
  <1>4. ASSUME NEW r \in Request, Conflict(r)
        PROVE  TInv'
    BY <1>4, GoneKeeps DEF Conflict
  <1>5. ASSUME NEW r \in Request, PostLine(r)
        PROVE  TInv'
    <2>1. CASE UNCHANGED <<req, job, transfers>>
      BY <2>1, IdleKeeps
    <2>2. CASE Refuse(r) /\ job' = [job EXCEPT ![r] = NoJob] /\ UNCHANGED transfers
      BY <2>2, GoneKeeps DEF Refuse
    <2> QED BY <1>5, <2>1, <2>2 DEF PostLine, ReadItem, WriteItem
  <1>6. ASSUME NEW r \in Request, Fail(r)
        PROVE  TInv'
    BY <1>6, GoneKeeps DEF Fail, Abort
  <1> QED BY <1>1, <1>2, <1>3, <1>4, <1>5, <1>6 DEF Next, Serve, Quiet

\* A step writes at most one transfer, and moves it along the lifecycle.
LEMMA StepIsLegal ==
  ASSUME TInv, [Next]_vars, NEW t \in Transfer,
         transfers'[t].status # transfers[t].status
  PROVE  transfers'[t].status \in Successors(transfers[t].status)
  <1>1. PICK r \in Request : Approve(r) \/ Commit(r)
    <2>1. \A r \in Request : Create(r) \/ Load(r) \/ Reject(r) => UNCHANGED transfers
      BY DEF Create, Load, Reject
    <2>2. \A r \in Request : LockStatus(r) \/ Conflict(r) => UNCHANGED transfers
      BY DEF LockStatus, Conflict
    <2>3. \A r \in Request : PostLine(r) \/ Log(r) \/ Fail(r) => UNCHANGED transfers
      BY DEF PostLine, Log, Fail
    <2>4. UNCHANGED vars => UNCHANGED transfers
      BY DEF vars
    <2>5. ~UNCHANGED transfers
      OBVIOUS
    <2> QED BY <2>1, <2>2, <2>3, <2>4, <2>5 DEF Next, Quiet, Serve
  <1>2. CASE Approve(r)
    <2>1. job[r].step = "loaded" /\ req[r].op = "approve"
          /\ transfers' = [transfers EXCEPT ![job[r].id] = [@ EXCEPT !.status = "APPROVED"]]
      BY <1>2 DEF Approve
    <2>2. job[r].id \in Transfer /\ transfers[job[r].id].status = "REQUESTED"
      BY <2>1 DEF TInv, Attended, Guarded
    <2>3. t = job[r].id /\ transfers'[t].status = "APPROVED"
      BY <2>1, <2>2 DEF TInv, Typed, TransferRow
    <2> QED BY <2>2, <2>3 DEF Successors
  <1>3. CASE Commit(r)
    <2>1. job[r].step = "posting" /\ transfers' = [transfers EXCEPT ![job[r].id] = job[r].row]
      BY <1>3 DEF Commit
    <2>2. t = job[r].id /\ transfers'[t] = job[r].row
      BY <2>1 DEF TInv, Typed
    <2> QED BY <2>1, <2>2 DEF TInv, Guarded, Expected, Successors
  <1> QED BY <1>1, <1>2, <1>3

-----------------------------------------------------------------------------
(***************************************************************************)
(* TInv, which says why a guard that was checked still holds when the row  *)
(* is written (the gated flip of transfers.service.ts:216-224), is an      *)
(* invariant.                                                              *)
(***************************************************************************)
THEOREM TransfersInductive ==
  ASSUME Apart
  PROVE  Spec => []TInv
  <1>1. TInv /\ [Next]_vars => TInv'
    BY NextKeeps
  <1> QED BY <1>1, InitHolds, PTL DEF Spec

(***************************************************************************)
(* Of the requests that cancel or receive a transfer at most one is told   *)
(* it did so (transfers.service.ts:213-215), however many of them overlap, *)
(* and whatever fails, when no approval overlaps with them.                *)
(***************************************************************************)
THEOREM SettledOnce ==
  ASSUME Apart
  PROVE  Spec => []SettledAtMostOnce
  <1>1. TInv => SettledAtMostOnce
    BY DEF TInv
  <1> QED BY <1>1, TransfersInductive, PTL

(***************************************************************************)
(* Every step keeps to the lifecycle of schema.prisma:67-69: nothing       *)
(* leaves a settled status, and only an approved transfer is received.     *)
(***************************************************************************)
THEOREM LifecycleKept ==
  ASSUME Apart
  PROVE  Spec => LegalTransitions
  <1>1. TInv /\ [Next]_vars =>
          [\A t \in Transfer : transfers'[t].status # transfers[t].status =>
             transfers'[t].status \in Successors(transfers[t].status)]_vars
    BY StepIsLegal
  <1> QED BY <1>1, TransfersInductive, PTL DEF Spec, LegalTransitions

-----------------------------------------------------------------------------
\* The movements of a transfer are well typed, whatever lines it has.
LineRow == [product : Product, quantity : Nat]

\* A sequence is typed by its elements.
LEMMA SeqByElements ==
  ASSUME NEW S, NEW n \in Nat, NEW f, f \in [1 .. n -> S]
  PROVE  f \in Seq(S)
  BY SeqDef

\* What the lines of a basket are.
LEMMA BasketType ==
  ASSUME NEW b \in Basket
  PROVE  b \in Seq(LineRow)
  <1>1. b \in Seq([product : Product, quantity : Nat \ {0}])
    BY TransfersAssumption DEF LineSeq
  <1>2. [product : Product, quantity : Nat \ {0}] \subseteq LineRow
    BY DEF LineRow
  <1> QED BY <1>1, <1>2, SeqMonotonic

\* What the stored lines of a transfer are.
LEMMA LinesType ==
  ASSUME TInv, NEW t \in Transfer
  PROVE  Lines(t) \in Seq(LineRow)
  <1> DEFINE q == transfers[t].quantity
             ps == {p \in Product : q[p] > 0}
             names == ByName[ps]
  <1>1. q \in [Product -> Nat]
    BY DEF TInv, Typed, TransferRow
  <1>2. names \in Seq(ps)
    BY TransfersAssumption
  <1>3. DOMAIN names = 1 .. Len(names) /\ Len(names) \in Nat
    BY <1>2, LenProperties
  <1>4. \A n \in DOMAIN names : names[n] \in Product
    BY <1>2, <1>3, ElementOfSeq
  <1> HIDE DEF names, q
  <1>5. [n \in DOMAIN names |-> [product |-> names[n], quantity |-> q[names[n]]]]
            \in [1 .. Len(names) -> LineRow]
    BY <1>1, <1>3, <1>4 DEF LineRow
  <1>6. Lines(t) = [n \in DOMAIN names |-> [product |-> names[n], quantity |-> q[names[n]]]]
    BY DEF Lines, names, q
  <1> QED BY <1>3, <1>5, <1>6, SeqByElements

\* Indices and elements of a sequence of lines.
LEMMA LineFacts ==
  ASSUME NEW lines \in Seq(LineRow)
  PROVE  /\ DOMAIN lines = 1 .. Len(lines) /\ Len(lines) \in Nat
         /\ \A n \in DOMAIN lines : lines[n].product \in Product /\ lines[n].quantity \in Nat
  <1>1. DOMAIN lines = 1 .. Len(lines) /\ Len(lines) \in Nat
    BY LenProperties
  <1>2. \A n \in DOMAIN lines : lines[n] \in LineRow
    BY <1>1, ElementOfSeq
  <1> QED BY <1>1, <1>2 DEF LineRow

\* A hold and its release shift units between two buckets of the source.
LEMMA HoldType ==
  ASSUME NEW lines \in Seq(LineRow), NEW w \in Warehouse
  PROVE  Hold(lines, w) \in Seq(Move) /\ Release(lines, w) \in Seq(Move)
  <1>1. \A q \in Nat : /\ Shift("available", "inTransit", q) \in Delta
                       /\ Shift("inTransit", "available", q) \in Delta
    BY ShiftType DEF Bucket
  <1>2. /\ Hold(lines, w) \in [1 .. Len(lines) -> Move]
        /\ Release(lines, w) \in [1 .. Len(lines) -> Move]
    BY <1>1, LineFacts DEF Hold, Release, Move, Item
  <1> QED BY <1>2, LineFacts, SeqByElements

\* A receipt posts two movements per line.
LEMMA LandType ==
  ASSUME NEW lines \in Seq(LineRow), NEW v \in Warehouse, NEW w \in Warehouse
  PROVE  Land(lines, v, w) \in Seq(Move)
  <1>1. \A q \in Nat : Only("inTransit", -q) \in Delta /\ Only("available", q) \in Delta
    BY OnlyType DEF Bucket
  <1>2. Len(lines) \in Nat /\ \A n \in 1 .. 2 * Len(lines) : (n + 1) \div 2 \in DOMAIN lines
    BY LineFacts
  <1>3. Land(lines, v, w) \in [1 .. 2 * Len(lines) -> Move]
    BY <1>1, <1>2, LineFacts DEF Land, Move, Item
  <1>4. 2 * Len(lines) \in Nat
    BY <1>2
  <1> QED BY <1>3, <1>4, SeqByElements

-----------------------------------------------------------------------------
\* The stock side: types, range, and who has a transaction open.
StockInv ==
    /\ StockTypeOK /\ RangeInv
    /\ \A r \in Request : tx[r].open <=> job[r].step = "posting"
    /\ \A r \in Request : Busy(r) => req[r].op # "none"
    /\ trail \subseteq Transfer \X ({"create"} \cup Decisions)

\* A step of r that leaves the tables and gives its transaction the record u.
LEMMA TxStep ==
  ASSUME TInv', StockInv, UNCHANGED <<rows, ledger, alerts>>,
         NEW r \in Request, NEW u \in TxType,
         tx' = [tx EXCEPT ![r] = u], \A i \in u.held : Fits(u.after[i]),
         \A s \in Request : s # r => job'[s] = job[s] /\ req'[s] = req[s],
         u.open <=> job'[r].step = "posting",
         Busy(r)' => req'[r].op # "none",
         trail' \subseteq Transfer \X ({"create"} \cup Decisions)
  PROVE  StockInv'
  <1>1. /\ DOMAIN req' = Request
        /\ \A s \in Request : req'[s].status \in {"new", "busy", "ok", "refused", "failed"}
    BY DEF TInv, Typed, ReqsOK, Shaped
  <1>2. /\ tx \in [Request -> TxType] /\ tx'[r] = u
        /\ \A s \in Request : s # r => tx'[s] = tx[s]
    BY DEF StockInv, StockTypeOK
  <1>3. (StockTypeOK /\ RangeInv)'
    BY <1>1, <1>2 DEF StockInv, StockTypeOK, RangeInv, StockInRange
  <1>4. \A s \in Request : Busy(s)' => req'[s].op # "none"
    BY DEF StockInv, Busy
  <1> QED BY <1>2, <1>3, <1>4 DEF StockInv

\* A step of r that opens or ends no transaction.
LEMMA QuietStock ==
  ASSUME TInv', StockInv, UNCHANGED <<rows, ledger, alerts, tx>>, NEW r \in Request,
         \A s \in Request : s # r => job'[s] = job[s] /\ req'[s] = req[s],
         job[r].step # "posting", job'[r].step # "posting",
         Busy(r)' => req'[r].op # "none",
         trail' \subseteq Transfer \X ({"create"} \cup Decisions)
  PROVE  StockInv'
  <1>1. tx[r] \in TxType /\ tx' = [tx EXCEPT ![r] = tx[r]] /\ ~tx[r].open
    BY DEF StockInv, StockTypeOK
  <1>2. \A i \in tx[r].held : Fits(tx[r].after[i])
    BY DEF StockInv, RangeInv
  <1> QED BY <1>1, <1>2, TxStep

\* A create opens its transaction with the hold of its lines.
LEMMA CreateStock ==
  ASSUME TInv, TInv', StockInv, NEW r \in Request, Create(r)
  PROVE  StockInv'
  <1>1. PICK t \in Transfer, source \in Warehouse, b \in Basket :
          /\ Start(r, "create", t, Items(b, source))
          /\ tx' = [tx EXCEPT ![r] = Pending(Hold(b, source))]
          /\ UNCHANGED <<rows, ledger, alerts, trail>>
          /\ \E x : x.step = "posting" /\ job' = [job EXCEPT ![r] = x]
    BY DEF Create
  <1>2. /\ \A s \in Request : s # r => job'[s] = job[s] /\ req'[s] = req[s]
        /\ job'[r].step = "posting" /\ req'[r].op # "none"
    BY <1>1, StartFacts DEF TInv, Typed, Op
  <1>3. Hold(b, source) \in Seq(Move)
    BY BasketType, HoldType
  <1> DEFINE u == Pending(Hold(b, source))
  <1>4. u \in TxType /\ u.open /\ u.held = {}
    BY <1>3, PendingType DEF Pending, NoTx
  <1>5. tx' = [tx EXCEPT ![r] = u]
    BY <1>1
  <1> HIDE DEF u
  <1> QED BY <1>1, <1>2, <1>4, <1>5, TxStep DEF StockInv

\* The flip of the status opens the transaction with the movements of the lines.
LEMMA LockStatusStock ==
  ASSUME TInv, TInv', StockInv, NEW r \in Request, LockStatus(r)
  PROVE  StockInv'
  <1>1. PICK t \in Transfer : t = job[r].id
    BY DEF LockStatus, Settling, TInv, Attended
  <1> DEFINE moves == Moves(req[r].op, t)
             u == Pending(moves)
  <1>2. /\ tx' = [tx EXCEPT ![r] = u] /\ UNCHANGED <<rows, ledger, alerts, req, trail>>
        /\ \A s \in Request : s # r => job'[s] = job[s]
        /\ job'[r].step = "posting"
    BY <1>1 DEF LockStatus, TInv, Typed, JobType
  <1>3. transfers[t].source \in Warehouse /\ transfers[t].destination \in Warehouse
    BY DEF TInv, Typed, TransferRow
  <1>4. moves \in Seq(Move)
    BY <1>3, LinesType, HoldType, LandType DEF Moves
  <1> HIDE DEF moves
  <1>5. u \in TxType /\ u.open /\ u.held = {}
    BY <1>4, PendingType DEF Pending, NoTx
  <1> HIDE DEF u
  <1> QED BY <1>2, <1>5, TxStep DEF StockInv, Busy

\* The statements outside a transaction stay outside.
LEMMA OutsideStock ==
  ASSUME TInv, TInv', StockInv, NEW r \in Request,
         Load(r) \/ Reject(r) \/ Approve(r) \/ Conflict(r) \/ Log(r)
  PROVE  StockInv'
  <1>1. job \in [Request -> JobType] /\ NoJob.step = "none"
    BY NoJobType DEF TInv, Typed
  <1>2. CASE Load(r)
    <2>1. PICK op \in Decisions, t \in Transfer :
            /\ Start(r, op, t, StockOf(t))
            /\ job' = [job EXCEPT ![r] = [step |-> "loaded", id |-> t, row |-> NoRow]]
            /\ UNCHANGED <<rows, ledger, alerts, tx, trail>>
      BY <1>2 DEF Load
    <2>2. /\ req[r].status = "new" /\ req'[r].op = op
          /\ \A s \in Request : s # r => req'[s] = req[s]
      BY <2>1, StartFacts DEF TInv, Op
    <2>3. job[r].step = "none" /\ op # "none"
      BY <2>2 DEF TInv, Attended, Busy, Decisions
    <2> QED BY <1>1, <2>1, <2>2, <2>3, QuietStock DEF StockInv
  <1>3. CASE Reject(r)
    <2>1. /\ req[r].status = "new" /\ Answer(r, "refused")
          /\ UNCHANGED <<rows, ledger, alerts, tx, job, trail>>
      BY <1>3 DEF Reject
    <2>2. /\ \A s \in Request : s # r => req'[s] = req[s]
          /\ req'[r].status = "refused"
      BY <2>1, AnswerFacts DEF TInv
    <2>3. job[r].step = "none"
      BY <2>1 DEF TInv, Attended, Busy
    <2> QED BY <2>1, <2>2, <2>3, QuietStock DEF StockInv, Busy
  <1>4. CASE Approve(r)
    <2>1. /\ job[r].step = "loaded" /\ UNCHANGED <<rows, ledger, alerts, tx, req, trail>>
          /\ job' = [job EXCEPT ![r].step = "log"]
      BY <1>4 DEF Approve
    <2>2. \A s \in Request : s # r => job'[s] = job[s]
      BY <1>1, <2>1
    <2>3. job'[r].step = "log"
      BY <1>1, <2>1 DEF JobType
    <2> QED BY <2>1, <2>2, <2>3, QuietStock DEF StockInv, Busy
  <1>5. CASE Conflict(r)
    <2>1. /\ job[r].step = "loaded" /\ Answer(r, "refused")
          /\ job' = [job EXCEPT ![r] = NoJob]
          /\ UNCHANGED <<rows, ledger, alerts, tx, trail>>
      BY <1>5 DEF Conflict, Settling
    <2>2. /\ \A s \in Request : s # r => req'[s] = req[s]
          /\ req'[r].status = "refused"
      BY <2>1, AnswerFacts DEF TInv
    <2> QED BY <1>1, <2>1, <2>2, QuietStock DEF StockInv, Busy
  <1>6. CASE Log(r)
    <2>1. /\ job[r].step = "log" /\ Answer(r, "ok")
          /\ job' = [job EXCEPT ![r] = NoJob]
          /\ trail' = trail \cup {<<job[r].id, req[r].op>>}
          /\ UNCHANGED <<rows, ledger, alerts, tx>>
      BY <1>6 DEF Log
    <2>2. /\ \A s \in Request : s # r => req'[s] = req[s]
          /\ req'[r].status = "ok"
      BY <2>1, AnswerFacts DEF TInv
    <2>3. Busy(r) /\ job[r].id \in Transfer
      BY <2>1 DEF TInv, Attended
    <2>4. req[r].op \in {"create"} \cup Decisions
      BY <2>3 DEF StockInv, TInv, Typed, ReqsOK, Shaped, Op
    <2> QED BY <1>1, <2>1, <2>2, <2>3, <2>4, QuietStock DEF StockInv, Busy
  <1> QED BY <1>2, <1>3, <1>4, <1>5, <1>6

\* The end of a transaction that leaves nothing behind.
LEMMA GoneStock ==
  ASSUME TInv, TInv', StockInv, NEW r \in Request, NEW how \in {"refused", "failed"},
         Answer(r, how), tx' = [tx EXCEPT ![r] = NoTx],
         job' = [job EXCEPT ![r] = NoJob], UNCHANGED <<rows, ledger, alerts, trail>>
  PROVE  StockInv'
  <1>1. NoTx \in TxType /\ ~NoTx.open /\ NoTx.held = {}
    BY NoTxType DEF NoTx
  <1>2. /\ \A s \in Request : s # r => job'[s] = job[s] /\ req'[s] = req[s]
        /\ job'[r].step = "none" /\ req'[r].status = how
    BY AnswerFacts, NoJobType DEF TInv, Typed
  <1> QED BY <1>1, <1>2, TxStep DEF StockInv, Busy

\* The statements of applyMovement go on in the transaction or end it.
LEMMA PostLineStock ==
  ASSUME TInv, TInv', StockInv, NEW r \in Request, PostLine(r)
  PROVE  StockInv'
  <1>1. tx \in [Request -> TxType]
    BY DEF StockInv, StockTypeOK
  <1>2. CASE ReadItem(r) /\ UNCHANGED <<job, trail>>
    <2>1. (StockTypeOK /\ RangeInv)'
      BY <1>2, ReadItemSafe DEF StockInv
    <2>2. \A s \in Request : tx'[s].open = tx[s].open
      BY <1>1, <1>2 DEF ReadItem, Loaded, TxType
    <2> QED BY <1>2, <2>1, <2>2 DEF StockInv, ReadItem, Busy
  <1>3. CASE WriteItem(r) /\ UNCHANGED <<job, trail>>
    <2> DEFINE u == Written(tx[r], Target(r), Result(r))
    <2>1. (StockTypeOK /\ RangeInv)'
      BY <1>3, WriteItemSafe DEF StockInv
    <2>2. u.open = tx[r].open
      BY <1>1 DEF Written, TxType
    <2>3. tx' = [tx EXCEPT ![r] = u]
      BY <1>3 DEF WriteItem
    <2> HIDE DEF u
    <2>4. \A s \in Request : tx'[s].open = tx[s].open
      BY <1>1, <2>2, <2>3
    <2> QED BY <1>3, <2>1, <2>4 DEF StockInv, WriteItem, Busy
  <1>4. CASE Refuse(r) /\ job' = [job EXCEPT ![r] = NoJob] /\ UNCHANGED trail
    BY <1>4, GoneStock DEF Refuse
  <1> QED BY <1>2, <1>3, <1>4 DEF PostLine

\* The commit ends the transaction, and the handler goes on to its log row.
LEMMA CommitStock ==
  ASSUME TInv, StockInv, NEW r \in Request, Commit(r)
  PROVE  StockInv'
  <1>1. (StockTypeOK /\ RangeInv)'
    BY InstallSafe DEF Commit, StockInv
  <1>2. /\ tx' = [tx EXCEPT ![r] = NoTx] /\ tx \in [Request -> TxType]
        /\ UNCHANGED <<req, trail>>
    BY DEF Commit, Install, StockInv, StockTypeOK
  <1>3. /\ \A s \in Request : s # r => job'[s] = job[s]
        /\ job'[r].step = "log"
    BY DEF Commit, TInv, Typed, JobType
  <1>4. ~NoTx.open
    BY DEF NoTx
  <1> QED BY <1>1, <1>2, <1>3, <1>4 DEF StockInv, Busy

\* Every step keeps the stock well typed and in range.
LEMMA NextStock ==
  ASSUME TInv, TInv', StockInv, [Next]_vars
  PROVE  StockInv'
  <1>1. CASE UNCHANGED vars
    BY <1>1 DEF vars, StockInv, StockTypeOK, RangeInv, StockInRange, Busy
  <1>2. ASSUME NEW r \in Request, Create(r) \/ LockStatus(r) \/ PostLine(r) \/ Commit(r)
        PROVE  StockInv'
    BY <1>2, CreateStock, LockStatusStock, PostLineStock, CommitStock
  <1>3. ASSUME NEW r \in Request, Load(r) \/ Reject(r) \/ Approve(r) \/ Conflict(r) \/ Log(r)
        PROVE  StockInv'
    BY <1>3, OutsideStock
  <1>4. ASSUME NEW r \in Request, Fail(r)
        PROVE  StockInv'
    BY <1>4, GoneStock DEF Fail, Abort
  <1> QED BY <1>1, <1>2, <1>3, <1>4 DEF Next, Serve, Quiet

\* The opening stock is in range, and no transaction is open.
LEMMA InitStock == Init => StockInv
  <1>1. NoJob.step = "none" /\ ~NoTx.open /\ NewRequest.status = "new"
    BY NoJobType DEF NoTx, NewRequest
  <1> QED BY <1>1, InitType DEF Init, StockInit, StockInv, Busy

(***************************************************************************)
(* Types hold in every state: tables, handlers and the activity rows keep  *)
(* theirs, and a transaction is open exactly while its handler posts.      *)
(***************************************************************************)
THEOREM TypeCorrect ==
  ASSUME Apart
  PROVE  Spec => []TypeOK
  <1>1. TInv /\ [Next]_vars => TInv'
    BY NextKeeps
  <1>2. TInv /\ TInv' /\ StockInv /\ [Next]_vars => StockInv'
    BY NextStock
  <1>3. TInv /\ StockInv => TypeOK
    BY DEF TInv, Typed, Attended, JobType, StockInv, TypeOK
  <1> QED BY <1>1, <1>2, <1>3, InitHolds, InitStock, PTL DEF Spec

(***************************************************************************)
(* Transfers fail closed too (inventory.service.ts:88): whatever overlaps  *)
(* with their movements, no bucket leaves the range of its column.         *)
(***************************************************************************)
THEOREM StockStaysInRange ==
  ASSUME Apart
  PROVE  Spec => []StockInRange
  <1>1. TInv /\ [Next]_vars => TInv'
    BY NextKeeps
  <1>2. TInv /\ TInv' /\ StockInv /\ [Next]_vars => StockInv'
    BY NextStock
  <1>3. StockInv => StockInRange
    BY DEF StockInv, RangeInv
  <1> QED BY <1>1, <1>2, <1>3, InitHolds, InitStock, PTL DEF Spec

-----------------------------------------------------------------------------
(***************************************************************************)
(* The movements of a handler add up to one change of the stock: out times  *)
(* the quantities at the source, in times them at the destination.          *)
(***************************************************************************)
Times(d, q) == [k \in Bucket |-> d[k] * q]

Moved(row, out, in) ==
    [i \in Item |-> IF i[2] = row.source THEN Times(out, row.quantity[i[1]])
                    ELSE IF i[2] = row.destination THEN Times(in, row.quantity[i[1]])
                    ELSE Zero]

Change(op, row) ==
    IF op = "create" THEN Moved(row, Shift("available", "inTransit", 1), Zero)
    ELSE IF op = "cancel" THEN Moved(row, Shift("inTransit", "available", 1), Zero)
    ELSE Moved(row, Only("inTransit", -1), Only("available", 1))

\* The lines name each product at most once, with its quantity in q.
Lists(lines, q) ==
    /\ \A n \in DOMAIN lines : /\ lines[n].product \in Product
                              /\ lines[n].quantity = q[lines[n].product]
    /\ \A m, n \in DOMAIN lines : lines[m].product = lines[n].product => m = n
    /\ \A p \in Product : q[p] = 0 \/ \E n \in DOMAIN lines : lines[n].product = p

\* q single shifts are a shift of q units.
LEMMA ShiftTimes ==
  ASSUME NEW q \in Nat
  PROVE  /\ Times(Shift("available", "inTransit", 1), q) = Shift("available", "inTransit", q)
         /\ Times(Shift("inTransit", "available", 1), q) = Shift("inTransit", "available", q)
         /\ Times(Only("inTransit", -1), q) = Only("inTransit", -q)
         /\ Times(Only("available", 1), q) = Only("available", q)
         /\ Times(Zero, q) = Zero
  <1>1. /\ Shift("available", "inTransit", 1)
              = [k \in Bucket |-> IF k = "available" THEN -1 ELSE IF k = "inTransit" THEN 1 ELSE 0]
        /\ Shift("available", "inTransit", q)
              = [k \in Bucket |-> IF k = "available" THEN -q ELSE IF k = "inTransit" THEN q ELSE 0]
        /\ Shift("inTransit", "available", 1)
              = [k \in Bucket |-> IF k = "available" THEN 1 ELSE IF k = "inTransit" THEN -1 ELSE 0]
        /\ Shift("inTransit", "available", q)
              = [k \in Bucket |-> IF k = "available" THEN q ELSE IF k = "inTransit" THEN -q ELSE 0]
    BY DEF Shift, Zero, Bucket
  <1>2. /\ Only("inTransit", -1) = [k \in Bucket |-> IF k = "inTransit" THEN -1 ELSE 0]
        /\ Only("inTransit", -q) = [k \in Bucket |-> IF k = "inTransit" THEN -q ELSE 0]
        /\ Only("available", 1) = [k \in Bucket |-> IF k = "available" THEN 1 ELSE 0]
        /\ Only("available", q) = [k \in Bucket |-> IF k = "available" THEN q ELSE 0]
    BY DEF Only, Zero, Bucket
  <1>3. /\ 0 * q = 0 /\ 1 * q = q /\ (-1) * q = -q
    OBVIOUS
  <1> QED BY <1>1, <1>2, <1>3 DEF Times, Zero

\* Nothing times any delta is nothing.
LEMMA TimesZero ==
  ASSUME NEW d \in Delta
  PROVE  Times(d, 0) = Zero
  BY DEF Times, Delta, Zero

\* A basket lists what is stored of it.
LEMMA BasketLists ==
  ASSUME NEW b \in Basket
  PROVE  Lists(b, Stored(b))
  <1>1. NoDuplicates(b)
    BY TransfersAssumption
  <1>2. \A n \in DOMAIN b : b[n].product \in Product
    BY BasketType, LineFacts
  <1>3. ASSUME NEW n \in DOMAIN b
        PROVE  b[n].quantity = Stored(b)[b[n].product]
    <2> DEFINE p == b[n].product
               c == CHOOSE m \in DOMAIN b : b[m].product = p
    <2>1. c \in DOMAIN b /\ b[c].product = p
      OBVIOUS
    <2>2. c = n
      BY <1>1, <2>1 DEF NoDuplicates
    <2> QED BY <1>2, <2>2 DEF Stored
  <1>4. \A p \in Product : Stored(b)[p] = 0 \/ \E n \in DOMAIN b : b[n].product = p
    BY DEF Stored
  <1> QED BY <1>1, <1>2, <1>3, <1>4 DEF Lists, NoDuplicates

\* The stored lines list the quantities of the transfer.
LEMMA LinesList ==
  ASSUME TInv, NEW t \in Transfer
  PROVE  Lists(Lines(t), transfers[t].quantity)
  <1> DEFINE q == transfers[t].quantity
             ps == {p \in Product : q[p] > 0}
             names == ByName[ps]
  <1>1. q \in [Product -> Nat]
    BY DEF TInv, Typed, TransferRow
  <1>2. /\ names \in Seq(ps) /\ IsInjective(names)
        /\ \A p \in ps : \E n \in DOMAIN names : names[n] = p
    <2>1. ps \in SUBSET Product
      OBVIOUS
    <2> HIDE DEF ps
    <2> QED BY <2>1, TransfersAssumption
  <1>3. \A n \in DOMAIN names : names[n] \in Product
    <2>1. DOMAIN names = 1 .. Len(names)
      BY <1>2, LenProperties
    <2> QED BY <1>2, <2>1, ElementOfSeq
  <1>4. \A p \in Product : q[p] = 0 \/ \E n \in DOMAIN names : names[n] = p
    <2> SUFFICES ASSUME NEW p \in Product, q[p] # 0
                 PROVE  \E n \in DOMAIN names : names[n] = p
      OBVIOUS
    <2> HIDE DEF names
    <2>1. q[p] > 0
      BY <1>1
    <2>2. p \in ps
      BY <2>1
    <2> QED BY <1>2, <2>2
  <1> HIDE DEF names, q
  <1>5. Lines(t) = [n \in DOMAIN names |-> [product |-> names[n], quantity |-> q[names[n]]]]
    BY DEF Lines, names, q
  <1>6. Lists(Lines(t), q)
    BY <1>2, <1>3, <1>4, <1>5 DEF Lists, IsInjective
  <1> QED BY <1>6 DEF q

\* The movements of a plan are the whole change D, each item's once.
Plans(moves, D, stock) ==
    /\ \A n \in DOMAIN moves : /\ moves[n].item \in stock
                              /\ moves[n].delta = D[moves[n].item]
    /\ \A m, n \in DOMAIN moves : moves[m].item = moves[n].item => m = n
    /\ \A i \in Item : D[i] = Zero \/ \E n \in DOMAIN moves : moves[n].item = i

\* The hold of a request and its release are planned so.
LEMMA HoldPlans ==
  ASSUME NEW lines, NEW row \in TransferRow, Lists(lines, row.quantity),
         NEW stock, Items(lines, row.source) \subseteq stock
  PROVE  /\ Plans(Hold(lines, row.source), Change("create", row), stock)
         /\ Plans(Release(lines, row.source), Change("cancel", row), stock)
  <1> DEFINE q == row.quantity  v == row.source
  <1>1. q \in [Product -> Nat] /\ v \in Warehouse
    BY DEF TransferRow
  <1>2. \A n \in DOMAIN lines : /\ lines[n].product \in Product
                                /\ lines[n].quantity = q[lines[n].product]
                                /\ <<lines[n].product, v>> \in stock
    BY DEF Lists, Items
  <1>3. \A p \in Product :
          /\ Change("create", row)[<<p, v>>] = Shift("available", "inTransit", q[p])
          /\ Change("cancel", row)[<<p, v>>] = Shift("inTransit", "available", q[p])
    BY <1>1, ShiftTimes DEF Change, Moved, Item
  <1>4. \A i \in Item : i[2] # v => /\ Change("create", row)[i] = Zero
                                   /\ Change("cancel", row)[i] = Zero
    BY <1>1, ShiftTimes DEF Change, Moved, Item
  <1>5. \A p \in Product : q[p] = 0 => /\ Change("create", row)[<<p, v>>] = Zero
                                       /\ Change("cancel", row)[<<p, v>>] = Zero
    BY <1>1, TimesZero, ShiftType DEF Change, Moved, Item, Bucket
  <1> HIDE DEF q, v
  <1>6. /\ DOMAIN Hold(lines, v) = DOMAIN lines /\ DOMAIN Release(lines, v) = DOMAIN lines
        /\ \A n \in DOMAIN lines :
              /\ Hold(lines, v)[n].item = <<lines[n].product, v>>
              /\ Hold(lines, v)[n].delta = Shift("available", "inTransit", lines[n].quantity)
              /\ Release(lines, v)[n].item = <<lines[n].product, v>>
              /\ Release(lines, v)[n].delta = Shift("inTransit", "available", lines[n].quantity)
    BY DEF Hold, Release
  <1>7. \A i \in Item : i = <<i[1], i[2]>> /\ i[1] \in Product
    BY DEF Item
  <1>8. \A p \in Product : q[p] = 0 \/ \E n \in DOMAIN lines : lines[n].product = p
    BY DEF Lists, q
  <1>9. ASSUME NEW i \in Item
        PROVE  \/ Change("create", row)[i] = Zero /\ Change("cancel", row)[i] = Zero
               \/ \E n \in DOMAIN lines : <<lines[n].product, v>> = i
    BY <1>4, <1>5, <1>7, <1>8
  <1>10. \A m, n \in DOMAIN lines : lines[m].product = lines[n].product => m = n
    BY DEF Lists
  <1>11. ASSUME NEW moves, NEW D, DOMAIN moves = DOMAIN lines,
                \A n \in DOMAIN lines : /\ moves[n].item = <<lines[n].product, v>>
                                        /\ moves[n].delta = D[<<lines[n].product, v>>],
                \A i \in Item : \/ D[i] = Zero
                                \/ \E n \in DOMAIN lines : <<lines[n].product, v>> = i
         PROVE  Plans(moves, D, stock)
    <2>1. \A n \in DOMAIN moves : /\ moves[n].item \in stock
                                  /\ moves[n].delta = D[moves[n].item]
      BY <1>2, <1>11
    <2>2. ASSUME NEW m \in DOMAIN moves, NEW n \in DOMAIN moves, moves[m].item = moves[n].item
          PROVE  m = n
      <3>1. <<lines[m].product, v>> = <<lines[n].product, v>>
        BY <1>11, <2>2, Zenon
      <3>2. lines[m].product = lines[n].product
        BY <3>1
      <3> QED BY <1>10, <1>11, <3>2
    <2>3. \A i \in Item : D[i] = Zero \/ \E n \in DOMAIN moves : moves[n].item = i
      BY <1>11
    <2> QED BY <2>1, <2>2, <2>3 DEF Plans
  <1>12. \A n \in DOMAIN lines :
           /\ Hold(lines, v)[n].delta = Change("create", row)[<<lines[n].product, v>>]
           /\ Release(lines, v)[n].delta = Change("cancel", row)[<<lines[n].product, v>>]
    BY <1>2, <1>3, <1>6
  <1>13. Plans(Hold(lines, v), Change("create", row), stock)
    BY <1>6, <1>9, <1>11, <1>12
  <1>14. Plans(Release(lines, v), Change("cancel", row), stock)
    BY <1>6, <1>9, <1>11, <1>12
  <1> QED BY <1>13, <1>14 DEF v

\* A position is told by its half and its parity.
LEMMA HalfAndParity ==
  ASSUME NEW m \in Int, NEW n \in Int,
         (m + 1) \div 2 = (n + 1) \div 2, m % 2 = n % 2
  PROVE  m = n
  OBVIOUS

\* So is the landing of a transfer between two warehouses.
LEMMA LandPlans ==
  ASSUME NEW lines \in Seq(LineRow), NEW row \in TransferRow, Lists(lines, row.quantity),
         row.source # row.destination, NEW stock,
         Items(lines, row.source) \cup Items(lines, row.destination) \subseteq stock
  PROVE  Plans(Land(lines, row.source, row.destination), Change("receive", row), stock)
  <1> DEFINE q == row.quantity  v == row.source  w == row.destination
             D == Change("receive", row)
             moves == Land(lines, v, w)
             half(n) == (n + 1) \div 2
             end(n) == IF n % 2 = 1 THEN v ELSE w
  <1>1. q \in [Product -> Nat] /\ v \in Warehouse /\ w \in Warehouse /\ v # w
    BY DEF TransferRow
  <1>2. \A n \in DOMAIN lines : /\ lines[n].product \in Product
                                /\ lines[n].quantity = q[lines[n].product]
                                /\ <<lines[n].product, v>> \in stock
                                /\ <<lines[n].product, w>> \in stock
    BY DEF Lists, Items
  <1>3. \A p \in Product : /\ D[<<p, v>>] = Only("inTransit", -q[p])
                           /\ D[<<p, w>>] = Only("available", q[p])
    BY <1>1, ShiftTimes DEF Change, Moved, Item
  <1>4. \A i \in Item : i[2] # v /\ i[2] # w => D[i] = Zero
    BY <1>1 DEF Change, Moved, Item
  <1>5. \A p \in Product : q[p] = 0 => D[<<p, v>>] = Zero /\ D[<<p, w>>] = Zero
    BY <1>1, TimesZero, OnlyType DEF Change, Moved, Item, Bucket
  <1> HIDE DEF q, v, w, D
  <1>6. DOMAIN lines = 1 .. Len(lines) /\ Len(lines) \in Nat
    BY LenProperties
  <1>7. /\ DOMAIN moves = 1 .. 2 * Len(lines)
        /\ \A n \in DOMAIN moves :
              /\ half(n) \in DOMAIN lines
              /\ moves[n].item = <<lines[half(n)].product, end(n)>>
              /\ moves[n].delta = IF n % 2 = 1
                                  THEN Only("inTransit", -lines[half(n)].quantity)
                                  ELSE Only("available", lines[half(n)].quantity)
    BY <1>6 DEF Land
  <1>8. ASSUME NEW n \in DOMAIN lines
        PROVE  /\ 2 * n \in DOMAIN moves /\ 2 * n - 1 \in DOMAIN moves
               /\ half(2 * n) = n /\ half(2 * n - 1) = n
               /\ end(2 * n) = w /\ end(2 * n - 1) = v
    <2>1. n \in Nat /\ n >= 1 /\ n <= Len(lines)
      BY <1>6
    <2>2. (2 * n + 1) \div 2 = n /\ (2 * n - 1 + 1) \div 2 = n
      BY <2>1
    <2>3. (2 * n) % 2 = 0 /\ (2 * n - 1) % 2 = 1
      BY <2>1
    <2> QED BY <1>6, <1>7, <2>1, <2>2, <2>3
  <1>9. ASSUME NEW m \in DOMAIN moves, NEW n \in DOMAIN moves, half(m) = half(n), m % 2 = n % 2
        PROVE  m = n
    <2>1. m \in Int /\ n \in Int
      BY <1>6, <1>7
    <2> QED BY <1>9, <2>1, HalfAndParity
  <1>10. ASSUME NEW m \in DOMAIN moves, NEW n \in DOMAIN moves, end(m) = end(n)
         PROVE  m % 2 = n % 2
    <2>1. m \in Int /\ n \in Int
      BY <1>6, <1>7
    <2>2. \A k \in Int : k % 2 = 1 \/ k % 2 = 0
      OBVIOUS
    <2> QED BY <1>1, <1>10, <2>1, <2>2
  <1> HIDE DEF moves, half
  <1>11. \A n \in DOMAIN moves : moves[n].item \in stock /\ moves[n].delta = D[moves[n].item]
    BY <1>2, <1>3, <1>7
  <1>12. \A m, n \in DOMAIN moves : moves[m].item = moves[n].item => m = n
    <2> SUFFICES ASSUME NEW m \in DOMAIN moves, NEW n \in DOMAIN moves,
                        moves[m].item = moves[n].item
                 PROVE  m = n
      OBVIOUS
    <2>1. lines[half(m)].product = lines[half(n)].product /\ end(m) = end(n)
      BY <1>7
    <2>2. half(m) = half(n)
      BY <1>7, <2>1 DEF Lists
    <2> QED BY <1>9, <1>10, <2>1, <2>2
  <1>13. ASSUME NEW i \in Item
         PROVE  D[i] = Zero \/ \E n \in DOMAIN moves : moves[n].item = i
    <2>1. PICK p \in Product, z \in Warehouse : i = <<p, z>>
      BY DEF Item
    <2>2. CASE q[p] = 0 \/ (z # v /\ z # w)
      BY <1>4, <1>5, <2>1, <2>2
    <2>3. CASE q[p] # 0 /\ (z = v \/ z = w)
      <3>1. PICK n \in DOMAIN lines : lines[n].product = p
        BY <2>3 DEF Lists, q
      <3>2. CASE z = v
        <4>1. moves[2 * n - 1].item = <<lines[n].product, v>>
          BY <1>7, <1>8
        <4> QED BY <1>8, <2>1, <3>1, <3>2, <4>1
      <3>3. CASE z = w
        <4>1. moves[2 * n].item = <<lines[n].product, w>>
          BY <1>7, <1>8
        <4> QED BY <1>8, <2>1, <3>1, <3>3, <4>1
      <3> QED BY <2>3, <3>2, <3>3
    <2> QED BY <2>2, <2>3
  <1>14. Plans(moves, D, stock)
    BY <1>11, <1>12, <1>13 DEF Plans
  <1> QED BY <1>14 DEF moves, D, v, w
-----------------------------------------------------------------------------
(***************************************************************************)
(* While no two requests about different transfers work on one item, every *)
(* transaction carries the whole change of its handler, from the flip of   *)
(* the status to the commit.                                               *)
(***************************************************************************)
SameGoods(a, b) ==
    a.source = b.source /\ a.destination = b.destination /\ a.quantity = b.quantity

\* What r writes goes from one warehouse to another, and is what was loaded.
Routed(r) ==
    job[r].step = "posting" =>
        IF req[r].op = "create" THEN job[r].row.source # job[r].row.destination
                                ELSE SameGoods(job[r].row, transfers[job[r].id])

\* A decision named the stock of a transfer that exists.
Known(r) ==
    job[r].step = "loaded" =>
        transfers[job[r].id].status # "NONE" /\ StockOf(job[r].id) \subseteq req[r].stock

Carrying(r) ==
    job[r].step = "posting" => /\ Carries(tx[r], Change(req[r].op, job[r].row), rows)
                               /\ Within(tx[r], req[r].stock)

Separate(r, s) ==
    Busy(r) /\ Busy(s) /\ req[r].doc # req[s].doc => req[r].stock \cap req[s].stock = {}

EndsDiffer == \A t \in Transfer : transfers[t].status # "NONE" =>
                  transfers[t].source # transfers[t].destination

MoveInv ==
    /\ EndsDiffer
    /\ \A r \in Request : Routed(r) /\ Known(r) /\ Carrying(r)
    /\ \A r, s \in Request : r # s => Separate(r, s)

\* What a step of r has to show: its own part, and that it leaves the transfers
\* there are and the rows outside its stock alone.
LEMMA MoveStep ==
  ASSUME TInv, TInv', StockInv, MoveInv, NEW r \in Request,
         \A s \in Request : s # r => job'[s] = job[s] /\ req'[s] = req[s] /\ tx'[s] = tx[s],
         \/ UNCHANGED rows
         \/ job[r].step = "posting" /\ \A i \in Item \ req[r].stock : rows'[i] = rows[i],
         \A t \in Transfer : transfers[t].status # "NONE" =>
             transfers'[t].status # "NONE" /\ SameGoods(transfers'[t], transfers[t]),
         EndsDiffer', Routed(r)', Known(r)', Carrying(r)',
         \A s \in Request : s # r => Separate(r, s)'
  PROVE  MoveInv'
  <1>1. ASSUME NEW s \in Request, s # r
        PROVE  Routed(s)' /\ Known(s)' /\ Carrying(s)'
    <2>1. job'[s] = job[s] /\ req'[s] = req[s] /\ tx'[s] = tx[s]
      BY <1>1
    <2>2. Routed(s) /\ Known(s) /\ Carrying(s)
      BY DEF MoveInv
    <2>3. CASE job[s].step \notin {"loaded", "posting"}
      BY <2>1, <2>3 DEF Routed, Known, Carrying
    <2>4. CASE job[s].step = "loaded"
      <3>0. PICK t \in Transfer : t = job[s].id
        BY <2>4 DEF TInv, Attended
      <3>1. transfers[t].status # "NONE" /\ StockOf(t) \subseteq req[s].stock
        BY <2>2, <2>4, <3>0 DEF Known
      <3>2. transfers'[t].status # "NONE" /\ SameGoods(transfers'[t], transfers[t])
        BY <3>1
      <3>3. StockOf(t)' = StockOf(t)
        BY <3>2 DEF StockOf, Lines, SameGoods
      <3>4. Known(s)'
        BY <2>1, <3>0, <3>1, <3>2, <3>3 DEF Known
      <3> QED BY <2>1, <2>4, <3>4 DEF Routed, Carrying
    <2>5. CASE job[s].step = "posting"
      <3> DEFINE t == job[s].id  D == Change(req[s].op, job[s].row)
      <3>1. t \in Transfer /\ Busy(s) /\ req[s].doc = t
        BY <2>5 DEF TInv, Attended
      <3>2. Routed(s)'
        <4>1. CASE req[s].op = "create"
          BY <2>1, <2>2, <4>1 DEF Routed
        <4>2. CASE req[s].op # "create"
          <5>1. transfers[t].status # "NONE" /\ SameGoods(job[s].row, transfers[t])
            BY <2>2, <2>5, <4>2 DEF TInv, Guarded, Routed, Expected
          <5>2. SameGoods(job[s].row, transfers'[t])
            BY <3>1, <5>1 DEF SameGoods
          <5> QED BY <2>1, <4>2, <5>2 DEF Routed
        <4> QED BY <4>1, <4>2
      <3>3. \A i \in Item \cap req[s].stock : rows'[i] = rows[i]
        <4>1. CASE UNCHANGED rows
          BY <4>1
        <4>2. CASE job[r].step = "posting" /\ \A i \in Item \ req[r].stock : rows'[i] = rows[i]
          <5>1. job[r].id # job[s].id
            BY <1>1, <2>5, <4>2 DEF TInv, OneWriter
          <5>2. Busy(r) /\ req[r].doc # req[s].doc
            BY <3>1, <4>2, <5>1 DEF TInv, Attended
          <5>3. req[r].stock \cap req[s].stock = {}
            BY <1>1, <3>1, <5>2 DEF MoveInv, Separate
          <5> QED BY <4>2, <5>3
        <4> QED BY <4>1, <4>2
      <3>4. tx[s] \in TxType /\ Carries(tx[s], D, rows) /\ Within(tx[s], req[s].stock)
        BY <2>2, <2>5 DEF StockInv, StockTypeOK, Carrying
      <3> HIDE DEF D
      <3>5. Carries(tx[s], D, rows')
        BY <3>3, <3>4, CarriesFrame
      <3>6. Carrying(s)'
        BY <2>1, <3>4, <3>5 DEF Carrying, D
      <3> QED BY <2>1, <2>5, <3>2, <3>6 DEF Known
    <2> QED BY <2>3, <2>4, <2>5
  <1>2. ASSUME NEW s \in Request, NEW u \in Request, s # u
        PROVE  Separate(s, u)'
    <2>1. CASE s # r /\ u # r
      BY <1>2, <2>1 DEF MoveInv, Separate, Busy
    <2>2. CASE s = r \/ u = r
      BY <1>2, <2>2 DEF Separate
    <2> QED BY <2>1, <2>2
  <1>3. \A s \in Request : Routed(s)' /\ Known(s)' /\ Carrying(s)'
    BY <1>1
  <1> QED BY <1>2, <1>3 DEF MoveInv

\* A request that starts shares no item with those under way about other transfers.
LEMMA StartSeparate ==
  ASSUME Typed, StockRacing = {}, NEW r \in Request, NEW op, NEW t, NEW stock,
         Start(r, op, t, stock)
  PROVE  /\ req'[r].stock = stock
         /\ \A s \in Request : s # r => Separate(r, s)'
  <1>1. req' = [req EXCEPT ![r] = [op |-> op, status |-> "busy", doc |-> t, stock |-> stock]]
    BY DEF Start
  <1>2. \A s \in Request : Busy(s) /\ req[s].doc # t => req[s].stock \cap stock = {}
    <2>1. \A s \in Request : Busy(s) /\ req[s].doc # t =>
            (req[s].stock \cap stock # {} => {op, req[s].op} \subseteq StockRacing)
      BY DEF Start, MayStart
    <2> QED BY <2>1
  <1>3. /\ req'[r].stock = stock /\ req'[r].doc = t
        /\ \A s \in Request : s # r => req'[s] = req[s]
    BY <1>1 DEF Typed, ReqsOK
  <1>4. ASSUME NEW s \in Request, s # r PROVE Separate(r, s)'
    BY <1>2, <1>3, <1>4 DEF Separate, Busy
  <1> QED BY <1>3, <1>4

\* The transfers that exist and are not touched.
LEMMA SameTransfers ==
  ASSUME UNCHANGED transfers, MoveInv
  PROVE  /\ EndsDiffer'
         /\ \A t \in Transfer : transfers[t].status # "NONE" =>
               transfers'[t].status # "NONE" /\ SameGoods(transfers'[t], transfers[t])
  BY DEF MoveInv, EndsDiffer, SameGoods

\* A handler that has no transaction, and never named stock or is done.
LEMMA LooseMove ==
  ASSUME TInv, TInv', StockInv, MoveInv, NEW r \in Request,
         \A s \in Request : s # r => job'[s] = job[s] /\ req'[s] = req[s] /\ tx'[s] = tx[s],
         UNCHANGED <<rows, transfers>>,
         job'[r].step \notin {"loaded", "posting"}, ~Busy(r)'
  PROVE  MoveInv'
  <1>1. Routed(r)' /\ Known(r)' /\ Carrying(r)'
    BY DEF Routed, Known, Carrying
  <1>2. \A s \in Request : s # r => Separate(r, s)'
    BY DEF Separate
  <1> QED BY <1>1, <1>2, SameTransfers, MoveStep

\* A create opens its transaction with the whole hold.
LEMMA CreateMove ==
  ASSUME TInv, TInv', StockInv, MoveInv, StockRacing = {}, NEW r \in Request, Create(r)
  PROVE  MoveInv'
  <1>1. PICK t \in Transfer, source, destination \in Warehouse, b \in Basket :
          /\ source # destination
          /\ Start(r, "create", t, Items(b, source))
          /\ job' = [job EXCEPT ![r] =
                       [step |-> "posting", id |-> t,
                        row |-> [status |-> "REQUESTED", source |-> source,
                                 destination |-> destination, quantity |-> Stored(b)]]]
          /\ tx' = [tx EXCEPT ![r] = Pending(Hold(b, source))]
          /\ UNCHANGED <<rows, transfers>>
    BY DEF Create
  <1> DEFINE row == [status |-> "REQUESTED", source |-> source,
                     destination |-> destination, quantity |-> Stored(b)]
             stock == Items(b, source)
             moves == Hold(b, source)
  <1>2. /\ job'[r].step = "posting" /\ job'[r].row = row /\ tx'[r] = Pending(moves)
        /\ \A s \in Request : s # r => job'[s] = job[s] /\ tx'[s] = tx[s]
    BY <1>1 DEF TInv, Typed, StockInv, StockTypeOK
  <1>3. /\ req'[r].op = "create" /\ req'[r].stock = stock
        /\ \A s \in Request : s # r => req'[s] = req[s]
        /\ \A s \in Request : s # r => Separate(r, s)'
    BY <1>1, StartFacts, StartSeparate DEF TInv, Op
  <1>4. row \in TransferRow
    BY <1>2 DEF TInv, Guarded
  <1>5. row.source = source /\ row.destination = destination /\ row.quantity = Stored(b)
    OBVIOUS
  <1> HIDE DEF row, stock
  <1>6. Plans(moves, Change("create", row), stock)
    BY <1>4, <1>5, BasketLists, HoldPlans DEF stock
  <1> HIDE DEF moves
  <1>7. Carries(Pending(moves), Change("create", row), rows) /\ Within(Pending(moves), stock)
    BY <1>6, CarriesPending DEF Plans
  <1>8. Routed(r)' /\ Known(r)' /\ Carrying(r)'
    BY <1>1, <1>2, <1>3, <1>5, <1>7 DEF Routed, Known, Carrying
  <1> QED BY <1>1, <1>2, <1>3, <1>8, SameTransfers, MoveStep

\* A decision names both ends of its transfer.
LEMMA LoadMove ==
  ASSUME TInv, TInv', StockInv, MoveInv, StockRacing = {}, NEW r \in Request, Load(r)
  PROVE  MoveInv'
  <1>1. PICK op \in Decisions, t \in Transfer :
          /\ transfers[t].status \in Expected(op)
          /\ Start(r, op, t, StockOf(t))
          /\ job' = [job EXCEPT ![r] = [step |-> "loaded", id |-> t, row |-> NoRow]]
          /\ UNCHANGED <<rows, tx, transfers>>
    BY DEF Load, Allowed
  <1>2. /\ job'[r].step = "loaded" /\ job'[r].id = t
        /\ \A s \in Request : s # r => job'[s] = job[s] /\ tx'[s] = tx[s]
    BY <1>1 DEF TInv, Typed
  <1>3. /\ req'[r].stock = StockOf(t)
        /\ \A s \in Request : s # r => req'[s] = req[s]
        /\ \A s \in Request : s # r => Separate(r, s)'
    <2> DEFINE stock == StockOf(t)
    <2>1. Start(r, op, t, stock) /\ Typed /\ op \in Op
      BY <1>1 DEF TInv, Op
    <2> HIDE DEF stock
    <2>2. \A s \in Request : s # r => req'[s] = req[s]
      BY <2>1, StartFacts
    <2>3. req'[r].stock = stock /\ \A s \in Request : s # r => Separate(r, s)'
      BY <2>1, StartSeparate
    <2> QED BY <2>2, <2>3 DEF stock
  <1>4. transfers'[t].status # "NONE"
    BY <1>1 DEF Expected, Decisions
  <1>5. StockOf(t)' = StockOf(t)
    BY <1>1 DEF StockOf, Lines
  <1>6. Routed(r)' /\ Known(r)' /\ Carrying(r)'
    BY <1>2, <1>3, <1>4, <1>5 DEF Routed, Known, Carrying
  <1> QED BY <1>1, <1>2, <1>3, <1>6, SameTransfers, MoveStep

\* The flip opens the transaction with all movements of the transfer.
LEMMA LockStatusMove ==
  ASSUME TInv, TInv', StockInv, MoveInv, NEW r \in Request, LockStatus(r)
  PROVE  MoveInv'
  <1>1. PICK t \in Transfer : t = job[r].id
    BY DEF LockStatus, Settling, TInv, Attended
  <1> DEFINE op == req[r].op  row == Settled(op, t)  moves == Moves(op, t)
             stock == req[r].stock
  <1>2. /\ tx' = [tx EXCEPT ![r] = Pending(moves)] /\ UNCHANGED <<rows, req, transfers>>
        /\ job[r].step = "loaded" /\ op \in {"cancel", "receive"}
        /\ job' = [job EXCEPT ![r].step = "posting", ![r].row = row]
    BY <1>1 DEF LockStatus, Settling
  <1>3. /\ job'[r].step = "posting" /\ job'[r].row = row /\ job'[r].id = t
        /\ tx'[r] = Pending(moves)
        /\ \A s \in Request : s # r => job'[s] = job[s] /\ tx'[s] = tx[s]
    BY <1>1, <1>2 DEF TInv, Typed, JobType, StockInv, StockTypeOK
  <1>4. transfers[t] \in TransferRow
    BY DEF TInv, Typed
  <1>5. SameGoods(row, transfers[t]) /\ row \in TransferRow
    BY <1>4 DEF Settled, SameGoods, TransferRow, Status
  <1>6. transfers[t].status # "NONE" /\ StockOf(t) \subseteq stock
    BY <1>1, <1>2 DEF MoveInv, Known
  <1>7. row.source # row.destination
    BY <1>5, <1>6 DEF MoveInv, EndsDiffer, SameGoods
  <1>8. /\ Lines(t) \in Seq(LineRow) /\ Lists(Lines(t), row.quantity)
        /\ Items(Lines(t), row.source) \cup Items(Lines(t), row.destination) \subseteq stock
        /\ moves = IF op = "cancel" THEN Release(Lines(t), row.source)
                   ELSE Land(Lines(t), row.source, row.destination)
    BY <1>5, <1>6, LinesType, LinesList DEF SameGoods, StockOf, Moves
  <1> HIDE DEF row, moves, stock
  <1>9. Plans(moves, Change(op, row), stock)
    <2>1. CASE op = "cancel"
      BY <1>5, <1>8, <2>1, HoldPlans
    <2>2. CASE op = "receive"
      BY <1>5, <1>7, <1>8, <2>2, LandPlans
    <2> QED BY <1>2, <2>1, <2>2
  <1> HIDE DEF op
  <1>10. Carries(Pending(moves), Change(op, row), rows) /\ Within(Pending(moves), stock)
    BY <1>9, CarriesPending DEF Plans
  <1>11. Routed(r)' /\ Known(r)' /\ Carrying(r)'
    BY <1>2, <1>3, <1>5, <1>10 DEF Routed, Known, Carrying, op, stock
  <1>12. \A s \in Request : s # r => Separate(r, s)'
    BY <1>2 DEF MoveInv, Separate, Busy
  <1> QED BY <1>2, <1>3, <1>11, <1>12, SameTransfers, MoveStep

\* The update of an approval leaves the goods as they are.
LEMMA ApproveMove ==
  ASSUME TInv, TInv', StockInv, MoveInv, NEW r \in Request, Approve(r)
  PROVE  MoveInv'
  <1>1. PICK t \in Transfer : t = job[r].id
    BY DEF Approve, TInv, Attended
  <1>2. /\ transfers' = [transfers EXCEPT ![t].status = "APPROVED"]
        /\ job[r].step = "loaded" /\ job' = [job EXCEPT ![r].step = "log"]
        /\ UNCHANGED <<rows, tx, req>>
    BY <1>1 DEF Approve
  <1>3. /\ job'[r].step = "log"
        /\ \A s \in Request : s # r => job'[s] = job[s]
    BY <1>2 DEF TInv, Typed, JobType
  <1>4. transfers[t].status # "NONE"
    BY <1>1, <1>2 DEF MoveInv, Known
  <1>5. \A x \in Transfer : transfers[x].status # "NONE" =>
          transfers'[x].status # "NONE" /\ SameGoods(transfers'[x], transfers[x])
    BY <1>2 DEF TInv, Typed, TransferRow, SameGoods
  <1>6. \A x \in Transfer : transfers'[x].status # "NONE" => transfers[x].status # "NONE"
    BY <1>2, <1>4 DEF TInv, Typed, TransferRow
  <1>7. EndsDiffer'
    BY <1>5, <1>6 DEF MoveInv, EndsDiffer, SameGoods
  <1>8. Routed(r)' /\ Known(r)' /\ Carrying(r)'
    BY <1>3 DEF Routed, Known, Carrying
  <1>9. \A s \in Request : s # r => Separate(r, s)'
    BY <1>2 DEF MoveInv, Separate, Busy
  <1> QED BY <1>2, <1>3, <1>5, <1>7, <1>8, <1>9, MoveStep

\* The statements of the lines keep the change as a whole.
LEMMA PostLineMove ==
  ASSUME TInv, TInv', StockInv, MoveInv, NEW r \in Request, PostLine(r)
  PROVE  MoveInv'
  <1>1. CASE /\ ReadItem(r) \/ WriteItem(r)
             /\ UNCHANGED <<transfers, job, trail>>
    <2>1. /\ UNCHANGED <<rows, req, job, transfers>> /\ job[r].step = "posting"
          /\ \A s \in Request : s # r => tx'[s] = tx[s]
      BY <1>1 DEF ReadItem, WriteItem, Ready, StockInv, StockTypeOK
    <2>2. Routed(r) /\ Carrying(r)
      BY DEF MoveInv
    <2> DEFINE D == Change(req[r].op, job[r].row)
    <2>3. Carries(tx[r], D, rows) /\ Within(tx[r], req[r].stock)
      BY <2>1, <2>2 DEF Carrying
    <2> HIDE DEF D
    <2>4. Carries(tx'[r], D, rows) /\ Within(tx'[r], req[r].stock)
      BY <1>1, <2>3, CarriesRead, CarriesWrite DEF StockInv
    <2>5. Routed(r)' /\ Known(r)' /\ Carrying(r)'
      BY <2>1, <2>2, <2>4 DEF Routed, Known, Carrying, D
    <2>6. \A s \in Request : s # r => Separate(r, s)'
      BY <2>1 DEF MoveInv, Separate, Busy
    <2> QED BY <2>1, <2>5, <2>6, SameTransfers, MoveStep
  <1>2. CASE Refuse(r) /\ job' = [job EXCEPT ![r] = NoJob] /\ UNCHANGED <<transfers, trail>>
    <2>1. Answer(r, "refused") /\ tx' = [tx EXCEPT ![r] = NoTx] /\ UNCHANGED rows
      BY <1>2 DEF Refuse
    <2>2. /\ \A s \in Request : s # r => req'[s] = req[s]
          /\ req'[r].status = "refused"
      BY <2>1, AnswerFacts DEF TInv
    <2>3. /\ \A s \in Request : s # r => job'[s] = job[s] /\ tx'[s] = tx[s]
          /\ job'[r].step = "none"
      BY <1>2, <2>1, NoJobType DEF TInv, Typed, StockInv, StockTypeOK
    <2> QED BY <1>2, <2>1, <2>2, <2>3, LooseMove DEF Busy
  <1> QED BY <1>1, <1>2 DEF PostLine

\* The commit makes the change of the stock and of the transfer at once.
LEMMA CommitFacts ==
  ASSUME TInv, StockInv, MoveInv, NEW r \in Request, Commit(r)
  PROVE  /\ job[r].id \in Transfer /\ job[r].row \in TransferRow
         /\ transfers' = [transfers EXCEPT ![job[r].id] = job[r].row]
         /\ rows' = [i \in Item |-> Plus(rows[i], Change(req[r].op, job[r].row)[i])]
         /\ \A i \in Item \ req[r].stock : rows'[i] = rows[i]
  <1>1. /\ job[r].step = "posting" /\ Install(r)
        /\ transfers' = [transfers EXCEPT ![job[r].id] = job[r].row]
    BY DEF Commit
  <1>2. job[r].id \in Transfer /\ job[r].row \in TransferRow
    BY <1>1 DEF TInv, Attended, Guarded
  <1> DEFINE D == Change(req[r].op, job[r].row)
  <1>3. Carries(tx[r], D, rows) /\ Within(tx[r], req[r].stock)
    BY <1>1 DEF MoveInv, Carrying
  <1> HIDE DEF D
  <1>4. rows' = [i \in Item |-> Plus(rows[i], D[i])]
    BY <1>1, <1>3, CarriesCommit DEF StockInv
  <1>5. \A i \in Item \ req[r].stock : rows'[i] = rows[i]
    BY <1>1, <1>3 DEF Install, View, Within
  <1> QED BY <1>1, <1>2, <1>4, <1>5 DEF D

\* A commit moves the whole change into the rows, and leaves the others theirs.
LEMMA CommitMove ==
  ASSUME TInv, TInv', StockInv, MoveInv, NEW r \in Request, Commit(r)
  PROVE  MoveInv'
  <1>1. PICK t \in Transfer, row \in TransferRow :
          /\ t = job[r].id /\ row = job[r].row
          /\ transfers' = [transfers EXCEPT ![t] = row]
          /\ \A i \in Item \ req[r].stock : rows'[i] = rows[i]
    BY CommitFacts
  <1>2. /\ job[r].step = "posting" /\ tx' = [tx EXCEPT ![r] = NoTx] /\ UNCHANGED req
        /\ job' = [job EXCEPT ![r].step = "log", ![r].row = NoRow]
    BY DEF Commit, Install
  <1>3. /\ job'[r].step = "log"
        /\ \A s \in Request : s # r => job'[s] = job[s] /\ tx'[s] = tx[s]
    BY <1>2 DEF TInv, Typed, JobType, StockInv, StockTypeOK
  <1>4. /\ row.status # "NONE" /\ row.source # row.destination
        /\ transfers[t].status # "NONE" => SameGoods(row, transfers[t])
    <2>1. CASE req[r].op = "create"
      BY <1>1, <1>2, <2>1 DEF TInv, Guarded, MoveInv, Routed
    <2>2. CASE req[r].op # "create"
      <3>1. /\ row.status # "NONE" /\ transfers[t].status # "NONE"
            /\ SameGoods(row, transfers[t])
        BY <1>1, <1>2, <2>2 DEF TInv, Guarded, MoveInv, Routed, Expected
      <3> QED BY <3>1 DEF MoveInv, EndsDiffer, SameGoods
    <2> QED BY <2>1, <2>2
  <1>5. \A x \in Transfer : transfers[x].status # "NONE" =>
          transfers'[x].status # "NONE" /\ SameGoods(transfers'[x], transfers[x])
    BY <1>1, <1>4 DEF TInv, Typed, SameGoods
  <1>6. EndsDiffer'
    BY <1>1, <1>4 DEF MoveInv, EndsDiffer, TInv, Typed
  <1>7. Routed(r)' /\ Known(r)' /\ Carrying(r)'
    BY <1>3 DEF Routed, Known, Carrying
  <1>8. \A s \in Request : s # r => Separate(r, s)'
    BY <1>2 DEF MoveInv, Separate, Busy
  <1> QED BY <1>1, <1>2, <1>3, <1>5, <1>6, <1>7, <1>8, MoveStep

\* Handlers that end, or never began.
LEMMA EndMove ==
  ASSUME TInv, TInv', StockInv, MoveInv, NEW r \in Request,
         Reject(r) \/ Conflict(r) \/ Log(r) \/ Fail(r)
  PROVE  MoveInv'
  <1>1. PICK how \in {"ok", "refused", "failed"} : Answer(r, how)
    BY DEF Reject, Conflict, Log, Fail, Abort
  <1>2. /\ \A s \in Request : s # r => req'[s] = req[s]
        /\ ~Busy(r)'
    BY <1>1, AnswerFacts DEF TInv, Busy
  <1>3. /\ \/ UNCHANGED job /\ req[r].status = "new"
           \/ job' = [job EXCEPT ![r] = NoJob]
        /\ UNCHANGED tx \/ tx' = [tx EXCEPT ![r] = NoTx]
        /\ UNCHANGED <<rows, transfers>>
    BY DEF Reject, Conflict, Log, Fail, Abort
  <1>4. \A s \in Request : s # r => job'[s] = job[s] /\ tx'[s] = tx[s]
    BY <1>3 DEF TInv, Typed, StockInv, StockTypeOK
  <1>5. job'[r].step = "none"
    BY <1>3, NoJobType DEF TInv, Typed, Attended, Busy
  <1> QED BY <1>2, <1>3, <1>4, <1>5, LooseMove

\* Every step keeps it.
LEMMA NextMove ==
  ASSUME TInv, TInv', StockInv, MoveInv, StockRacing = {}, [Next]_vars
  PROVE  MoveInv'
  <1>1. CASE UNCHANGED vars
    <2>1. UNCHANGED <<rows, tx, req, transfers, job>>
      BY <1>1 DEF vars
    <2>2. ASSUME NEW r \in Request PROVE Routed(r)' /\ Known(r)' /\ Carrying(r)'
      <3>1. Routed(r)'
        BY <2>1 DEF MoveInv, Routed
      <3>2. Carrying(r)'
        BY <2>1 DEF MoveInv, Carrying
      <3>3. StockOf(job[r].id)' = StockOf(job[r].id)
        BY <2>1 DEF StockOf, Lines
      <3>4. Known(r)'
        BY <2>1, <3>3 DEF MoveInv, Known
      <3> QED BY <3>1, <3>2, <3>4
    <2>3. \A r, s \in Request : r # s => Separate(r, s)'
      BY <2>1 DEF MoveInv, Separate, Busy
    <2> QED BY <2>1, <2>2, <2>3, SameTransfers DEF MoveInv
  <1>2. ASSUME NEW r \in Request, \/ Create(r) \/ Load(r) \/ Approve(r)
                                 \/ LockStatus(r) \/ PostLine(r) \/ Commit(r)
        PROVE  MoveInv'
    BY <1>2, CreateMove, LoadMove, ApproveMove, LockStatusMove, PostLineMove, CommitMove
  <1>3. ASSUME NEW r \in Request, Reject(r) \/ Conflict(r) \/ Log(r) \/ Fail(r)
        PROVE  MoveInv'
    BY <1>3, EndMove
  <1> QED BY <1>1, <1>2, <1>3 DEF Next, Serve, Quiet

\* The opening transfers go from one warehouse to another.
LEMMA InitMove == Init => MoveInv
  <1>1. NoJob.step = "none" /\ NewRequest.status = "new"
    BY NoJobType DEF NewRequest
  <1> QED BY <1>1, OpeningAssumption
          DEF Init, StockInit, MoveInv, EndsDiffer, Routed, Known, Carrying, Separate, Busy

-----------------------------------------------------------------------------
(***************************************************************************)
(* Each step of a handler is one of the atomic steps, or changes neither    *)
(* the stock nor the transfers.                                             *)
(***************************************************************************)
\* What a shift of the lines makes of the stock, either way it is written.
LEMMA ShiftedIsChange ==
  ASSUME StockTypeOK, NEW t \in Transfer, NEW out \in Delta, NEW in \in Delta,
         rows' = [i \in Item |-> Plus(rows[i], Moved(transfers'[t], out, in)[i])]
  PROVE  rows' = Atomic!Shifted(t, out, in)
  <1>1. \A i \in Item : rows[i] \in Delta
    BY RowIsDelta DEF StockTypeOK
  <1>2. \A i \in Item : Plus(rows[i], Zero) = rows[i]
    BY <1>1, PlusZero
  <1>3. \A a, b : Atomic!Plus(a, b) = Plus(a, b)
    BY DEF Atomic!Plus, Atomic!Bucket, Plus, Bucket
  <1>4. Atomic!Shifted(t, out, in) =
          [i \in Item |-> Plus(rows[i], Moved(transfers'[t], out, in)[i])]
    <2> DEFINE row == transfers'[t]
    <2>1. Atomic!Shifted(t, out, in) =
            [i \in Item |->
               IF i[2] = row.source THEN Plus(rows[i], Times(out, row.quantity[i[1]]))
               ELSE IF i[2] = row.destination
               THEN Plus(rows[i], Times(in, row.quantity[i[1]]))
               ELSE rows[i]]
      BY <1>3 DEF Atomic!Shifted, Atomic!Item, Atomic!Bucket, Item, Bucket, Times
    <2> HIDE DEF row
    <2>2. \A i \in Item : Moved(row, out, in)[i] =
             IF i[2] = row.source THEN Times(out, row.quantity[i[1]])
             ELSE IF i[2] = row.destination THEN Times(in, row.quantity[i[1]])
             ELSE Zero
      BY DEF Moved
    <2>3. Atomic!Shifted(t, out, in) = [i \in Item |-> Plus(rows[i], Moved(row, out, in)[i])]
      BY <1>2, <2>1, <2>2
    <2> QED BY <2>3 DEF row
  <1> QED BY <1>4

\* The commit of a create is the request of a transfer, that of a cancel its
\* cancellation, that of a receive its receipt.
LEMMA CommitIsAtomic ==
  ASSUME TInv, StockInv, MoveInv, NEW r \in Request, Commit(r)
  PROVE  \E t \in Transfer : Atomic!Requested(t) \/ Atomic!Cancelled(t) \/ Atomic!Received(t)
  <1>1. PICK t \in Transfer, row \in TransferRow :
          /\ t = job[r].id /\ row = job[r].row
          /\ transfers' = [transfers EXCEPT ![t] = row]
          /\ rows' = [i \in Item |-> Plus(rows[i], Change(req[r].op, row)[i])]
    BY CommitFacts
  <1>2. job[r].step = "posting" /\ transfers \in [Transfer -> TransferRow] /\ StockTypeOK
    BY DEF Commit, TInv, Typed, StockInv
  <1>3. transfers'[t] = row /\ transfers' = [transfers EXCEPT ![t] = transfers'[t]]
    BY <1>1, <1>2
  <1>4. /\ Shift("available", "inTransit", 1) \in Delta
        /\ Shift("inTransit", "available", 1) \in Delta
        /\ Only("inTransit", -1) \in Delta /\ Only("available", 1) \in Delta
        /\ Zero \in Delta
    BY ShiftType, OnlyType, ZeroType DEF Bucket
  <1>5. \A from, to, q : Atomic!Shift(from, to, q) = Shift(from, to, q)
    BY DEF Atomic!Shift, Shift, Atomic!Zero, Zero, Atomic!Bucket, Bucket
  <1>6. /\ \A k, q : Atomic!Only(k, q) = Only(k, q)
        /\ Atomic!Zero = Zero
    BY DEF Atomic!Only, Only, Atomic!Zero, Zero, Atomic!Bucket, Bucket
  <1>7. CASE req[r].op = "create"
    <2>1. /\ transfers[t].status = "NONE" /\ row.status = "REQUESTED"
          /\ row.source # row.destination
      BY <1>1, <1>2, <1>7 DEF TInv, Guarded, MoveInv, Routed
    <2>2. rows' = [i \in Item |->
                    Plus(rows[i], Moved(transfers'[t], Shift("available", "inTransit", 1), Zero)[i])]
      BY <1>1, <1>3, <1>7 DEF Change
    <2>3. rows' = Atomic!Shifted(t, Shift("available", "inTransit", 1), Zero)
      BY <1>2, <1>4, <2>2, ShiftedIsChange
    <2>4. rows' = Atomic!Shifted(t, Atomic!Shift("available", "inTransit", 1), Atomic!Zero)
      BY <1>5, <1>6, <2>3
    <2>5. Atomic!Requested(t)
      BY <1>3, <2>1, <2>4 DEF Atomic!Requested
    <2> QED BY <2>5
  <1>8. CASE req[r].op \in {"cancel", "receive"}
    <2>1. /\ transfers[t].status \in Expected(req[r].op)
          /\ row.status = IF req[r].op = "cancel" THEN "CANCELLED" ELSE "COMPLETED"
          /\ SameGoods(row, transfers[t])
      BY <1>1, <1>2, <1>8 DEF TInv, Guarded, MoveInv, Routed
    <2>2. row = [transfers[t] EXCEPT !.status = row.status]
      BY <1>2, <2>1 DEF TransferRow, SameGoods
    <2>3. transfers' = [transfers EXCEPT ![t].status = row.status]
      BY <1>1, <2>2
    <2>4. CASE req[r].op = "cancel"
      <3>1. rows' = [i \in Item |->
                Plus(rows[i], Moved(transfers'[t], Shift("inTransit", "available", 1), Zero)[i])]
        BY <1>1, <1>3, <2>4 DEF Change
      <3>2. rows' = Atomic!Shifted(t, Shift("inTransit", "available", 1), Zero)
        BY <1>2, <1>4, <3>1, ShiftedIsChange
      <3>3. rows' = Atomic!Shifted(t, Atomic!Shift("inTransit", "available", 1), Atomic!Zero)
        BY <1>5, <1>6, <3>2
      <3>4. Atomic!Cancelled(t)
        BY <2>1, <2>3, <2>4, <3>3 DEF Atomic!Cancelled, Atomic!Becomes, Expected
      <3> QED BY <3>4
    <2>5. CASE req[r].op = "receive"
      <3>1. rows' = [i \in Item |->
                Plus(rows[i], Moved(transfers'[t], Only("inTransit", -1), Only("available", 1))[i])]
        BY <1>1, <1>3, <2>5 DEF Change
      <3>2. rows' = Atomic!Shifted(t, Only("inTransit", -1), Only("available", 1))
        BY <1>2, <1>4, <3>1, ShiftedIsChange
      <3>3. rows' = Atomic!Shifted(t, Atomic!Only("inTransit", -1), Atomic!Only("available", 1))
        BY <1>6, <3>2
      <3>4. Atomic!Received(t)
        BY <2>1, <2>3, <2>5, <3>3 DEF Atomic!Received, Atomic!Becomes, Expected
      <3> QED BY <3>4
    <2> QED BY <1>8, <2>4, <2>5
  <1> QED BY <1>2, <1>7, <1>8 DEF TInv, Guarded

\* Nothing but a commit and the update of an approval changes either table.
LEMMA OtherSteps ==
  ASSUME [Next]_vars
  PROVE  \/ \E r \in Request : Commit(r) \/ Approve(r)
         \/ UNCHANGED <<rows, transfers>>
  <1>1. ASSUME NEW r \in Request,
               \/ Create(r) \/ Load(r) \/ Reject(r) \/ LockStatus(r)
               \/ Conflict(r) \/ PostLine(r) \/ Log(r) \/ Fail(r)
        PROVE  UNCHANGED <<rows, transfers>>
    BY <1>1 DEF Create, Load, Reject, LockStatus, Conflict, PostLine, ReadItem, WriteItem,
                Refuse, Log, Fail, Abort
  <1>2. CASE UNCHANGED vars
    BY <1>2 DEF vars
  <1> QED BY <1>1, <1>2 DEF Next, Serve, Quiet

\* Both are atomic steps.
LEMMA StepIsAtomic ==
  ASSUME TInv, StockInv, StockInv', MoveInv, [Next]_vars
  PROVE  Atomic!AtomicStep \/ UNCHANGED <<rows, transfers>>
  <1>1. StockTypeOK /\ StockTypeOK' /\ \A i \in Item : Fits(rows'[i])
    BY DEF StockInv, RangeInv, StockInRange
  <1>2. \A i \in Atomic!Item : Atomic!Fits(rows'[i])
    BY <1>1 DEF Atomic!Item, Item, Atomic!Fits, Fits, Atomic!Bucket, Bucket, Atomic!Total, Total
  <1>3. ASSUME NEW r \in Request, Commit(r)
        PROVE  Atomic!AtomicStep
    BY <1>2, <1>3, CommitIsAtomic DEF Atomic!AtomicStep
  <1>4. ASSUME NEW r \in Request, Approve(r)
        PROVE  Atomic!AtomicStep
    <2>1. PICK t \in Transfer : t = job[r].id
      BY <1>4 DEF Approve, TInv, Attended
    <2>2. /\ transfers' = [transfers EXCEPT ![t].status = "APPROVED"] /\ UNCHANGED rows
          /\ transfers[t].status = "REQUESTED"
      BY <1>4, <2>1 DEF Approve, TInv, Guarded
    <2>3. Atomic!Approved(t)
      BY <2>2 DEF Atomic!Approved, Atomic!Becomes
    <2> QED BY <1>2, <2>3 DEF Atomic!AtomicStep
  <1> QED BY <1>3, <1>4, OtherSteps

(***************************************************************************)
(* Each handler of a transfer is one atomic step of its row and its stock,  *)
(* from its first statement to its commit, and leaves neither half done.    *)
(***************************************************************************)
THEOREM TransfersAreAtomic ==
  ASSUME Apart, StockRacing = {}
  PROVE  Spec => ImplementsAtomicTransfers
  <1>1. TInv /\ [Next]_vars => TInv'
    BY NextKeeps
  <1>2. TInv /\ TInv' /\ StockInv /\ [Next]_vars => StockInv'
    BY NextStock
  <1>3. TInv /\ TInv' /\ StockInv /\ MoveInv /\ [Next]_vars => MoveInv'
    BY NextMove
  <1>4. TInv /\ StockInv /\ StockInv' /\ MoveInv /\ [Next]_vars
            => [Atomic!AtomicStep]_Atomic!atomicVars
    BY StepIsAtomic DEF Atomic!atomicVars
  <1>5. Init => rows = OpeningStock /\ transfers = OpeningTransfers
    BY DEF Init, StockInit
  <1> QED BY <1>1, <1>2, <1>3, <1>4, <1>5, InitHolds, InitStock, InitMove, PTL
          DEF Spec, ImplementsAtomicTransfers, Atomic!AtomicTransfersSpec

-----------------------------------------------------------------------------
\* What one transfer holds is a number.
LEMMA HeldType ==
  ASSUME NEW row \in TransferRow, NEW i \in Item
  PROVE  HeldBy(row, i) \in Int
  BY DEF HeldBy, TransferRow, Item

\* A change of one transfer changes what all hold by what it holds.
LEMMA OnTheWayChange ==
  ASSUME NEW ts \in [Transfer -> TransferRow], NEW t \in Transfer, NEW row \in TransferRow,
         NEW i \in Item
  PROVE  /\ OnTheWay(ts, i) \in Int
         /\ OnTheWay([ts EXCEPT ![t] = row], i)
               = OnTheWay(ts, i) + (HeldBy(row, i) - HeldBy(ts[t], i))
  <1> DEFINE us == [ts EXCEPT ![t] = row]
             v == [x \in Transfer |-> HeldBy(ts[x], i)]
             w == [x \in Transfer |-> HeldBy(us[x], i)]
  <1>1. us[t] = row /\ us \in [Transfer -> TransferRow] /\ \A x \in Transfer \ {t} : us[x] = ts[x]
    OBVIOUS
  <1>2. /\ OnTheWay(ts, i) = SumFunctionOnSet(v, Transfer)
        /\ OnTheWay(us, i) = SumFunctionOnSet(w, Transfer)
    BY DEF OnTheWay, SumFunction
  <1> HIDE DEF us
  <1>3. \A x \in Transfer : v[x] \in Int /\ w[x] \in Int
    BY <1>1, HeldType
  <1>4. /\ v[t] = HeldBy(ts[t], i) /\ w[t] = HeldBy(row, i)
        /\ \A x \in Transfer \ {t} : w[x] = v[x]
    BY <1>1
  <1> HIDE DEF v, w
  <1>5. SumFunctionOnSet(w, Transfer) = SumFunctionOnSet(v, Transfer) + (w[t] - v[t])
    BY <1>3, <1>4, SumChange, OpeningAssumption
  <1>6. SumFunctionOnSet(v, Transfer) \in Int
    BY <1>3, SumType, OpeningAssumption
  <1> QED BY <1>2, <1>4, <1>5, <1>6 DEF us

\* The buckets and the total of a shift of q units.
LEMMA TimesFacts ==
  ASSUME NEW q \in Nat
  PROVE  /\ Times(Shift("available", "inTransit", 1), q)["inTransit"] = q
         /\ Times(Shift("inTransit", "available", 1), q)["inTransit"] = -q
         /\ Times(Only("inTransit", -1), q)["inTransit"] = -q
         /\ Times(Only("available", 1), q)["inTransit"] = 0
         /\ Total(Times(Shift("available", "inTransit", 1), q)) = 0
         /\ Total(Times(Shift("inTransit", "available", 1), q)) = 0
         /\ Total(Times(Only("inTransit", -1), q)) = -q
         /\ Total(Times(Only("available", 1), q)) = q
         /\ Times(Zero, q)["inTransit"] = 0 /\ Total(Times(Zero, q)) = 0
         /\ Zero["inTransit"] = 0 /\ Total(Zero) = 0
  <1>1. /\ Times(Shift("available", "inTransit", 1), q) = Shift("available", "inTransit", q)
        /\ Times(Shift("inTransit", "available", 1), q) = Shift("inTransit", "available", q)
        /\ Times(Only("inTransit", -1), q) = Only("inTransit", -q)
        /\ Times(Only("available", 1), q) = Only("available", q)
        /\ Times(Zero, q) = Zero
    BY ShiftTimes
  <1>2. /\ Shift("available", "inTransit", q)["inTransit"] = q
        /\ Shift("inTransit", "available", q)["inTransit"] = -q
        /\ Only("inTransit", -q)["inTransit"] = -q
        /\ Only("available", q)["inTransit"] = 0
        /\ Zero["inTransit"] = 0
    BY DEF Shift, Only, Zero, Bucket
  <1>3. /\ Total(Shift("available", "inTransit", q)) = 0
        /\ Total(Shift("inTransit", "available", q)) = 0
        /\ Total(Only("inTransit", -q)) = -q
        /\ Total(Only("available", q)) = q
        /\ Total(Zero) = 0
    BY DEF Total, Shift, Only, Zero, Bucket
  <1> QED BY <1>1, <1>2, <1>3

\* The commit changes the in-transit stock of an item by what its transfer holds of it.
LEMMA CommitHolds ==
  ASSUME TInv, StockInv, MoveInv, NEW r \in Request, Commit(r), InTransitMatchesOpen
  PROVE  InTransitMatchesOpen'
  <1>1. PICK t \in Transfer, row \in TransferRow :
          /\ t = job[r].id /\ row = job[r].row
          /\ transfers' = [transfers EXCEPT ![t] = row]
          /\ rows' = [i \in Item |-> Plus(rows[i], Change(req[r].op, row)[i])]
    BY CommitFacts
  <1>2. job[r].step = "posting" /\ transfers \in [Transfer -> TransferRow]
        /\ rows \in [Item -> Row]
    BY DEF Commit, TInv, Typed, StockInv, StockTypeOK
  <1>3. SUFFICES ASSUME NEW i \in Item
                 PROVE  rows'[i]["inTransit"] = OnTheWay(transfers', i)
    BY DEF InTransitMatchesOpen
  <1> DEFINE D == Change(req[r].op, row)
             q == row.quantity[i[1]]
  <1>4. q \in Nat
    BY DEF TransferRow, Item
  <1>5. D[i]["inTransit"] = HeldBy(row, i) - HeldBy(transfers[t], i)
    <2>1. CASE req[r].op = "create"
      <3>1. transfers[t].status = "NONE" /\ row.status = "REQUESTED"
        BY <1>1, <1>2, <2>1 DEF TInv, Guarded
      <3>2. HeldBy(row, i) = (IF row.source = i[2] THEN q ELSE 0) /\ HeldBy(transfers[t], i) = 0
        BY <3>1 DEF HeldBy, IsOpen
      <3>3. D[i] = IF i[2] = row.source THEN Times(Shift("available", "inTransit", 1), q)
                   ELSE IF i[2] = row.destination THEN Times(Zero, q) ELSE Zero
        BY <2>1 DEF Change, Moved
      <3>4. D[i]["inTransit"] = IF i[2] = row.source THEN q ELSE 0
        BY <1>4, <3>3, TimesFacts
      <3> HIDE DEF D, q
      <3> QED BY <1>4, <3>2, <3>4
    <2>2. CASE req[r].op \in {"cancel", "receive"}
      <3>1. /\ transfers[t].status \in {"REQUESTED", "APPROVED"}
            /\ row.status \in {"CANCELLED", "COMPLETED"}
            /\ SameGoods(row, transfers[t])
        BY <1>1, <1>2, <2>2 DEF TInv, Guarded, Expected, MoveInv, Routed
      <3>2. HeldBy(row, i) = 0 /\ HeldBy(transfers[t], i) = (IF row.source = i[2] THEN q ELSE 0)
        BY <3>1 DEF HeldBy, IsOpen, SameGoods
      <3>3. D[i]["inTransit"] = IF i[2] = row.source THEN -q ELSE 0
        <4>1. CASE req[r].op = "cancel"
          <5>1. D[i] = IF i[2] = row.source THEN Times(Shift("inTransit", "available", 1), q)
                       ELSE IF i[2] = row.destination THEN Times(Zero, q) ELSE Zero
            BY <4>1 DEF Change, Moved
          <5> QED BY <1>4, <5>1, TimesFacts
        <4>2. CASE req[r].op = "receive"
          <5>1. D[i] = IF i[2] = row.source THEN Times(Only("inTransit", -1), q)
                       ELSE IF i[2] = row.destination
                       THEN Times(Only("available", 1), q) ELSE Zero
            BY <4>2 DEF Change, Moved
          <5> QED BY <1>4, <5>1, TimesFacts
        <4> QED BY <2>2, <4>1, <4>2
      <3> HIDE DEF D, q
      <3> QED BY <1>4, <3>2, <3>3
    <2> QED BY <1>2, <2>1, <2>2 DEF TInv, Guarded
  <1>6. /\ OnTheWay(transfers, i) \in Int
        /\ OnTheWay(transfers', i)
              = OnTheWay(transfers, i) + (HeldBy(row, i) - HeldBy(transfers[t], i))
    BY <1>1, <1>2, OnTheWayChange
  <1>7. rows'[i]["inTransit"] = rows[i]["inTransit"] + D[i]["inTransit"]
    BY <1>1 DEF Plus, Bucket
  <1>8. HeldBy(row, i) \in Int /\ HeldBy(transfers[t], i) \in Int
    BY <1>2, HeldType
  <1> HIDE DEF D, q
  <1> QED BY <1>5, <1>6, <1>7, <1>8 DEF InTransitMatchesOpen

\* An approval leaves what its transfer holds on the way.
LEMMA ApproveHolds ==
  ASSUME TInv, StockInv, MoveInv, NEW r \in Request, Approve(r), InTransitMatchesOpen
  PROVE  InTransitMatchesOpen'
  <1>1. PICK t \in Transfer : t = job[r].id
    BY DEF Approve, TInv, Attended
  <1> DEFINE row == [transfers[t] EXCEPT !.status = "APPROVED"]
  <1>2. /\ transfers' = [transfers EXCEPT ![t] = row] /\ UNCHANGED rows
        /\ transfers[t].status = "REQUESTED"
        /\ transfers \in [Transfer -> TransferRow]
    BY <1>1 DEF Approve, TInv, Typed, Guarded
  <1>3. row \in TransferRow
    BY <1>2 DEF TransferRow, Status
  <1>4. \A i \in Item : HeldBy(row, i) = HeldBy(transfers[t], i)
    BY <1>2 DEF HeldBy, IsOpen, TransferRow
  <1> HIDE DEF row
  <1>5. \A i \in Item : OnTheWay(transfers', i) = OnTheWay(transfers, i)
    <2> SUFFICES ASSUME NEW i \in Item PROVE OnTheWay(transfers', i) = OnTheWay(transfers, i)
      OBVIOUS
    <2>1. /\ OnTheWay(transfers, i) \in Int
          /\ OnTheWay(transfers', i)
                = OnTheWay(transfers, i) + (HeldBy(row, i) - HeldBy(transfers[t], i))
      BY <1>2, <1>3, OnTheWayChange
    <2>2. HeldBy(row, i) \in Int /\ HeldBy(transfers[t], i) \in Int
      BY <1>2, <1>3, HeldType
    <2> QED BY <1>4, <2>1, <2>2
  <1> QED BY <1>2, <1>5 DEF InTransitMatchesOpen

(***************************************************************************)
(* In-transit stock is held on the source item between request and receive *)
(* (schema.prisma:350): the inTransit bucket of every item is exactly what *)
(* the open transfers out of its warehouse hold, after any sequence of      *)
(* requests, refusals and crashes.                                          *)
(***************************************************************************)
THEOREM InTransitIsHeld ==
  ASSUME Apart, StockRacing = {}
  PROVE  Spec => []InTransitMatchesOpen
  <1>1. TInv /\ [Next]_vars => TInv'
    BY NextKeeps
  <1>2. TInv /\ TInv' /\ StockInv /\ [Next]_vars => StockInv'
    BY NextStock
  <1>3. TInv /\ TInv' /\ StockInv /\ MoveInv /\ [Next]_vars => MoveInv'
    BY NextMove
  <1>4. TInv /\ StockInv /\ MoveInv /\ InTransitMatchesOpen /\ [Next]_vars
            => InTransitMatchesOpen'
    <2> SUFFICES ASSUME TInv, StockInv, MoveInv, InTransitMatchesOpen, [Next]_vars
                 PROVE  InTransitMatchesOpen'
      OBVIOUS
    <2>1. CASE UNCHANGED <<rows, transfers>>
      BY <2>1 DEF InTransitMatchesOpen, OnTheWay
    <2>2. ASSUME NEW r \in Request, Commit(r) \/ Approve(r)
          PROVE  InTransitMatchesOpen'
      BY <2>2, CommitHolds, ApproveHolds
    <2> QED BY <2>1, <2>2, OtherSteps
  <1>5. Init => InTransitMatchesOpen
    BY OpeningAssumption DEF Init, StockInit, InTransitMatchesOpen
  <1> QED BY <1>1, <1>2, <1>3, <1>4, <1>5, InitHolds, InitStock, InitMove, PTL DEF Spec

\* The total of a row is a number, and adds up.
LEMMA TotalPlus ==
  ASSUME NEW a \in Delta, NEW b \in Delta
  PROVE  Total(a) \in Int /\ Total(Plus(a, b)) = Total(a) + Total(b)
  BY DEF Total, Plus, Delta, Bucket

\* The commit leaves the stock of a product, over all warehouses, as it was.
LEMMA CommitConserves ==
  ASSUME TInv, StockInv, MoveInv, NEW r \in Request, Commit(r), NEW p \in Product
  PROVE  OnHand(rows', p) = OnHand(rows, p)
  <1>1. PICK t \in Transfer, row \in TransferRow :
          /\ t = job[r].id /\ row = job[r].row
          /\ transfers' = [transfers EXCEPT ![t] = row]
          /\ rows' = [i \in Item |-> Plus(rows[i], Change(req[r].op, row)[i])]
    BY CommitFacts
  <1>2. job[r].step = "posting" /\ rows \in [Item -> Row]
    BY DEF Commit, StockInv, StockTypeOK
  <1>3. req[r].op \in {"create", "cancel", "receive"} /\ row.source # row.destination
    <2>1. CASE req[r].op = "create"
      BY <1>1, <1>2, <2>1 DEF MoveInv, Routed
    <2>2. CASE req[r].op \in {"cancel", "receive"}
      BY <1>1, <1>2, <2>2
      DEF TInv, Guarded, Expected, MoveInv, EndsDiffer, Routed, SameGoods
    <2> QED BY <1>2, <2>1, <2>2 DEF TInv, Guarded
  <1> DEFINE D == Change(req[r].op, row)
             q == row.quantity[p]
             from == row.source
             to == row.destination
             a == [w \in Warehouse |-> Total(rows[<<p, w>>])]
             b == [w \in Warehouse |-> Total(rows'[<<p, w>>])]
             d(w) == IF req[r].op # "receive" THEN 0
                     ELSE IF w = from THEN -q ELSE IF w = to THEN q ELSE 0
  <1>4. q \in Nat /\ from \in Warehouse /\ to \in Warehouse /\ from # to
    BY <1>3 DEF TransferRow
  <1>5. ASSUME NEW w \in Warehouse
        PROVE  a[w] \in Int /\ b[w] = a[w] + d(w)
    <2> DEFINE i == <<p, w>>
    <2>1. i \in Item /\ i[1] = p /\ i[2] = w
      BY DEF Item
    <2>2. D[i] \in Delta /\ Total(D[i]) = d(w)
      <3>1. CASE req[r].op = "create"
        <4>1. D[i] = IF w = from THEN Times(Shift("available", "inTransit", 1), q)
                     ELSE IF w = to THEN Times(Zero, q) ELSE Zero
          BY <2>1, <3>1 DEF Change, Moved
        <4>2. \A x \in {Shift("available", "inTransit", 1), Zero} : Times(x, q) \in Delta
          BY <1>4, ShiftType, ShiftTimes, ZeroType DEF Bucket
        <4> QED BY <1>4, <3>1, <4>1, <4>2, TimesFacts, ZeroType
      <3>2. CASE req[r].op = "cancel"
        <4>1. D[i] = IF w = from THEN Times(Shift("inTransit", "available", 1), q)
                     ELSE IF w = to THEN Times(Zero, q) ELSE Zero
          BY <2>1, <3>2 DEF Change, Moved
        <4>2. \A x \in {Shift("inTransit", "available", 1), Zero} : Times(x, q) \in Delta
          BY <1>4, ShiftType, ShiftTimes, ZeroType DEF Bucket
        <4> QED BY <1>4, <3>2, <4>1, <4>2, TimesFacts, ZeroType
      <3>3. CASE req[r].op = "receive"
        <4>1. D[i] = IF w = from THEN Times(Only("inTransit", -1), q)
                     ELSE IF w = to THEN Times(Only("available", 1), q) ELSE Zero
          BY <2>1, <3>3 DEF Change, Moved
        <4>2. Times(Only("inTransit", -1), q) \in Delta /\ Times(Only("available", 1), q) \in Delta
          BY <1>4, OnlyType, ShiftTimes DEF Bucket
        <4> QED BY <1>4, <3>3, <4>1, <4>2, TimesFacts, ZeroType
      <3> QED BY <1>3, <3>1, <3>2, <3>3
    <2>3. rows[i] \in Delta
      BY <1>2, <2>1, RowIsDelta
    <2>4. rows'[i] = Plus(rows[i], D[i])
      BY <1>1, <2>1
    <2>5. Total(rows[i]) \in Int /\ Total(rows'[i]) = Total(rows[i]) + Total(D[i])
      BY <2>2, <2>3, <2>4, TotalPlus
    <2>6. a[w] = Total(rows[i]) /\ b[w] = Total(rows'[i])
      OBVIOUS
    <2> QED BY <2>2, <2>5, <2>6
  <1>6. /\ OnHand(rows, p) = SumFunctionOnSet(a, Warehouse)
        /\ OnHand(rows', p) = SumFunctionOnSet(b, Warehouse)
    BY DEF OnHand, SumFunction
  <1>7. DOMAIN a = Warehouse /\ a = [w \in Warehouse |-> a[w]]
    OBVIOUS
  <1> HIDE DEF a, b, q, from, to
  <1>8. CASE req[r].op # "receive"
    <2>1. \A w \in Warehouse : b[w] = a[w]
      BY <1>5, <1>8
    <2> QED BY <1>6, <2>1, SumEqual, OpeningAssumption
  <1>9. CASE req[r].op = "receive"
    <2> DEFINE c == [a EXCEPT ![from] = a[from] - q]
    <2>1. /\ \A w \in Warehouse : c[w] \in Int /\ b[w] \in Int /\ a[w] \in Int
          /\ \A w \in Warehouse \ {from} : c[w] = a[w]
          /\ c[from] = a[from] - q
      BY <1>4, <1>5, <1>7
    <2>2. \A w \in Warehouse \ {to} : b[w] = c[w]
      BY <1>4, <1>5, <1>7, <1>9
    <2>3. b[to] = c[to] + q
      BY <1>4, <1>5, <1>7, <1>9
    <2> HIDE DEF c
    <2>4. SumFunctionOnSet(c, Warehouse) = SumFunctionOnSet(a, Warehouse) + (c[from] - a[from])
      BY <1>4, <2>1, SumChange, OpeningAssumption
    <2>5. SumFunctionOnSet(b, Warehouse) = SumFunctionOnSet(c, Warehouse) + (b[to] - c[to])
      BY <1>4, <2>1, <2>2, SumChange, OpeningAssumption
    <2>6. SumFunctionOnSet(a, Warehouse) \in Int
      BY <2>1, SumType, OpeningAssumption
    <2>7. c[from] - a[from] = -q /\ b[to] - c[to] = q
      BY <1>4, <2>1, <2>3
    <2> QED BY <1>4, <1>6, <2>4, <2>5, <2>6, <2>7
  <1> QED BY <1>8, <1>9

(***************************************************************************)
(* Nothing is lost or double counted (schema.prisma:351): whatever is       *)
(* requested, cancelled or received, the stock of a product over all        *)
(* warehouses and buckets stays as it was.                                  *)
(***************************************************************************)
THEOREM NothingIsLost ==
  ASSUME Apart, StockRacing = {}
  PROVE  Spec => []StockConserved
  <1>1. TInv /\ [Next]_vars => TInv'
    BY NextKeeps
  <1>2. TInv /\ TInv' /\ StockInv /\ [Next]_vars => StockInv'
    BY NextStock
  <1>3. TInv /\ TInv' /\ StockInv /\ MoveInv /\ [Next]_vars => MoveInv'
    BY NextMove
  <1>4. TInv /\ StockInv /\ MoveInv /\ StockConserved /\ [Next]_vars => StockConserved'
    <2> SUFFICES ASSUME TInv, StockInv, MoveInv, StockConserved, [Next]_vars
                 PROVE  StockConserved'
      OBVIOUS
    <2>1. CASE UNCHANGED rows
      BY <2>1 DEF StockConserved
    <2>2. ASSUME NEW r \in Request, Commit(r)
          PROVE  StockConserved'
      BY <2>2, CommitConserves DEF StockConserved
    <2>3. ASSUME NEW r \in Request, Approve(r)
          PROVE  UNCHANGED rows
      BY <2>3 DEF Approve
    <2> QED BY <2>1, <2>2, <2>3, OtherSteps
  <1>5. Init => StockConserved
    BY DEF Init, StockInit, StockConserved
  <1> QED BY <1>1, <1>2, <1>3, <1>4, <1>5, InitHolds, InitStock, InitMove, PTL DEF Spec
-----------------------------------------------------------------------------
\* A commit writes rows that no other open transaction depends on: those belong
\* to the stock that the other request named for its own transfer.
LEMMA CommitLedger ==
  ASSUME TInv, StockInv, MoveInv, LedgerInv, NEW r \in Request, Commit(r)
  PROVE  LedgerInv'
  <1>1. job[r].step = "posting" /\ Install(r) /\ StockTypeOK
    BY DEF Commit, StockInv
  <1>2. Within(tx[r], req[r].stock) /\ Busy(r) /\ req[r].doc = job[r].id
    BY <1>1 DEF MoveInv, Carrying, TInv, Attended
  <1>3. ASSUME NEW s \in Request, NEW i \in Item, s # r, Depends(tx[s], i)
        PROVE  i \notin tx[r].held
    <2>1. Even(tx[s], rows) /\ tx[s] \in TxType
      BY <1>1 DEF LedgerInv, StockTypeOK
    <2>2. tx[s].open
      BY <1>3, <2>1 DEF Even, Depends, NoTx
    <2>3. job[s].step = "posting"
      BY <2>2 DEF StockInv
    <2>4. /\ Within(tx[s], req[s].stock) /\ Busy(s) /\ req[s].doc = job[s].id
          /\ job[s].id # job[r].id
      BY <1>1, <1>3, <2>3 DEF MoveInv, Carrying, TInv, Attended, OneWriter
    <2>5. i \in req[s].stock
      <3>1. CASE i \in tx[s].held
        BY <2>4, <3>1 DEF Within
      <3>2. CASE tx[s].fresh /\ i = tx[s].todo[1].item
        <4>1. 1 \in DOMAIN tx[s].todo
          BY <2>1, <3>2, TailFacts DEF Even, TxType
        <4> QED BY <2>4, <3>2, <4>1 DEF Within
      <3> QED BY <1>3, <3>1, <3>2 DEF Depends
    <2>6. req[r].stock \cap req[s].stock = {}
      BY <1>2, <1>3, <2>4 DEF MoveInv, Separate
    <2> QED BY <1>2, <2>5, <2>6 DEF Within
  <1> QED BY <1>1, <1>3, LedgerCommit

\* No other step disturbs the ledger.
LEMMA NextLedger ==
  ASSUME TInv, StockInv, MoveInv, LedgerInv, [Next]_vars
  PROVE  LedgerInv'
  <1>0. StockTypeOK
    BY DEF StockInv
  <1>1. ASSUME NEW r \in Request, Create(r) \/ LockStatus(r)
        PROVE  LedgerInv'
    <2>1. UNCHANGED <<rows, ledger>> /\ \E moves : tx' = [tx EXCEPT ![r] = Pending(moves)]
      BY <1>1 DEF Create, LockStatus
    <2> QED BY <1>0, <2>1, LedgerStep
  <1>2. ASSUME NEW r \in Request, Load(r) \/ Reject(r) \/ Approve(r) \/ Conflict(r) \/ Log(r)
        PROVE  LedgerInv'
    <2>1. UNCHANGED <<rows, ledger, tx>>
      BY <1>2 DEF Load, Reject, Approve, Conflict, Log
    <2> QED BY <1>0, <2>1, LedgerStep
  <1>3. ASSUME NEW r \in Request, PostLine(r) \/ Fail(r)
        PROVE  LedgerInv'
    <2>1. \/ ReadItem(r) \/ WriteItem(r)
          \/ UNCHANGED <<rows, ledger>> /\ tx' = [tx EXCEPT ![r] = NoTx]
      BY <1>3 DEF PostLine, Refuse, Fail, Abort
    <2> QED BY <1>0, <2>1, LedgerStep
  <1>4. CASE UNCHANGED vars
    BY <1>4 DEF vars, LedgerInv, LedgerReconciles
  <1> QED BY <1>1, <1>2, <1>3, <1>4, CommitLedger DEF Next, Serve, Quiet

(***************************************************************************)
(* The ledger reconciles (schema.prisma:220) over every stock row that      *)
(* transfers touch: requests, cancels and receives of several lines book    *)
(* all they change or, when one line is refused or fails, nothing.          *)
(***************************************************************************)
THEOREM TransfersReconcile ==
  ASSUME Apart, StockRacing = {}
  PROVE  Spec => []LedgerReconciles
  <1>1. TInv /\ [Next]_vars => TInv'
    BY NextKeeps
  <1>2. TInv /\ TInv' /\ StockInv /\ [Next]_vars => StockInv'
    BY NextStock
  <1>3. TInv /\ TInv' /\ StockInv /\ MoveInv /\ [Next]_vars => MoveInv'
    BY NextMove
  <1>4. TInv /\ StockInv /\ MoveInv /\ LedgerInv /\ [Next]_vars => LedgerInv'
    BY NextLedger
  <1>5. Init => LedgerInv
    BY LedgerInit DEF Init
  <1>6. LedgerInv => LedgerReconciles
    BY DEF LedgerInv
  <1> QED BY <1>1, <1>2, <1>3, <1>4, <1>5, <1>6, InitHolds, InitStock, InitMove, PTL DEF Spec
=============================================================================
