----------------------------- MODULE OrderProofs -----------------------------
(***************************************************************************)
(* Proofs about PurchaseOrders, for any orders, baskets, deliveries and    *)
(* requests: first what holds while receipts of one order overlap with     *)
(* each other, then what holds when nothing overlaps on an order.          *)
(***************************************************************************)
EXTENDS PurchaseOrders, StockDbProofs, SumProofs, SequenceTheorems

\* Only receipts overlap on one order.
OnlyReceipts == DocRacing \subseteq {"receive"}

Op == {"none", "create", "update", "receive"} \cup DOMAIN Decision

Units == [sound : Nat, damaged : Nat]

\* A request is a record of these fields; which rows it names does not matter.
Shaped(q) ==
    /\ q = [op |-> q.op, status |-> q.status, doc |-> q.doc, stock |-> q.stock]
    /\ q.op \in Op
    /\ q.status \in {"new", "busy", "ok", "refused", "failed"}
    /\ q.doc \in Order \cup {"none"}

ReqsOK == req = [r \in Request |-> req[r]] /\ \A r \in Request : Shaped(req[r])

Receiving == {"receive", "increment", "finish"}

JobType == [step : {"none", "decide", "checked", "replace", "reply", "log", "notify"}
                      \cup Receiving,
            id : Order \cup {"none"}, lines : Basket \cup Delivery \cup {<<>>},
            left : SUBSET Nat, at : Nat, rev : Nat,
            units : [Product -> Units], complete : BOOLEAN]

Typed ==
    /\ orders \in [Order -> OrderRow]
    /\ receipts \in [Order -> [Product -> Units]]
    /\ job \in [Request -> JobType]
    /\ ReqsOK

\* A handler under way is on the order its request named, and one that overlaps
\* with it there is allowed to.
Attended ==
    /\ \A r \in Request : job[r].step # "none" =>
          Busy(r) /\ job[r].id \in Order /\ req[r].doc = job[r].id
    /\ \A r, s \in Request : r # s /\ Busy(r) /\ Busy(s) /\ req[r].doc = req[s].doc =>
          {req[r].op, req[s].op} \subseteq DocRacing

\* What the guard of the load found still holds at the statement it guards.
Guarded(r) ==
    /\ job[r].step = "decide" =>
          req[r].op \in DOMAIN Decision /\ orders[job[r].id].status \in Expected(req[r].op)
    /\ job[r].step \in {"checked", "replace", "reply"} =>
          req[r].op = "update" /\ orders[job[r].id].status = "DRAFT" /\ job[r].lines \in Basket
    /\ job[r].step \in Receiving =>
          /\ req[r].op = "receive" /\ job[r].lines \in Delivery
          /\ orders[job[r].id].status \in {"APPROVED", "PARTIALLY_RECEIVED", "COMPLETED"}
    /\ job[r].step = "increment" => job[r].at \in DOMAIN job[r].lines

\* The lines of the delivery that are incremented already.
Taken(r) == {n \in Meaningful(job[r].lines) \ job[r].left :
                job[r].step = "increment" => n # job[r].at}

\* The units of a receipt are those of the lines its loop has taken, each once and
\* all of them at the end; any other handler has none.
Booked(r) ==
    /\ job[r].step \notin Receiving => \A p \in Product : job[r].units[p] = NoUnits
    /\ job[r].step \in Receiving =>
          /\ Meaningful(job[r].lines) # {} /\ job[r].left \subseteq Meaningful(job[r].lines)
          /\ \A n \in Taken(r) :
                job[r].units[job[r].lines[n].product] =
                   [sound |-> job[r].lines[n].sound, damaged |-> job[r].lines[n].damaged]
          /\ \A p \in Product : job[r].units[p] # NoUnits =>
                \E n \in Taken(r) : job[r].lines[n].product = p
    /\ job[r].step = "increment" => job[r].at \in Meaningful(job[r].lines) \ job[r].left
    /\ job[r].step = "finish" => job[r].left = {}

BookInv == \A r \in Request : Booked(r)

\* Units are on the lines only once something was received.
Unreceived ==
    \A o \in Order : orders[o].status \notin {"PARTIALLY_RECEIVED", "COMPLETED"} =>
        orders[o].sound = None /\ orders[o].damaged = None

OInv ==
    /\ Typed /\ Attended /\ (\A r \in Request : Guarded(r)) /\ BookInv
    /\ Unreceived /\ ReceiptsMatchLines /\ CompletionTimed

Elsewhere(r) == \A s \in Request : s # r => req'[s] = req[s] /\ job'[s] = job[s]

\* A statement of r that writes the order o, and nothing of another order.
Writes(r, o) ==
    /\ orders' \in [Order -> OrderRow]
    /\ receipts' \in [Order -> [Product -> Units]]
    /\ job' \in [Request -> JobType]
    /\ ReqsOK'
    /\ Elsewhere(r)
    /\ \A u \in Order : u # o => orders'[u] = orders[u] /\ receipts'[u] = receipts[u]
    /\ Busy(r)' /\ req'[r].doc = o /\ job'[r].id = o
    /\ \A s \in Request : s # r /\ Busy(s) /\ req[s].doc = o =>
          {req'[r].op, req[s].op} \subseteq DocRacing
    /\ Guarded(r)' /\ Booked(r)'

\* What else is on the order is a receipt, and can go on with what is written.
Undisturbed(r, o) ==
    \A s \in Request : s # r /\ job[s].step # "none" /\ job[s].id = o =>
        /\ job[s].step \notin {"decide", "checked", "replace", "reply"}
        /\ orders'[o].status \in {"APPROVED", "PARTIALLY_RECEIVED", "COMPLETED"}

\* What is written keeps the order right.
Consistent(o) ==
    /\ orders'[o].status \notin {"PARTIALLY_RECEIVED", "COMPLETED"} =>
          orders'[o].sound = None /\ orders'[o].damaged = None
    /\ \A p \in Product :
          /\ orders'[o].sound[p] = OpeningOrders[o].sound[p] + receipts'[o][p].sound
          /\ orders'[o].damaged[p] = OpeningOrders[o].damaged[p] + receipts'[o][p].damaged
    /\ orders'[o].completed <=> orders'[o].status = "COMPLETED"

-----------------------------------------------------------------------------
\* What a handler remembers when it has nothing to do.
LEMMA NoJobType == NoJob \in JobType /\ NoJob.step = "none"
  BY DEF NoJob, JobType, NoUnits, Units

\* An answer changes the status of one request, and nothing else of it.
LEMMA AnswerFacts ==
  ASSUME Typed, NEW r \in Request, NEW how \in {"ok", "refused", "failed"}, Answer(r, how)
  PROVE  /\ ReqsOK'
         /\ \A s \in Request : s # r => req'[s] = req[s]
         /\ req'[r].status = how /\ req'[r].op = req[r].op /\ req'[r].doc = req[r].doc
  <1> DEFINE x == [req[r] EXCEPT !.status = how]
  <1>1. Shaped(req[r])
    BY DEF Typed, ReqsOK
  <1>2. Shaped(x) /\ x.status = how /\ x.op = req[r].op /\ x.doc = req[r].doc
    BY <1>1 DEF Shaped
  <1>3. req' = [req EXCEPT ![r] = x]
    BY DEF Answer
  <1> HIDE DEF x
  <1> QED BY <1>2, <1>3 DEF Typed, ReqsOK

\* A request that starts is alone on its order, up to DocRacing.
LEMMA StartFacts ==
  ASSUME Typed, NEW r \in Request, NEW op \in Op, NEW o \in Order,
         NEW stock, Start(r, op, o, stock)
  PROVE  /\ ReqsOK'
         /\ req[r].status = "new"
         /\ \A s \in Request : s # r => req'[s] = req[s]
         /\ req'[r].status = "busy" /\ req'[r].op = op /\ req'[r].doc = o
         /\ \A s \in Request : Busy(s) /\ req[s].doc = o => {op, req[s].op} \subseteq DocRacing
  <1> DEFINE x == [op |-> op, status |-> "busy", doc |-> o, stock |-> stock]
  <1>1. Shaped(x) /\ x.status = "busy" /\ x.op = op /\ x.doc = o
    BY DEF Shaped
  <1>2. req' = [req EXCEPT ![r] = x]
    BY DEF Start
  <1> HIDE DEF x
  <1>3. req[r].status = "new" /\
        \A s \in Request : Busy(s) /\ req[s].doc = o => {op, req[s].op} \subseteq DocRacing
    BY DEF Start, MayStart
  <1> QED BY <1>1, <1>2, <1>3 DEF Typed, ReqsOK

\* The loops of the other receipts stay where they are.
LEMMA BooksKept ==
  ASSUME BookInv, NEW r \in Request, \A s \in Request : s # r => job'[s] = job[s], Booked(r)'
  PROVE  BookInv'
  <1>1. ASSUME NEW s \in Request, s # r PROVE Booked(s)'
    BY <1>1 DEF BookInv, Booked, Taken
  <1> QED BY <1>1 DEF BookInv

\* A handler outside the loop of receive has no units.
LEMMA OutOfLoop ==
  ASSUME NEW r \in Request, job'[r].step \notin Receiving,
         \A p \in Product : job'[r].units[p] = NoUnits
  PROVE  Booked(r)'
  BY DEF Booked, Receiving

\* One that goes on outside it still has none.
LEMMA StaysOut ==
  ASSUME BookInv, NEW r \in Request, job[r].step \notin Receiving,
         job'[r].step \notin Receiving, job'[r].units = job[r].units
  PROVE  Booked(r)'
  BY OutOfLoop DEF BookInv, Booked

\* A handler that answers is out of the way.
LEMMA GoneKeeps ==
  ASSUME OInv, NEW r \in Request, NEW how \in {"ok", "refused", "failed"}, Answer(r, how),
         \/ job' = [job EXCEPT ![r] = NoJob]
         \/ UNCHANGED job /\ req[r].status = "new",
         UNCHANGED <<orders, receipts>>
  PROVE  OInv'
  <1> USE DEF OInv
  <1>1. /\ ReqsOK'
        /\ req'[r].status = how /\ req'[r].op = req[r].op /\ req'[r].doc = req[r].doc
        /\ job' \in [Request -> JobType] /\ job'[r].step = "none" /\ Elsewhere(r)
        /\ \/ job' = [job EXCEPT ![r] = NoJob]
           \/ UNCHANGED job /\ job[r].step = "none"
    BY AnswerFacts, NoJobType DEF Typed, Elsewhere, Attended, Busy
  <1>2. Typed'
    BY <1>1 DEF Typed
  <1>3. Attended'
    BY <1>1 DEF Attended, Elsewhere, Busy
  <1>4. \A s \in Request : Guarded(s)'
    BY <1>1 DEF Guarded, Elsewhere, Receiving
  <1>5. (Unreceived /\ ReceiptsMatchLines /\ CompletionTimed)'
    BY DEF Unreceived, ReceiptsMatchLines, CompletionTimed
  <1>6. \A p \in Product : job'[r].units[p] = NoUnits
    <2>1. CASE job' = [job EXCEPT ![r] = NoJob]
      <3>1. job'[r] = NoJob
        BY <2>1 DEF Typed
      <3> QED BY <3>1 DEF NoJob
    <2>2. CASE UNCHANGED job /\ job[r].step = "none"
      BY <2>2 DEF BookInv, Booked, Receiving
    <2> QED BY <1>1, <2>1, <2>2
  <1>7. BookInv'
    BY <1>1, <1>6, OutOfLoop, BooksKept DEF Elsewhere, Receiving
  <1> QED BY <1>2, <1>3, <1>4, <1>5, <1>7

\* A handler that starts has checked what it starts from.
LEMMA BeginKeeps ==
  ASSUME OInv, NEW r \in Request, NEW op \in Op, NEW o \in Order, NEW stock,
         Start(r, op, o, stock), UNCHANGED <<orders, receipts>>,
         NEW x \in JobType, x.id = o, job' = [job EXCEPT ![r] = x], Guarded(r)', Booked(r)'
  PROVE  OInv'
  <1> USE DEF OInv
  <1>1. /\ ReqsOK' /\ req[r].status = "new"
        /\ req'[r].status = "busy" /\ req'[r].op = op /\ req'[r].doc = o
        /\ \A s \in Request : s # r => req'[s] = req[s]
        /\ \A s \in Request : Busy(s) /\ req[s].doc = o => {op, req[s].op} \subseteq DocRacing
    BY StartFacts
  <1>2. Elsewhere(r) /\ job'[r] = x /\ job' \in [Request -> JobType]
    BY <1>1 DEF Elsewhere, Typed
  <1>3. Typed'
    BY <1>1, <1>2 DEF Typed
  <1>4. Attended'
    BY <1>1, <1>2 DEF Attended, Elsewhere, Busy
  <1>5. \A s \in Request : Guarded(s)'
    BY <1>2 DEF Guarded, Elsewhere
  <1>6. (Unreceived /\ ReceiptsMatchLines /\ CompletionTimed)'
    BY DEF Unreceived, ReceiptsMatchLines, CompletionTimed
  <1>7. BookInv'
    BY <1>2, BooksKept DEF Elsewhere
  <1> QED BY <1>3, <1>4, <1>5, <1>6, <1>7

\* A request that is new has no units.
LEMMA IdleUnits ==
  ASSUME OInv, NEW r \in Request, req[r].status = "new"
  PROVE  job[r].step = "none" /\ \A p \in Product : job[r].units[p] = NoUnits
  BY DEF OInv, Attended, Busy, BookInv, Booked, Receiving

\* send, approve, cancel and close find the order in the status they expect.
LEMMA LoadKeeps ==
  ASSUME OInv, NEW r \in Request, Load(r)
  PROVE  OInv'
  <1>1. PICK op \in DOMAIN Decision, o \in Order :
          /\ Allowed(r, op, o)
          /\ Start(r, op, o, {})
          /\ job' = [job EXCEPT ![r].step = "decide", ![r].id = o]
          /\ UNCHANGED <<orders, receipts>>
    BY DEF Load
  <1> DEFINE x == [job[r] EXCEPT !.step = "decide", !.id = o]
  <1>2. x \in JobType /\ x.step = "decide" /\ x.id = o /\ x.units = job[r].units
    BY DEF OInv, Typed, JobType
  <1>3. job' = [job EXCEPT ![r] = x] /\ job'[r] = x
    BY <1>1 DEF OInv, Typed
  <1> HIDE DEF x
  <1>4. op \in Op
    BY DEF Op
  <1>5. req'[r].op = op
    BY <1>1, <1>4, StartFacts DEF OInv
  <1>6. Guarded(r)'
    BY <1>1, <1>2, <1>3, <1>5 DEF Guarded, Allowed, Receiving
  <1>7. Booked(r)'
    BY <1>1, <1>2, <1>3, IdleUnits, OutOfLoop DEF Start, MayStart, Receiving
  <1> QED BY <1>1, <1>2, <1>3, <1>4, <1>6, <1>7, BeginKeeps

\* An update finds a draft and remembers its basket.
LEMMA LoadUpdateKeeps ==
  ASSUME OInv, NEW r \in Request, LoadUpdate(r)
  PROVE  OInv'
  <1>1. PICK o \in Order, b \in Basket :
          /\ Allowed(r, "update", o)
          /\ Start(r, "update", o, {})
          /\ job' = [job EXCEPT ![r].step = "checked", ![r].id = o, ![r].lines = b]
          /\ UNCHANGED <<orders, receipts>>
    BY DEF LoadUpdate
  <1> DEFINE x == [job[r] EXCEPT !.step = "checked", !.id = o, !.lines = b]
  <1>2. /\ x \in JobType /\ x.step = "checked" /\ x.id = o /\ x.lines = b
        /\ x.units = job[r].units
    BY DEF OInv, Typed, JobType
  <1>3. job' = [job EXCEPT ![r] = x] /\ job'[r] = x
    BY <1>1 DEF OInv, Typed
  <1> HIDE DEF x
  <1>4. req'[r].op = "update"
    BY <1>1, StartFacts DEF OInv, Op
  <1>5. Guarded(r)'
    BY <1>1, <1>2, <1>3, <1>4 DEF Guarded, Allowed, Expected, Receiving
  <1>6. Booked(r)'
    BY <1>1, <1>2, <1>3, IdleUnits, OutOfLoop DEF Start, MayStart, Receiving
  <1> QED BY <1>1, <1>2, <1>3, <1>5, <1>6, BeginKeeps DEF Op

\* The indices of a delivery are naturals, and its lines products with units.
LEMMA DeliveryFacts ==
  ASSUME NEW d \in Delivery
  PROVE  /\ DOMAIN d \subseteq Nat
         /\ NoDuplicates(d)
         /\ \A n \in DOMAIN d :
               d[n].product \in Product /\ d[n].sound \in Nat /\ d[n].damaged \in Nat
  <1>1. d \in Seq([product : Product, sound : Nat, damaged : Nat]) /\ NoDuplicates(d)
    BY OrdersAssumption
  <1>2. DOMAIN d = 1 .. Len(d)
    BY <1>1, LenProperties
  <1>3. \A n \in DOMAIN d : d[n] \in [product : Product, sound : Nat, damaged : Nat]
    BY <1>1, <1>2, ElementOfSeq
  <1> QED BY <1>1, <1>2, <1>3

\* The loop takes the lines one by one.
LEMMA LoopBooks ==
  ASSUME OInv, NEW r \in Request,
         LoadReceive(r) \/ Recheck(r) \/ Increment(r) \/ Tally(r)
  PROVE  Booked(r)'
  <1>1. job \in [Request -> JobType] /\ job[r] \in JobType /\ Booked(r)
    BY DEF OInv, Typed, BookInv
  <1>2. CASE LoadReceive(r)
    <2>1. PICK d \in Delivery :
            /\ Meaningful(d) # {} /\ req[r].status = "new"
            /\ \E o : job' = [job EXCEPT ![r].step = "receive", ![r].id = o,
                                         ![r].lines = d, ![r].left = Meaningful(d)]
      BY <1>2 DEF LoadReceive, Start, MayStart
    <2>2. \A p \in Product : job[r].units[p] = NoUnits
      BY <2>1, IdleUnits
    <2>3. /\ job'[r].step = "receive" /\ job'[r].lines = d /\ job'[r].left = Meaningful(d)
          /\ job'[r].units = job[r].units
      BY <1>1, <2>1 DEF JobType
    <2> QED BY <2>1, <2>2, <2>3 DEF Booked, Taken, Receiving
  <1>3. CASE Recheck(r)
    <2>1. PICK n \in DOMAIN job[r].lines :
            /\ job[r].step = "receive" /\ n \in job[r].left
            /\ job' = [job EXCEPT ![r].step = "increment", ![r].at = n, ![r].left = @ \ {n}]
      BY <1>3 DEF Recheck, AtLine
    <2>2. /\ job'[r].step = "increment" /\ job'[r].lines = job[r].lines
          /\ job'[r].left = job[r].left \ {n} /\ job'[r].at = n /\ job'[r].units = job[r].units
      <3> DEFINE x == [job[r] EXCEPT !.step = "increment", !.at = n, !.left = @ \ {n}]
      <3>1. /\ x.step = "increment" /\ x.lines = job[r].lines /\ x.left = job[r].left \ {n}
            /\ x.at = n /\ x.units = job[r].units
        BY <1>1 DEF JobType
      <3>2. job' = [job EXCEPT ![r] = x]
        BY <1>1, <2>1
      <3> HIDE DEF x
      <3> QED BY <1>1, <3>1, <3>2
    <2>3. Taken(r)' = Taken(r)
      BY <2>1, <2>2 DEF Taken
    <2>4. n \in Meaningful(job[r].lines) \ job'[r].left
      BY <1>1, <2>1, <2>2 DEF Booked, Receiving
    <2> QED BY <1>1, <2>1, <2>2, <2>3, <2>4 DEF Booked, Receiving
  <1>4. CASE Increment(r)
    <2> DEFINE l == Current(r)
               v == [sound |-> l.sound, damaged |-> l.damaged]
               x == [job[r] EXCEPT !.step = "receive", !.units[l.product] = v]
    <2>1. job[r].step = "increment" /\ job' = [job EXCEPT ![r] = x]
      BY <1>4 DEF Increment
    <2>2. /\ x.step = "receive" /\ x.lines = job[r].lines /\ x.left = job[r].left
          /\ x.units = [job[r].units EXCEPT ![l.product] = v]
      BY <1>1 DEF JobType
    <2>3. job'[r] = x
      BY <1>1, <2>1
    <2>4. /\ job[r].at \in Meaningful(job[r].lines) \ job[r].left
          /\ job[r].lines \in Delivery
      BY <1>1, <2>1 DEF Booked, OInv, Guarded, Receiving
    <2>5. /\ l.product \in Product
          /\ \A n \in DOMAIN job[r].lines : job[r].lines[n].product \in Product
          /\ \A n \in DOMAIN job[r].lines : job[r].lines[n].product = l.product => n = job[r].at
      BY <2>4, DeliveryFacts DEF Current, Meaningful, NoDuplicates
    <2>6. /\ x.units[l.product] = v
          /\ \A p \in Product \ {l.product} : x.units[p] = job[r].units[p]
      BY <1>1, <2>2, <2>5 DEF JobType
    <2> HIDE DEF x
    <2>7. Taken(r)' = Taken(r) \cup {job[r].at} /\ job[r].at \notin Taken(r)
      BY <2>1, <2>2, <2>3, <2>4 DEF Taken
    <2>8. ASSUME NEW n \in Taken(r)'
          PROVE  x.units[job[r].lines[n].product] =
                    [sound |-> job[r].lines[n].sound, damaged |-> job[r].lines[n].damaged]
      <3>1. CASE n = job[r].at
        BY <2>6, <3>1 DEF Current
      <3>2. CASE n # job[r].at
        <4>1. n \in Taken(r) /\ n \in DOMAIN job[r].lines
          BY <2>7, <2>8, <3>2 DEF Taken, Meaningful
        <4>2. job[r].lines[n].product \in Product \ {l.product}
          BY <2>5, <3>2, <4>1
        <4> QED BY <1>1, <2>1, <2>6, <4>1, <4>2 DEF Booked, Receiving
      <3> QED BY <3>1, <3>2
    <2>9. ASSUME NEW p \in Product, x.units[p] # NoUnits
          PROVE  \E n \in Taken(r)' : job[r].lines[n].product = p
      <3>1. CASE p = l.product
        BY <2>7, <3>1 DEF Current
      <3>2. CASE p # l.product
        BY <1>1, <2>1, <2>6, <2>7, <2>9, <3>2 DEF Booked, Receiving
      <3> QED BY <3>1, <3>2
    <2>10. /\ job'[r].step = "receive" /\ job'[r].lines = job[r].lines
           /\ job'[r].units = x.units /\ job'[r].left = job[r].left
           /\ Meaningful(job[r].lines) # {} /\ job[r].left \subseteq Meaningful(job[r].lines)
      BY <1>1, <2>1, <2>2, <2>3 DEF Booked, Receiving
    <2> HIDE DEF v, l
    <2> QED BY <2>8, <2>9, <2>10 DEF Booked, Receiving
  <1>5. CASE Tally(r)
    <2>1. /\ job[r].step = "receive" /\ job[r].left = {}
          /\ \E c : job' = [job EXCEPT ![r].step = "finish", ![r].complete = c]
      BY <1>5 DEF Tally
    <2>2. /\ job'[r].step = "finish" /\ job'[r].lines = job[r].lines
          /\ job'[r].left = job[r].left /\ job'[r].units = job[r].units
      BY <1>1, <2>1 DEF JobType
    <2>3. Taken(r)' = Taken(r)
      BY <2>1, <2>2 DEF Taken
    <2> DEFINE lines == job[r].lines  units == job[r].units  taken == Taken(r)
    <2>5. /\ Meaningful(lines) # {} /\ job[r].left \subseteq Meaningful(lines)
          /\ \A n \in taken : units[lines[n].product] =
                               [sound |-> lines[n].sound, damaged |-> lines[n].damaged]
          /\ \A p \in Product : units[p] # NoUnits => \E n \in taken : lines[n].product = p
      BY <1>1, <2>1 DEF Booked, Receiving
    <2>6. job'[r].lines = lines /\ job'[r].units = units /\ Taken(r)' = taken
      BY <2>2, <2>3
    <2> HIDE DEF lines, units, taken
    <2> QED BY <2>1, <2>2, <2>5, <2>6 DEF Booked, Receiving
  <1> QED BY <1>2, <1>3, <1>4, <1>5

\* A receipt finds an order that takes deliveries, and opens its transaction.
LEMMA LoadReceiveKeeps ==
  ASSUME OInv, NEW r \in Request, LoadReceive(r)
  PROVE  OInv'
  <1>1. PICK o \in Order, d \in Delivery :
          /\ Allowed(r, "receive", o)
          /\ Start(r, "receive", o,
                   {<<d[n].product, orders[o].warehouse>> : n \in DOMAIN d})
          /\ job' = [job EXCEPT ![r].step = "receive", ![r].id = o,
                                ![r].lines = d, ![r].left = Meaningful(d)]
          /\ UNCHANGED <<orders, receipts>>
    BY DEF LoadReceive
  <1> DEFINE x == [job[r] EXCEPT !.step = "receive", !.id = o,
                                 !.lines = d, !.left = Meaningful(d)]
  <1>2. Meaningful(d) \in SUBSET Nat
    BY DeliveryFacts DEF Meaningful
  <1>3. x \in JobType /\ x.step = "receive" /\ x.id = o /\ x.lines = d
    BY <1>2 DEF OInv, Typed, JobType, Receiving
  <1>4. job' = [job EXCEPT ![r] = x] /\ job'[r] = x
    BY <1>1 DEF OInv, Typed
  <1> HIDE DEF x
  <1>5. req'[r].op = "receive"
    BY <1>1, StartFacts DEF OInv, Op
  <1>6. Guarded(r)'
    BY <1>1, <1>3, <1>4, <1>5 DEF Guarded, Allowed, Expected, Receiving
  <1>7. Booked(r)'
    BY LoopBooks
  <1> QED BY <1>1, <1>3, <1>4, <1>6, <1>7, BeginKeeps DEF Op

\* A handler goes on to its next statement without a write to the order.
LEMMA AdvanceKeeps ==
  ASSUME OInv, NEW r \in Request, job[r].step # "none",
         UNCHANGED <<req, orders, receipts>>,
         NEW x \in JobType, x.id = job[r].id, job' = [job EXCEPT ![r] = x],
         Guarded(r)', Booked(r)'
  PROVE  OInv'
  <1> USE DEF OInv
  <1>1. job'[r] = x /\ job' \in [Request -> JobType] /\ Elsewhere(r)
    BY DEF Typed, Elsewhere
  <1>2. Typed'
    BY <1>1 DEF Typed, ReqsOK
  <1>3. Attended'
    BY <1>1 DEF Attended, Elsewhere, Busy
  <1>4. \A s \in Request : Guarded(s)'
    BY <1>1 DEF Guarded, Elsewhere
  <1>5. (Unreceived /\ ReceiptsMatchLines /\ CompletionTimed)'
    BY DEF Unreceived, ReceiptsMatchLines, CompletionTimed
  <1>6. BookInv'
    BY <1>1, BooksKept DEF Elsewhere
  <1> QED BY <1>2, <1>3, <1>4, <1>5, <1>6

\* The delete of an update only takes note of the lines it sees.
LEMMA DeleteLinesKeeps ==
  ASSUME OInv, NEW r \in Request, DeleteLines(r)
  PROVE  OInv'
  <1> DEFINE x == [job[r] EXCEPT !.step = "replace", !.rev = orders[job[r].id].rev]
  <1>1. job[r].step = "checked" /\ UNCHANGED <<req, orders, receipts>>
    BY DEF DeleteLines
  <1>2. orders[job[r].id].rev \in Nat
    BY <1>1 DEF OInv, Typed, Attended, OrderRow
  <1>3. /\ x \in JobType /\ x.step = "replace" /\ x.id = job[r].id /\ x.lines = job[r].lines
        /\ x.units = job[r].units /\ job' = [job EXCEPT ![r] = x] /\ job'[r] = x
    BY <1>2 DEF OInv, Typed, JobType, DeleteLines
  <1> HIDE DEF x
  <1>4. Guarded(r)'
    BY <1>1, <1>3 DEF OInv, Guarded, Receiving
  <1>5. Booked(r)'
    BY <1>1, <1>3, StaysOut DEF OInv, Receiving
  <1> QED BY <1>1, <1>3, <1>4, <1>5, AdvanceKeeps

\* The line of the next turn is one of the delivery.
LEMMA RecheckKeeps ==
  ASSUME OInv, NEW r \in Request, Recheck(r)
  PROVE  OInv'
  <1>1. PICK n \in DOMAIN job[r].lines :
          /\ AtLine(r, n)
          /\ job' = [job EXCEPT ![r].step = "increment", ![r].at = n, ![r].left = @ \ {n}]
          /\ UNCHANGED <<req, orders, receipts>>
    BY DEF Recheck
  <1> DEFINE x == [job[r] EXCEPT !.step = "increment", !.at = n, !.left = @ \ {n}]
  <1>2. job[r].step = "receive" /\ n \in Nat
    BY <1>1, DeliveryFacts DEF OInv, Guarded, AtLine, Receiving
  <1>3. /\ x \in JobType /\ x.step = "increment" /\ x.id = job[r].id /\ x.at = n
        /\ x.lines = job[r].lines
        /\ job' = [job EXCEPT ![r] = x] /\ job'[r] = x
    BY ZenonT(60), <1>1, <1>2 DEF OInv, Typed, JobType, Receiving
  <1> HIDE DEF x
  <1>4. Guarded(r)'
    BY <1>1, <1>2, <1>3 DEF OInv, Guarded, Receiving
  <1> QED BY <1>1, <1>2, <1>3, <1>4, LoopBooks, AdvanceKeeps

\* The units of a line are naturals, kept until the commit.
LEMMA IncrementKeeps ==
  ASSUME OInv, NEW r \in Request, Increment(r)
  PROVE  OInv'
  <1> DEFINE l == Current(r)
             x == [job[r] EXCEPT !.step = "receive",
                     !.units[l.product] = [sound |-> l.sound, damaged |-> l.damaged]]
  <1>1. /\ job[r].step = "increment" /\ UNCHANGED <<req, orders, receipts>>
        /\ job' = [job EXCEPT ![r] = x]
    BY DEF Increment
  <1>2. l.product \in Product /\ l.sound \in Nat /\ l.damaged \in Nat
    BY <1>1, DeliveryFacts DEF OInv, Guarded, Current, Receiving
  <1> HIDE DEF l
  <1>3. x \in JobType /\ x.step = "receive" /\ x.id = job[r].id /\ x.lines = job[r].lines
    BY ZenonT(60), <1>2 DEF OInv, Typed, JobType, Receiving, Units
  <1> HIDE DEF x
  <1>4. job'[r] = x
    BY <1>1 DEF OInv, Typed
  <1>5. Guarded(r)'
    BY <1>1, <1>3, <1>4 DEF OInv, Guarded, Receiving
  <1> QED BY <1>1, <1>3, <1>5, LoopBooks, AdvanceKeeps

\* The tally only writes what the handler remembers.
LEMMA TallyKeeps ==
  ASSUME OInv, NEW r \in Request, Tally(r)
  PROVE  OInv'
  <1> DEFINE x == [job[r] EXCEPT !.step = "finish",
                                 !.complete = FullyAccounted(r, job[r].id)]
  <1>1. job[r].step = "receive" /\ UNCHANGED <<req, orders, receipts>>
    BY DEF Tally
  <1>2. FullyAccounted(r, job[r].id) \in BOOLEAN
    BY Zenon DEF FullyAccounted
  <1>3. /\ x \in JobType /\ x.step = "finish" /\ x.id = job[r].id /\ x.lines = job[r].lines
        /\ job' = [job EXCEPT ![r] = x] /\ job'[r] = x
    BY ZenonT(60), <1>2 DEF OInv, Typed, JobType, Receiving, Tally
  <1> HIDE DEF x
  <1>4. Guarded(r)'
    BY <1>1, <1>3 DEF OInv, Guarded, Receiving
  <1> QED BY <1>1, <1>3, <1>4, LoopBooks, AdvanceKeeps

\* After the log row, a send goes on to its alert and the others answer.
LEMMA LogKeeps ==
  ASSUME OInv, NEW r \in Request, Log(r)
  PROVE  OInv'
  <1>1. CASE req[r].op = "send"
    <2> DEFINE x == [job[r] EXCEPT !.step = "notify"]
    <2>1. job[r].step = "log" /\ UNCHANGED <<req, orders, receipts>>
      BY <1>1 DEF Log
    <2>2. /\ x \in JobType /\ x.step = "notify" /\ x.id = job[r].id
          /\ x.units = job[r].units /\ job' = [job EXCEPT ![r] = x] /\ job'[r] = x
      BY <1>1 DEF OInv, Typed, JobType, Log
    <2> HIDE DEF x
    <2>3. Guarded(r)'
      BY <2>2 DEF Guarded, Receiving
    <2>4. Booked(r)'
      BY <2>1, <2>2, StaysOut DEF OInv, Receiving
    <2> QED BY <2>1, <2>2, <2>3, <2>4, AdvanceKeeps
  <1>2. CASE req[r].op # "send"
    BY <1>2, GoneKeeps DEF Log
  <1> QED BY <1>1, <1>2

\* A step that leaves requests, orders and handlers alone.
LEMMA IdleKeeps ==
  ASSUME OInv, UNCHANGED <<req, job, orders, receipts>>
  PROVE  OInv'
  <1>1. Typed' /\ Attended'
    BY DEF OInv, Typed, ReqsOK, Attended, Busy
  <1>2. \A s \in Request : Guarded(s)'
    BY DEF OInv, Guarded
  <1>3. (Unreceived /\ ReceiptsMatchLines /\ CompletionTimed)'
    BY DEF OInv, Unreceived, ReceiptsMatchLines, CompletionTimed
  <1>4. BookInv'
    BY DEF OInv, BookInv, Booked, Taken
  <1> QED BY <1>1, <1>2, <1>3, <1>4 DEF OInv

\* A statement that writes the order, when what else goes on there allows it.
LEMMA WriteKeeps ==
  ASSUME OInv, NEW r \in Request, NEW o \in Order,
         Writes(r, o), Undisturbed(r, o), Consistent(o)
  PROVE  OInv'
  <1> USE DEF OInv
  <1>1. /\ orders' \in [Order -> OrderRow] /\ Elsewhere(r)
        /\ \A u \in Order : u # o => orders'[u] = orders[u] /\ receipts'[u] = receipts[u]
    BY DEF Writes
  <1>2. Typed'
    BY DEF Typed, Writes
  <1>3. Attended'
    <2>1. \A s \in Request : job'[s].step # "none" =>
             Busy(s)' /\ job'[s].id \in Order /\ req'[s].doc = job'[s].id
      BY DEF Attended, Elsewhere, Busy, Writes
    <2>2. ASSUME NEW s \in Request, NEW u \in Request, s # u, Busy(s)', Busy(u)',
                 req'[s].doc = req'[u].doc
          PROVE  {req'[s].op, req'[u].op} \subseteq DocRacing
      <3>1. CASE s # r /\ u # r
        BY <2>2, <3>1 DEF Attended, Elsewhere, Busy, Writes
      <3>2. CASE s = r
        BY <2>2, <3>2 DEF Elsewhere, Busy, Writes
      <3>3. CASE u = r
        BY <2>2, <3>3 DEF Elsewhere, Busy, Writes
      <3> QED BY <3>1, <3>2, <3>3
    <2> QED BY <2>1, <2>2 DEF Attended
  <1>4. ASSUME NEW s \in Request
        PROVE  Guarded(s)'
    <2>1. CASE s = r
      BY <2>1 DEF Writes
    <2>2. CASE s # r /\ job[s].step = "none"
      BY <1>1, <2>2 DEF Guarded, Receiving, Elsewhere
    <2>3. CASE s # r /\ job[s].step # "none" /\ job[s].id = o
      <3>1. job'[s] = job[s] /\ req'[s] = req[s]
        BY <1>1, <2>3 DEF Elsewhere
      <3> QED BY <2>3, <3>1 DEF Guarded, Undisturbed, Receiving
    <2>4. CASE s # r /\ job[s].step # "none" /\ job[s].id # o
      <3>1. job[s].id \in Order
        BY <2>4 DEF Attended
      <3>2. job'[s] = job[s] /\ req'[s] = req[s] /\ orders'[job[s].id] = orders[job[s].id]
        BY <1>1, <2>4, <3>1 DEF Elsewhere
      <3> QED BY <2>4, <3>2 DEF Guarded
    <2> QED BY <2>1, <2>2, <2>3, <2>4
  <1>5. Unreceived'
    BY <1>1 DEF Unreceived, Consistent
  <1>6. ReceiptsMatchLines'
    BY <1>1 DEF ReceiptsMatchLines, Consistent
  <1>7. CompletionTimed'
    BY <1>1 DEF CompletionTimed, Consistent
  <1>8. BookInv'
    BY BooksKept DEF Writes, Elsewhere
  <1> QED BY <1>2, <1>3, <1>4, <1>5, <1>6, <1>7, <1>8

\* A stored basket has a count for every product.
LEMMA StoredType ==
  ASSUME NEW b \in Basket
  PROVE  Stored(b) \in Count
  <1>1. b \in Seq([product : Product, quantity : Nat \ {0}])
    BY OrdersAssumption
  <1>2. DOMAIN b = 1 .. Len(b)
    BY <1>1, LenProperties
  <1>3. \A n \in DOMAIN b : b[n] \in [product : Product, quantity : Nat \ {0}]
    BY <1>1, <1>2, ElementOfSeq
  <1>4. \A n \in DOMAIN b : b[n].quantity \in Nat
    BY <1>3
  <1> QED BY <1>4 DEF Stored, Count

\* The counts of an order before its first receipt.
LEMMA NoneType == None \in Count /\ \A p \in Product : None[p] = 0
  BY DEF None, Count

\* The units of an order without units are those it had, and none were received.
LEMMA StillEmpty ==
  ASSUME OInv, NEW o \in Order,
         orders[o].status \notin {"PARTIALLY_RECEIVED", "COMPLETED"}
  PROVE  \A p \in Product :
            /\ None[p] = OpeningOrders[o].sound[p] + receipts[o][p].sound
            /\ None[p] = OpeningOrders[o].damaged[p] + receipts[o][p].damaged
  BY DEF OInv, Unreceived, ReceiptsMatchLines

\* A new order takes an id that was free.
LEMMA CreateKeeps ==
  ASSUME OInv, OnlyReceipts, NEW r \in Request, Create(r)
  PROVE  OInv'
  <1>1. PICK o \in Order, w \in Warehouse, b \in Basket :
          /\ orders[o].status = "NONE"
          /\ Start(r, "create", o, {})
          /\ orders' = [orders EXCEPT ![o] =
                          [status |-> "DRAFT", warehouse |-> w, quantity |-> Stored(b),
                           sound |-> None, damaged |-> None,
                           completed |-> FALSE, rev |-> 0]]
          /\ job' = [job EXCEPT ![r].step = "log", ![r].id = o]
          /\ UNCHANGED receipts
    BY DEF Create
  <1> DEFINE y == [status |-> "DRAFT", warehouse |-> w, quantity |-> Stored(b),
                   sound |-> None, damaged |-> None, completed |-> FALSE, rev |-> 0]
             x == [job[r] EXCEPT !.step = "log", !.id = o]
  <1>2. /\ y \in OrderRow /\ y.status = "DRAFT" /\ ~y.completed
        /\ y.sound = None /\ y.damaged = None
    BY StoredType, NoneType DEF OrderRow, Status
  <1>3. orders' = [orders EXCEPT ![o] = y]
    BY <1>1
  <1> HIDE DEF y
  <1>4. x \in JobType /\ x.step = "log" /\ x.id = o /\ x.units = job[r].units
    BY DEF OInv, Typed, JobType
  <1>5. job' = [job EXCEPT ![r] = x] /\ job'[r] = x
    BY <1>1 DEF OInv, Typed
  <1> HIDE DEF x
  <1>6. /\ ReqsOK' /\ req'[r].status = "busy" /\ req'[r].doc = o /\ req'[r].op = "create"
        /\ \A s \in Request : s # r => req'[s] = req[s]
        /\ \A s \in Request : Busy(s) /\ req[s].doc = o =>
              {"create", req[s].op} \subseteq DocRacing
    BY <1>1, StartFacts DEF OInv, Op
  <1>7. /\ orders' \in [Order -> OrderRow] /\ orders'[o] = y
        /\ \A u \in Order : u # o => orders'[u] = orders[u]
    BY <1>2, <1>3 DEF OInv, Typed
  <1>8. Writes(r, o)
    <2>1. Guarded(r)'
      BY <1>4, <1>5 DEF Guarded, Receiving
    <2>2. Booked(r)'
      BY <1>1, <1>4, <1>5, IdleUnits, OutOfLoop DEF Start, MayStart, Receiving
    <2> QED BY <1>1, <1>4, <1>5, <1>6, <1>7, <2>1, <2>2 DEF OInv, Typed, Writes, Elsewhere, Busy
  <1>9. Undisturbed(r, o)
    BY <1>6 DEF OInv, Attended, OnlyReceipts, Undisturbed
  <1>10. Consistent(o)
    BY <1>1, <1>2, <1>7, StillEmpty DEF Consistent
  <1> QED BY <1>8, <1>9, <1>10, WriteKeeps

\* Nobody overlaps with r on its order unless it is a receipt.
LEMMA Alone ==
  ASSUME OInv, OnlyReceipts, NEW r \in Request, job[r].step # "none",
         req[r].op # "receive"
  PROVE  \A s \in Request : s # r /\ job[s].step # "none" => job[s].id # job[r].id
  BY DEF OInv, Attended, OnlyReceipts

\* The row is written in a status that allows it, since nobody came between.
LEMMA DecideKeeps ==
  ASSUME OInv, OnlyReceipts, NEW r \in Request, Decide(r)
  PROVE  OInv'
  <1>1. PICK o \in Order : o = job[r].id /\ job[r].step = "decide"
    BY DEF Decide, OInv, Attended
  <1>2. PICK op \in DOMAIN Decision : op = req[r].op /\ orders[o].status \in Expected(op)
    BY <1>1 DEF OInv, Guarded
  <1> DEFINE x == [job[r] EXCEPT !.step = "log"]
             y == [orders[o] EXCEPT !.status = Decision[op],
                                    !.completed = @ \/ op = "close"]
  <1>3. /\ UNCHANGED <<req, receipts>>
        /\ orders' = [orders EXCEPT ![o] = y] /\ job' = [job EXCEPT ![r] = x]
    BY <1>1, <1>2 DEF Decide, OInv, Typed
  <1>4. x \in JobType /\ x.step = "log" /\ x.id = o /\ x.units = job[r].units
    BY <1>1 DEF OInv, Typed, JobType
  <1>5. /\ y \in OrderRow /\ y.status = Decision[op]
        /\ y.sound = orders[o].sound /\ y.damaged = orders[o].damaged
        /\ y.completed <=> orders[o].completed \/ op = "close"
    <2>1. Decision[op] \in Status
      BY DEF Decision, Status
    <2> QED BY <2>1 DEF OInv, Typed, OrderRow
  <1> HIDE DEF x, y
  <1>6. /\ orders' \in [Order -> OrderRow] /\ orders'[o] = y
        /\ \A u \in Order : u # o => orders'[u] = orders[u]
    BY <1>3, <1>5 DEF OInv, Typed
  <1>7. Writes(r, o)
    <2>1. job'[r] = x
      BY <1>3 DEF OInv, Typed
    <2>2. Guarded(r)' /\ Booked(r)'
      BY <1>1, <1>4, <2>1, StaysOut DEF OInv, Guarded, Receiving
    <2> QED BY <1>1, <1>3, <1>4, <1>6, <2>1, <2>2
            DEF OInv, Typed, ReqsOK, Attended, Writes, Elsewhere, Busy
  <1>8. Undisturbed(r, o)
    BY <1>1, <1>2, Alone DEF Undisturbed, Decision
  <1>9. Consistent(o)
    <2>1. orders'[o].status \notin {"PARTIALLY_RECEIVED", "COMPLETED"} =>
              orders'[o].sound = None /\ orders'[o].damaged = None
      BY <1>2, <1>5, <1>6 DEF OInv, Unreceived, Expected, Decision
    <2>2. orders'[o].completed <=> orders'[o].status = "COMPLETED"
      BY <1>2, <1>5, <1>6 DEF OInv, CompletionTimed, Expected, Decision
    <2>3. \A p \in Product :
              /\ orders'[o].sound[p] = OpeningOrders[o].sound[p] + receipts'[o][p].sound
              /\ orders'[o].damaged[p] = OpeningOrders[o].damaged[p] + receipts'[o][p].damaged
      BY <1>3, <1>5, <1>6 DEF OInv, ReceiptsMatchLines
    <2> QED BY <2>1, <2>2, <2>3 DEF Consistent
  <1> QED BY <1>7, <1>8, <1>9, WriteKeeps

\* A draft has no received units that a replacement could lose.
LEMMA ReplaceKeeps ==
  ASSUME OInv, OnlyReceipts, NEW r \in Request, Replace(r)
  PROVE  OInv'
  <1>1. PICK o \in Order : o = job[r].id /\ job[r].step = "replace"
    BY DEF Replace, OInv, Attended
  <1>2. PICK b \in Basket :
          b = job[r].lines /\ req[r].op = "update" /\ orders[o].status = "DRAFT"
    BY <1>1 DEF OInv, Guarded
  <1> DEFINE Keep(old, new) ==
               [p \in Product |-> IF p \in Remaining(r) THEN old[p] ELSE new[p]]
             z == orders[o]
             q == Keep(z.quantity, Stored(b))
             e == Keep(z.sound, None)
             f == Keep(z.damaged, None)
             y == [z EXCEPT !.quantity = q, !.sound = e, !.damaged = f, !.rev = @ + 1]
             x == [job[r] EXCEPT !.step = "reply"]
  <1>3. /\ UNCHANGED <<req, receipts>>
        /\ orders' = [orders EXCEPT ![o] = y] /\ job' = [job EXCEPT ![r] = x]
    BY <1>1, <1>2 DEF Replace, OInv, Typed
  <1>4. z \in OrderRow /\ z.status = "DRAFT" /\ z.sound = None /\ z.damaged = None
    BY <1>2 DEF OInv, Typed, Unreceived
  <1>5. e = None /\ f = None
    BY <1>4, NoneType DEF None
  <1>6. q \in Count
    BY <1>4, StoredType DEF OrderRow, Count
  <1>7. z.rev + 1 \in Nat
    BY <1>4 DEF OrderRow
  <1> HIDE DEF q, e, f, Keep, z
  <1>8. /\ y \in OrderRow /\ y.status = "DRAFT" /\ y.completed = z.completed
        /\ y.sound = None /\ y.damaged = None
    BY <1>4, <1>5, <1>6, <1>7, NoneType DEF OrderRow
  <1> HIDE DEF y
  <1>9. /\ orders' \in [Order -> OrderRow] /\ orders'[o] = y
        /\ \A u \in Order : u # o => orders'[u] = orders[u]
    BY <1>3, <1>8 DEF OInv, Typed
  <1>10. /\ x \in JobType /\ x.step = "reply" /\ x.id = o /\ x.lines = b
         /\ x.units = job[r].units /\ job' \in [Request -> JobType] /\ job'[r] = x
    <2>1. job \in [Request -> JobType]
      BY DEF OInv, Typed
    <2>2. /\ x \in JobType /\ x.step = "reply" /\ x.id = job[r].id
          /\ x.lines = job[r].lines /\ x.units = job[r].units
      BY <2>1 DEF JobType
    <2> HIDE DEF x
    <2> QED BY <1>1, <1>2, <1>3, <2>1, <2>2
  <1> HIDE DEF x
  <1>11. Writes(r, o)
    <2>1. Guarded(r)' /\ Booked(r)'
      BY <1>1, <1>2, <1>3, <1>8, <1>9, <1>10, StaysOut DEF OInv, Guarded, Receiving
    <2> QED BY <1>1, <1>3, <1>9, <1>10, <2>1
            DEF OInv, Typed, ReqsOK, Attended, Writes, Elsewhere, Busy
  <1>12. Undisturbed(r, o)
    BY <1>1, <1>2, Alone DEF Undisturbed
  <1>13. Consistent(o)
    BY <1>2, <1>3, <1>8, <1>9, StillEmpty DEF OInv, CompletionTimed, Consistent, z
  <1> QED BY <1>11, <1>12, <1>13, WriteKeeps

\* At the end of the loop the units are the rows of the goods receipt, which were
\* written from the delivery before it.
LEMMA UnitsAreRows ==
  ASSUME OInv, NEW r \in Request, job[r].step = "finish", NEW p \in Product
  PROVE  ReceiptRows(job[r].lines)[p] = job[r].units[p]
  <1> DEFINE d == job[r].lines
             u == job[r].units
             m == CHOOSE n \in Meaningful(d) : d[n].product = p
  <1>1. d \in Delivery /\ Booked(r) /\ job[r].left = {}
    BY DEF OInv, Guarded, BookInv, Booked, Receiving
  <1>2. Taken(r) = Meaningful(d)
    BY <1>1 DEF Taken
  <1>3. /\ \A n \in Meaningful(d) :
              u[d[n].product] = [sound |-> d[n].sound, damaged |-> d[n].damaged]
        /\ u[p] # NoUnits => \E n \in Meaningful(d) : d[n].product = p
    BY <1>1, <1>2 DEF Booked, Receiving
  <1>4. CASE \E n \in Meaningful(d) : d[n].product = p
    <2>1. m \in Meaningful(d) /\ d[m].product = p
      BY <1>4
    <2>2. ReceiptRows(d)[p] = [sound |-> d[m].sound, damaged |-> d[m].damaged]
      BY <1>4 DEF ReceiptRows
    <2> HIDE DEF m
    <2> QED BY <1>3, <2>1, <2>2
  <1>5. CASE ~ \E n \in Meaningful(d) : d[n].product = p
    BY <1>3, <1>5 DEF ReceiptRows
  <1> QED BY <1>4, <1>5

\* A commit adds as much to the lines as to the receipts.
LEMMA CommitKeeps ==
  ASSUME OInv, OnlyReceipts, NEW r \in Request, Commit(r)
  PROVE  OInv'
  <1>1. PICK o \in Order : o = job[r].id /\ job[r].step = "finish"
    BY DEF Commit, OInv, Attended
  <1>2. /\ req[r].op = "receive"
        /\ orders[o].status \in {"APPROVED", "PARTIALLY_RECEIVED", "COMPLETED"}
    BY <1>1 DEF OInv, Guarded, Receiving
  <1> DEFINE u == job[r].units
             z == orders[o]
             status == IF job[r].complete THEN "COMPLETED" ELSE "PARTIALLY_RECEIVED"
             sound == [p \in Product |-> z.sound[p] + u[p].sound]
             damaged == [p \in Product |-> z.damaged[p] + u[p].damaged]
             new == ReceiptRows(job[r].lines)
             arrived == [p \in Product |-> [sound |-> receipts[o][p].sound + new[p].sound,
                                            damaged |-> receipts[o][p].damaged + new[p].damaged]]
             x == [NoJob EXCEPT !.step = "log", !.id = o]
             y == [z EXCEPT !.status = status, !.completed = job[r].complete,
                            !.sound = sound, !.damaged = damaged]
  <1>3. /\ UNCHANGED req
        /\ orders' = [orders EXCEPT ![o] = y] /\ job' = [job EXCEPT ![r] = x]
        /\ receipts' = [receipts EXCEPT ![o] = arrived]
    BY <1>1 DEF Commit, OInv, Typed
  <1>0. \A p \in Product : new[p] = u[p]
    BY <1>1, UnitsAreRows
  <1> HIDE DEF new
  <1>4. z \in OrderRow /\ u \in [Product -> Units] /\ job[r].complete \in BOOLEAN
    BY DEF OInv, Typed, JobType
  <1>5. sound \in Count /\ damaged \in Count
    BY <1>4 DEF OrderRow, Count, Units
  <1>6. receipts[o] \in [Product -> Units]
    BY DEF OInv, Typed
  <1>7. arrived \in [Product -> Units]
    BY <1>0, <1>4, <1>6 DEF Units
  <1>8. \A p \in Product :
            /\ sound[p] = OpeningOrders[o].sound[p] + arrived[p].sound
            /\ damaged[p] = OpeningOrders[o].damaged[p] + arrived[p].damaged
    <2>1. \A p \in Product :
              /\ z.sound[p] = OpeningOrders[o].sound[p] + receipts[o][p].sound
              /\ z.damaged[p] = OpeningOrders[o].damaged[p] + receipts[o][p].damaged
      BY DEF OInv, ReceiptsMatchLines
    <2>2. \A p \in Product : /\ OpeningOrders[o].sound[p] \in Nat
                             /\ OpeningOrders[o].damaged[p] \in Nat
      BY OrdersAssumption DEF OrderRow, Count
    <2>3. \A p \in Product : /\ receipts[o][p].sound \in Nat /\ receipts[o][p].damaged \in Nat
                             /\ u[p].sound \in Nat /\ u[p].damaged \in Nat
      BY <1>4, <1>6 DEF Units
    <2>4. \A p \in Product : /\ sound[p] = z.sound[p] + u[p].sound
                             /\ damaged[p] = z.damaged[p] + u[p].damaged
                             /\ arrived[p].sound = receipts[o][p].sound + u[p].sound
                             /\ arrived[p].damaged = receipts[o][p].damaged + u[p].damaged
      BY <1>0
    <2> HIDE DEF sound, damaged, arrived, z, u
    <2>5. ASSUME NEW p \in Product
          PROVE  /\ sound[p] = OpeningOrders[o].sound[p] + arrived[p].sound
                 /\ damaged[p] = OpeningOrders[o].damaged[p] + arrived[p].damaged
      <3>1. \A a, b, c \in Nat : (a + b) + c = a + (b + c)
        OBVIOUS
      <3>2. sound[p] = (OpeningOrders[o].sound[p] + receipts[o][p].sound) + u[p].sound
        BY <2>1, <2>4
      <3>3. damaged[p] = (OpeningOrders[o].damaged[p] + receipts[o][p].damaged) + u[p].damaged
        BY <2>1, <2>4
      <3> QED BY <2>2, <2>3, <2>4, <3>1, <3>2, <3>3
    <2> QED BY <2>5
  <1>9. /\ status \in {"PARTIALLY_RECEIVED", "COMPLETED"}
        /\ job[r].complete <=> status = "COMPLETED"
    OBVIOUS
  <1>10. x \in JobType /\ x.step = "log" /\ x.id = o
    BY NoJobType DEF JobType
  <1> HIDE DEF x, z, u, sound, damaged, arrived, status
  <1>11. /\ y \in OrderRow /\ y.status = status /\ y.completed = job[r].complete
         /\ y.sound = sound /\ y.damaged = damaged
    BY <1>4, <1>5, <1>9 DEF OrderRow, Status
  <1> HIDE DEF y
  <1>12. /\ orders' \in [Order -> OrderRow] /\ orders'[o] = y
         /\ receipts' \in [Order -> [Product -> Units]] /\ receipts'[o] = arrived
         /\ job' \in [Request -> JobType] /\ job'[r] = x
         /\ \A v \in Order : v # o => orders'[v] = orders[v] /\ receipts'[v] = receipts[v]
    BY <1>3, <1>7, <1>10, <1>11 DEF OInv, Typed
  <1>13. Writes(r, o)
    <2>1. ReqsOK' /\ Elsewhere(r)
      BY <1>3 DEF OInv, Typed, ReqsOK, Elsewhere
    <2>2. /\ Busy(r)' /\ req'[r].doc = o
          /\ \A s \in Request : s # r /\ Busy(s) /\ req[s].doc = o =>
                {req'[r].op, req[s].op} \subseteq DocRacing
      BY <1>1, <1>3 DEF OInv, Attended, Busy
    <2>3. Guarded(r)' /\ Booked(r)'
      <3>1. job'[r].step = "log" /\ \A p \in Product : job'[r].units[p] = NoUnits
        BY <1>10, <1>12 DEF x, NoJob
      <3> QED BY <3>1, OutOfLoop DEF Guarded, Receiving
    <2> QED BY <1>10, <1>12, <2>1, <2>2, <2>3 DEF Writes
  <1>14. Undisturbed(r, o)
    <2>1. SUFFICES ASSUME NEW s \in Request, s # r, job[s].step # "none", job[s].id = o
                   PROVE  job[s].step \notin {"decide", "checked", "replace", "reply"}
      BY <1>9, <1>11, <1>12 DEF Undisturbed
    <2>2. req[s].op = "receive"
      BY <1>1, <2>1 DEF OInv, Attended, OnlyReceipts
    <2> QED BY <2>2 DEF OInv, Guarded, Decision
  <1>15. Consistent(o)
    BY <1>8, <1>9, <1>11, <1>12 DEF Consistent
  <1> QED BY <1>13, <1>14, <1>15, WriteKeeps

\* The opening orders are orders that earlier requests can have left.
LEMMA InitHolds == Init => OInv
  <1> SUFFICES ASSUME Init PROVE OInv
    OBVIOUS
  <1>1. /\ orders = OpeningOrders /\ orders \in [Order -> OrderRow]
        /\ \A o \in Order : Possible(orders[o])
    BY OrdersAssumption DEF Init
  <1>2. /\ req = [r \in Request |-> NewRequest] /\ job = [r \in Request |-> NoJob]
        /\ receipts = [o \in Order |-> [p \in Product |-> NoUnits]]
    BY DEF Init, StockInit
  <1>3. Shaped(NewRequest) /\ NewRequest.status = "new"
    BY DEF Shaped, NewRequest, Op
  <1>4. receipts \in [Order -> [Product -> Units]]
    BY <1>2 DEF NoUnits, Units
  <1>5. Typed
    BY <1>1, <1>2, <1>3, <1>4, NoJobType DEF Typed, ReqsOK
  <1>6. \A r \in Request : job[r].step = "none" /\ req[r].status = "new"
    BY <1>2, <1>3, NoJobType
  <1>7. Attended /\ \A r \in Request : Guarded(r)
    BY <1>6 DEF Attended, Busy, Guarded, Receiving
  <1>10. BookInv
    BY <1>2, <1>6 DEF NoJob, BookInv, Booked, Receiving
  <1>8. Unreceived /\ CompletionTimed
    BY <1>1 DEF Unreceived, CompletionTimed, Possible
  <1>9. ReceiptsMatchLines
    <2>1. \A o \in Order, p \in Product :
             /\ receipts[o][p].sound = 0 /\ receipts[o][p].damaged = 0
             /\ orders[o].sound[p] \in Nat /\ orders[o].damaged[p] \in Nat
      BY <1>1, <1>2 DEF NoUnits, OrderRow, Count
    <2> QED BY <1>1, <2>1 DEF ReceiptsMatchLines
  <1> QED BY <1>5, <1>7, <1>8, <1>9, <1>10 DEF OInv

\* One case for every action of Next.
LEMMA NextKeeps ==
  ASSUME OInv, OnlyReceipts, [Next]_vars
  PROVE  OInv'
  <1>1. CASE UNCHANGED vars
    BY <1>1, IdleKeeps DEF vars
  <1>2. ASSUME NEW r \in Request, Create(r) \/ Load(r) \/ LoadUpdate(r) \/ LoadReceive(r)
        PROVE  OInv'
    BY <1>2, CreateKeeps, LoadKeeps, LoadUpdateKeeps, LoadReceiveKeeps
  <1>3. ASSUME NEW r \in Request, Decide(r) \/ DeleteLines(r) \/ Replace(r) \/ Commit(r)
        PROVE  OInv'
    BY <1>3, DecideKeeps, DeleteLinesKeeps, ReplaceKeeps, CommitKeeps
  <1>4. ASSUME NEW r \in Request, Recheck(r) \/ Increment(r) \/ Tally(r) \/ Log(r)
        PROVE  OInv'
    BY <1>4, RecheckKeeps, IncrementKeeps, TallyKeeps, LogKeeps
  <1>5. ASSUME NEW r \in Request, Reject(r)
        PROVE  OInv'
    BY <1>5, GoneKeeps DEF Reject
  <1>6. ASSUME NEW r \in Request, OverReceipt(r)
        PROVE  OInv'
    BY <1>6, GoneKeeps DEF OverReceipt
  <1>7. ASSUME NEW r \in Request, Reply(r) \/ Notify(r)
        PROVE  OInv'
    BY <1>7, GoneKeeps DEF Reply, Notify
  <1>8. ASSUME NEW r \in Request, Fail(r)
        PROVE  OInv'
    BY <1>8, GoneKeeps DEF Fail, Abort
  <1>9. ASSUME NEW r \in Request, PostLine(r)
        PROVE  OInv'
    BY <1>9, IdleKeeps DEF PostLine, ReadItem, WriteItem
  <1> QED BY <1>1, <1>2, <1>3, <1>4, <1>5, <1>6, <1>7, <1>8, <1>9 DEF Next, Serve, Quiet

(***************************************************************************)
(* OInv is an inductive invariant of the order handlers, while nothing but *)
(* receipts overlap on one order: the status that a handler checked at its *)
(* load (loadInScope, then the switch on the status) is still there when   *)
(* it writes, or has become another one that takes deliveries.             *)
(***************************************************************************)
THEOREM OrdersInductive ==
  ASSUME OnlyReceipts
  PROVE  Spec => []OInv
  <1>1. OInv /\ [Next]_vars => OInv'
    BY NextKeeps
  <1> QED BY <1>1, InitHolds, PTL DEF Spec

(***************************************************************************)
(* A receipt is atomic (purchase-orders.service.ts:306-309): however       *)
(* receipts of one order overlap, are refused half-way or fail, the units  *)
(* on its lines are those of its receipts.  The rows of a receipt come from *)
(* the delivery, the units from the loop of increments; that the loop has  *)
(* taken every line with units exactly once when it is tallied (BookInv)   *)
(* is what makes them agree (UnitsAreRows).                                *)
(***************************************************************************)
THEOREM LinesAreReceipts ==
  ASSUME OnlyReceipts
  PROVE  Spec => []ReceiptsMatchLines
  <1>1. OInv => ReceiptsMatchLines
    BY DEF OInv
  <1> QED BY <1>1, OrdersInductive, PTL

(***************************************************************************)
(* completedAt is set exactly while the order is completed: the last       *)
(* receipt and the close-out set it together with the status, however      *)
(* receipts of the order overlap.                                          *)
(***************************************************************************)
THEOREM CompletionHasTime ==
  ASSUME OnlyReceipts
  PROVE  Spec => []CompletionTimed
  <1>1. OInv => CompletionTimed
    BY DEF OInv
  <1> QED BY <1>1, OrdersInductive, PTL

-----------------------------------------------------------------------------
\* The stock side: types, range, and who has a transaction open.
StockInv ==
    /\ StockTypeOK /\ RangeInv
    /\ \A r \in Request : tx[r].open <=> job[r].step \in Receiving

\* A step that writes no table of the stock and opens or ends no transaction.
LEMMA QuietStock ==
  ASSUME OInv', StockInv, UNCHANGED <<rows, ledger, alerts, tx>>,
         NEW r \in Request, \A s \in Request : s # r => job'[s] = job[s],
         job'[r].step \in Receiving <=> job[r].step \in Receiving
  PROVE  StockInv'
  <1>1. /\ DOMAIN req' = Request
        /\ \A s \in Request : req'[s].status \in {"new", "busy", "ok", "refused", "failed"}
    BY DEF OInv, Typed, ReqsOK, Shaped
  <1>2. (StockTypeOK /\ RangeInv)'
    BY <1>1 DEF StockInv, StockTypeOK, RangeInv, StockInRange
  <1> QED BY <1>2 DEF StockInv

\* A step of r that gives its transaction another record and leaves the tables.
LEMMA TxStep ==
  ASSUME OInv', StockInv, UNCHANGED <<rows, ledger, alerts>>,
         NEW r \in Request, NEW u \in TxType, tx' = [tx EXCEPT ![r] = u],
         \A i \in u.held : Fits(u.after[i]),
         \A s \in Request : s # r => job'[s] = job[s],
         u.open <=> job'[r].step \in Receiving
  PROVE  StockInv'
  <1>1. /\ DOMAIN req' = Request
        /\ \A s \in Request : req'[s].status \in {"new", "busy", "ok", "refused", "failed"}
    BY DEF OInv, Typed, ReqsOK, Shaped
  <1>2. /\ tx \in [Request -> TxType] /\ tx'[r] = u
        /\ \A s \in Request : s # r => tx'[s] = tx[s]
    BY DEF StockInv, StockTypeOK
  <1>3. (StockTypeOK /\ RangeInv)'
    BY <1>1, <1>2 DEF StockInv, StockTypeOK, RangeInv, StockInRange
  <1> QED BY <1>2, <1>3 DEF StockInv

\* A request that starts was idle.
LEMMA StartsStock ==
  ASSUME OInv, OInv', StockInv, NEW r \in Request, Create(r) \/ Load(r) \/ LoadUpdate(r)
  PROVE  StockInv'
  <1>1. req[r].status = "new" /\ UNCHANGED <<rows, ledger, alerts, tx>>
    BY DEF Create, Load, LoadUpdate, Start, MayStart
  <1>2. /\ \A s \in Request : s # r => job'[s] = job[s]
        /\ job'[r].step \in {"log", "decide", "checked"}
    <2>1. job \in [Request -> JobType]
      BY DEF OInv, Typed
    <2>2. CASE Create(r)
      BY ZenonT(60), <2>1, <2>2 DEF Create, JobType
    <2>3. CASE Load(r)
      BY <2>1, <2>3 DEF Load, JobType
    <2>4. CASE LoadUpdate(r)
      <3>1. PICK o \in Order, b \in Basket :
              job' = [job EXCEPT ![r].step = "checked", ![r].id = o, ![r].lines = b]
        BY <2>4 DEF LoadUpdate
      <3> QED BY <2>1, <3>1 DEF JobType
    <2> QED BY <2>2, <2>3, <2>4
  <1>3. job[r].step = "none"
    BY <1>1 DEF OInv, Attended, Busy
  <1> QED BY <1>1, <1>2, <1>3, QuietStock DEF Receiving

\* The statements outside a transaction stay outside, and those of the loop of
\* receive that touch no stock stay inside.
LEMMA GoesOnStock ==
  ASSUME OInv, OInv', StockInv, NEW r \in Request,
         \/ Decide(r) \/ DeleteLines(r) \/ Replace(r) \/ Reject(r)
         \/ Recheck(r) \/ Tally(r) \/ Reply(r) \/ Log(r) \/ Notify(r)
  PROVE  StockInv'
  <1>1. job \in [Request -> JobType] /\ NoJob.step = "none"
    BY NoJobType DEF OInv, Typed
  <1>2. ASSUME Decide(r) \/ DeleteLines(r) \/ Replace(r) PROVE StockInv'
    <2>1. /\ UNCHANGED <<rows, ledger, alerts, tx>>
          /\ \A s \in Request : s # r => job'[s] = job[s]
          /\ job[r].step \notin Receiving /\ job'[r].step \notin Receiving
      BY ZenonT(60), <1>1, <1>2 DEF Decide, DeleteLines, Replace, JobType, Receiving
    <2> QED BY <2>1, QuietStock
  <1>3. ASSUME Recheck(r) \/ Tally(r) PROVE StockInv'
    <2>1. CASE Recheck(r)
      <3>1. PICK n \in DOMAIN job[r].lines :
              /\ job[r].step = "receive" /\ UNCHANGED <<rows, ledger, alerts, tx>>
              /\ job' = [job EXCEPT ![r].step = "increment", ![r].at = n,
                                    ![r].left = @ \ {n}]
        BY <2>1 DEF Recheck, AtLine
      <3>2. /\ \A s \in Request : s # r => job'[s] = job[s]
            /\ job'[r].step = "increment"
        BY <1>1, <3>1 DEF JobType
      <3> QED BY <3>1, <3>2, QuietStock DEF Receiving
    <2>2. CASE Tally(r)
      <3>1. /\ job[r].step = "receive" /\ UNCHANGED <<rows, ledger, alerts, tx>>
            /\ job' = [job EXCEPT ![r].step = "finish",
                                  ![r].complete = FullyAccounted(r, job[r].id)]
        BY <2>2 DEF Tally
      <3>2. /\ \A s \in Request : s # r => job'[s] = job[s]
            /\ job'[r].step = "finish"
        BY <1>1, <3>1 DEF JobType
      <3> QED BY <3>1, <3>2, QuietStock DEF Receiving
    <2> QED BY <1>3, <2>1, <2>2
  <1>4. ASSUME Reply(r) \/ Log(r) \/ Notify(r) PROVE StockInv'
    <2>1. /\ UNCHANGED <<rows, ledger, alerts, tx>>
          /\ \A s \in Request : s # r => job'[s] = job[s]
          /\ job[r].step \notin Receiving /\ job'[r].step \notin Receiving
      BY <1>1, <1>4 DEF Reply, Log, Notify, JobType, Receiving
    <2> QED BY <2>1, QuietStock
  <1>5. ASSUME Reject(r) PROVE StockInv'
    BY <1>5, QuietStock DEF Reject
  <1> QED BY <1>2, <1>3, <1>4, <1>5

\* The transaction of a receipt opens with nothing to post yet.
LEMMA LoadReceiveStock ==
  ASSUME OInv, OInv', StockInv, NEW r \in Request, LoadReceive(r)
  PROVE  StockInv'
  <1>1. /\ tx' = [tx EXCEPT ![r] = Pending(<<>>)] /\ UNCHANGED <<rows, ledger, alerts>>
        /\ \A s \in Request : s # r => job'[s] = job[s]
        /\ job'[r].step = "receive"
    BY DEF LoadReceive, OInv, Typed, JobType
  <1>2. <<>> \in Seq(Move)
    OBVIOUS
  <1>3. Pending(<<>>) \in TxType /\ Pending(<<>>).open /\ Pending(<<>>).held = {}
    BY <1>2, PendingType DEF Pending, NoTx
  <1> QED BY <1>1, <1>3, TxStep DEF Receiving

\* A line of a delivery posts one well-typed movement.
LEMMA IncrementStock ==
  ASSUME OInv, OInv', StockInv, NEW r \in Request, Increment(r)
  PROVE  StockInv'
  <1> DEFINE l == Current(r)
             w == orders[job[r].id].warehouse
             delta == [Zero EXCEPT !["available"] = l.sound, !["damaged"] = l.damaged]
             move == [item |-> <<l.product, w>>, delta |-> delta]
             u == [tx[r] EXCEPT !.todo = <<move>>]
  <1>1. job[r].step = "increment" /\ UNCHANGED <<rows, ledger, alerts>>
    BY DEF Increment
  <1>2. l.product \in Product /\ l.sound \in Nat /\ l.damaged \in Nat
    BY <1>1, DeliveryFacts DEF OInv, Guarded, Receiving, Current
  <1>3. w \in Warehouse
    BY <1>1 DEF OInv, Attended, Typed, OrderRow
  <1>4. delta \in Delta
    BY <1>2 DEF Zero, Delta, Bucket
  <1>5. tx \in [Request -> TxType] /\ tx[r].open
    BY <1>1 DEF StockInv, StockTypeOK, Receiving
  <1>6. tx' = [tx EXCEPT ![r] = u]
    BY <1>5 DEF Increment
  <1> HIDE DEF delta, w, l
  <1>7. move \in Move
    BY <1>2, <1>3, <1>4 DEF Move, Item
  <1> HIDE DEF move
  <1>8. <<move>> \in Seq(Move)
    BY <1>7
  <1>9. u \in TxType /\ u.open /\ u.held = tx[r].held /\ u.after = tx[r].after
    BY <1>5, <1>8 DEF TxType
  <1> HIDE DEF u
  <1>10. /\ \A s \in Request : s # r => job'[s] = job[s]
         /\ job'[r].step = "receive"
    BY DEF Increment, OInv, Typed, JobType
  <1> QED BY <1>1, <1>6, <1>9, <1>10, TxStep DEF Receiving, StockInv, RangeInv

\* The statements of applyMovement go on in the transaction.
LEMMA PostLineStock ==
  ASSUME StockInv, NEW r \in Request, PostLine(r)
  PROVE  StockInv'
  <1>1. (StockTypeOK /\ RangeInv)'
    BY ReadItemSafe, WriteItemSafe DEF PostLine, StockInv
  <1>2. \A s \in Request : tx'[s].open = tx[s].open
    <2>1. tx \in [Request -> TxType]
      BY DEF StockInv, StockTypeOK
    <2>2. CASE ReadItem(r)
      BY <2>1, <2>2 DEF ReadItem, Loaded, TxType
    <2>3. CASE WriteItem(r)
      <3> DEFINE u == Written(tx[r], Target(r), Result(r))
      <3>1. u.open = tx[r].open
        BY <2>1 DEF Written, TxType
      <3>2. tx' = [tx EXCEPT ![r] = u]
        BY <2>3 DEF WriteItem
      <3> HIDE DEF u
      <3> QED BY <2>1, <3>1, <3>2
    <2> QED BY <2>2, <2>3 DEF PostLine
  <1> QED BY <1>1, <1>2 DEF StockInv, PostLine

\* The commit ends the transaction.
LEMMA CommitStock ==
  ASSUME OInv, StockInv, NEW r \in Request, Commit(r)
  PROVE  StockInv'
  <1>1. (StockTypeOK /\ RangeInv)'
    BY InstallSafe DEF Commit, StockInv
  <1>2. /\ tx' = [tx EXCEPT ![r] = NoTx] /\ tx \in [Request -> TxType]
        /\ \A s \in Request : s # r => job'[s] = job[s]
        /\ job'[r].step = "log"
    BY DEF Commit, Install, StockInv, StockTypeOK, OInv, Typed, NoJob
  <1>3. ~NoTx.open
    BY DEF NoTx
  <1> QED BY <1>1, <1>2, <1>3 DEF StockInv, Receiving

\* So do a refusal and a failure.
LEMMA GoneStock ==
  ASSUME OInv, OInv', StockInv, NEW r \in Request, OverReceipt(r) \/ Fail(r)
  PROVE  StockInv'
  <1>1. /\ tx' = [tx EXCEPT ![r] = NoTx] /\ UNCHANGED <<rows, ledger, alerts>>
        /\ \A s \in Request : s # r => job'[s] = job[s]
        /\ job'[r].step = "none"
    BY NoJobType DEF OverReceipt, Fail, Abort, OInv, Typed
  <1>2. NoTx \in TxType /\ ~NoTx.open /\ NoTx.held = {}
    BY NoTxType DEF NoTx
  <1> QED BY <1>1, <1>2, TxStep DEF Receiving

\* Every step keeps the stock well typed and in range.
LEMMA NextStock ==
  ASSUME OInv, OInv', StockInv, [Next]_vars
  PROVE  StockInv'
  <1>1. CASE UNCHANGED vars
    BY <1>1 DEF vars, StockInv, StockTypeOK, RangeInv, StockInRange
  <1>2. ASSUME NEW r \in Request, Create(r) \/ Load(r) \/ LoadUpdate(r)
        PROVE  StockInv'
    BY <1>2, StartsStock
  <1>3. ASSUME NEW r \in Request,
               \/ Decide(r) \/ DeleteLines(r) \/ Replace(r) \/ Reject(r)
               \/ Recheck(r) \/ Tally(r) \/ Reply(r) \/ Log(r) \/ Notify(r)
        PROVE  StockInv'
    BY <1>3, GoesOnStock
  <1>4. ASSUME NEW r \in Request, LoadReceive(r) \/ Increment(r) \/ PostLine(r) \/ Commit(r)
        PROVE  StockInv'
    BY <1>4, LoadReceiveStock, IncrementStock, PostLineStock, CommitStock
  <1>5. ASSUME NEW r \in Request, OverReceipt(r) \/ Fail(r)
        PROVE  StockInv'
    BY <1>5, GoneStock
  <1> QED BY <1>1, <1>2, <1>3, <1>4, <1>5 DEF Next, Serve, Quiet

\* The opening stock is in range, and no transaction is open.
LEMMA InitStock == Init => StockInv
  <1>1. NoJob.step \notin Receiving /\ ~NoTx.open
    BY NoJobType DEF Receiving, NoTx
  <1> QED BY <1>1, InitType DEF Init, StockInit, StockInv

(***************************************************************************)
(* Types hold in every state: tables and handlers keep theirs, and a       *)
(* transaction is open exactly while the receipt it belongs to is at work. *)
(***************************************************************************)
THEOREM TypeCorrect ==
  ASSUME OnlyReceipts
  PROVE  Spec => []TypeOK
  <1>1. OInv /\ [Next]_vars => OInv'
    BY NextKeeps
  <1>2. OInv /\ OInv' /\ StockInv /\ [Next]_vars => StockInv'
    BY NextStock
  <1>3. OInv /\ StockInv => TypeOK
    BY DEF OInv, Typed, Attended, JobType, Receiving, StockInv, TypeOK
  <1> QED BY <1>1, <1>2, <1>3, InitHolds, InitStock, PTL DEF Spec

(***************************************************************************)
(* Receipts fail closed too (inventory.service.ts:88): whatever overlaps   *)
(* with them, no bucket leaves the range of its column.                    *)
(***************************************************************************)
THEOREM StockStaysInRange ==
  ASSUME OnlyReceipts
  PROVE  Spec => []StockInRange
  <1>1. OInv /\ [Next]_vars => OInv'
    BY NextKeeps
  <1>2. OInv /\ OInv' /\ StockInv /\ [Next]_vars => StockInv'
    BY NextStock
  <1>3. StockInv => StockInRange
    BY DEF StockInv, RangeInv
  <1> QED BY <1>1, <1>2, <1>3, InitHolds, InitStock, PTL DEF Spec

-----------------------------------------------------------------------------
\* From here on nothing overlaps on an order.
Serial == DocRacing = {}

Room(r) ==
    \A p \in Product :
        Accounted(job[r].id, p) + job[r].units[p].sound + job[r].units[p].damaged
            <= orders[job[r].id].quantity[p]

\* What a receipt under way has put on the lines, and still may put there, fits.
Counted(r) ==
    /\ job[r].step \notin Receiving => \A p \in Product : job[r].units[p] = NoUnits
    /\ job[r].step \in Receiving => orders[job[r].id].status \in Expected("receive") /\ Room(r)
    /\ job[r].step \in {"receive", "increment"} =>
          \A n \in job[r].left :
             n \in DOMAIN job[r].lines /\ job[r].units[job[r].lines[n].product] = NoUnits
    /\ job[r].step = "increment" =>
          /\ WithinCap(job[r].id, Current(r))
          /\ job[r].at \notin job[r].left /\ job[r].units[Current(r).product] = NoUnits
    /\ job[r].step = "finish" => (job[r].complete <=> FullyAccounted(r, job[r].id))

SInv ==
    /\ OInv /\ \A r \in Request : Counted(r)
    /\ NoOverReceipt /\ PartialMeansOutstanding

\* Two handlers under way are on two orders.
LEMMA SoleHandler ==
  ASSUME OInv, Serial, NEW r \in Request, NEW s \in Request, s # r,
         job[r].step # "none", job[s].step # "none"
  PROVE  job[s].id # job[r].id
  BY DEF OInv, Attended, Serial

\* A handler that stands still on an unchanged order counts what it counted.
LEMMA SameUnits ==
  ASSUME NEW r \in Request, Counted(r), UNCHANGED orders, job'[r] = job[r]
  PROVE  Counted(r)'
  BY DEF Counted, Room, Accounted, WithinCap, Current, FullyAccounted

\* A step that leaves the orders alone.
LEMMA QuietStep ==
  ASSUME SInv, OInv', NEW r \in Request, UNCHANGED orders,
         \A s \in Request : s # r => job'[s] = job[s], Counted(r)'
  PROVE  SInv'
  <1>1. \A s \in Request : Counted(s)'
    BY SameUnits DEF SInv
  <1>2. (NoOverReceipt /\ PartialMeansOutstanding)'
    BY DEF SInv, NoOverReceipt, PartialMeansOutstanding, Accounted
  <1> QED BY <1>1, <1>2 DEF SInv

\* A step of r that writes the order o, which is r's.
LEMMA WritingStep ==
  ASSUME SInv, OInv', NEW r \in Request, NEW o \in Order,
         \A u \in Order : u # o => orders'[u] = orders[u],
         \A s \in Request : s # r => job'[s] = job[s],
         \A s \in Request : s # r /\ job[s].step # "none" => job[s].id # o,
         Counted(r)',
         \A p \in Product : Accounted(o, p)' <= orders'[o].quantity[p],
         orders'[o].status = "PARTIALLY_RECEIVED" =>
            \E p \in Product : Accounted(o, p)' < orders'[o].quantity[p]
  PROVE  SInv'
  <1>1. ASSUME NEW s \in Request
        PROVE  Counted(s)'
    <2>1. CASE s = r
      BY <2>1
    <2>2. CASE s # r /\ job[s].step = "none"
      <3>1. job'[s] = job[s] /\ Counted(s)
        BY <2>2 DEF SInv
      <3> QED BY <2>2, <3>1 DEF Counted, Receiving
    <2>3. CASE s # r /\ job[s].step # "none"
      <3>1. job[s].id \in Order /\ job[s].id # o
        BY <2>3 DEF SInv, OInv, Attended
      <3>2. job'[s] = job[s] /\ Counted(s) /\ orders'[job[s].id] = orders[job[s].id]
        BY <2>3, <3>1 DEF SInv
      <3> QED BY ZenonT(60), <3>2 DEF Counted, Room, Accounted, WithinCap, Current, FullyAccounted
    <2> QED BY <2>1, <2>2, <2>3
  <1>2. NoOverReceipt'
    BY DEF SInv, NoOverReceipt, Accounted
  <1>3. PartialMeansOutstanding'
    BY DEF SInv, PartialMeansOutstanding, Accounted
  <1> QED BY <1>1, <1>2, <1>3 DEF SInv

\* A handler that has nothing to do counts nothing.
LEMMA IdleCounts ==
  ASSUME NEW r \in Request, job'[r] = NoJob
  PROVE  Counted(r)'
  <1>1. NoJob.step = "none" /\ \A p \in Product : NoJob.units[p] = NoUnits
    BY DEF NoJob
  <1> QED BY <1>1 DEF Counted, Receiving

\* A step that is no step of a receipt keeps the units of r.
LEMMA UnitsKept ==
  ASSUME NEW r \in Request, Counted(r), job[r].step \notin Receiving,
         job'[r].step \notin Receiving, job'[r].units = job[r].units
  PROVE  Counted(r)'
  BY DEF Counted, Receiving

\* Handlers that are no receipt count nothing.
LEMMA LoadCounts ==
  ASSUME SInv, OInv', NEW r \in Request, Load(r) \/ LoadUpdate(r) \/ DeleteLines(r)
  PROVE  SInv'
  <1>1. /\ UNCHANGED orders /\ \A s \in Request : s # r => job'[s] = job[s]
        /\ job'[r].step \in {"decide", "checked", "replace"} /\ job'[r].units = job[r].units
    <2>1. job \in [Request -> JobType]
      BY DEF SInv, OInv, Typed
    <2>2. CASE Load(r)
      <3>1. PICK o \in Order :
              job' = [job EXCEPT ![r].step = "decide", ![r].id = o] /\ UNCHANGED orders
        BY <2>2 DEF Load
      <3> DEFINE x == [job[r] EXCEPT !.step = "decide", !.id = o]
      <3>2. x.step = "decide" /\ x.units = job[r].units
        BY <2>1 DEF JobType
      <3>3. job' = [job EXCEPT ![r] = x]
        BY <2>1, <3>1
      <3> HIDE DEF x
      <3> QED BY <2>1, <3>1, <3>2, <3>3
    <2>3. CASE LoadUpdate(r)
      <3>1. PICK o \in Order, b \in Basket :
              /\ job' = [job EXCEPT ![r].step = "checked", ![r].id = o, ![r].lines = b]
              /\ UNCHANGED orders
        BY <2>3 DEF LoadUpdate
      <3> DEFINE x == [job[r] EXCEPT !.step = "checked", !.id = o, !.lines = b]
      <3>2. x.step = "checked" /\ x.units = job[r].units
        BY <2>1 DEF JobType
      <3>3. job' = [job EXCEPT ![r] = x]
        BY <2>1, <3>1
      <3> HIDE DEF x
      <3> QED BY <2>1, <3>1, <3>2, <3>3
    <2>4. CASE DeleteLines(r)
      BY <2>1, <2>4 DEF JobType, DeleteLines
    <2> QED BY <2>2, <2>3, <2>4
  <1>2. req[r].status = "new" \/ job[r].step = "checked"
    BY DEF Load, LoadUpdate, DeleteLines, Start, MayStart
  <1>3. job[r].step \notin Receiving
    BY <1>2 DEF SInv, OInv, Attended, Busy, Receiving
  <1>4. Counted(r)'
    BY <1>1, <1>3, UnitsKept DEF SInv, Receiving
  <1> QED BY <1>1, <1>4, QuietStep

\* At its start a receipt has put nothing on the lines yet.
LEMMA LoadReceiveCounts ==
  ASSUME SInv, OInv', NEW r \in Request, LoadReceive(r)
  PROVE  SInv'
  <1>1. PICK o \in Order, d \in Delivery :
          /\ Allowed(r, "receive", o) /\ req[r].status = "new"
          /\ job' = [job EXCEPT ![r].step = "receive", ![r].id = o,
                                ![r].lines = d, ![r].left = Meaningful(d)]
          /\ UNCHANGED orders
    BY DEF LoadReceive, Start, MayStart
  <1>2. /\ job'[r].step = "receive" /\ job'[r].id = o /\ job'[r].lines = d
        /\ job'[r].left = Meaningful(d) /\ job'[r].units = job[r].units
        /\ \A s \in Request : s # r => job'[s] = job[s]
    BY <1>1 DEF SInv, OInv, Typed, JobType
  <1>3. \A p \in Product : job[r].units[p] = NoUnits
    BY <1>1 DEF SInv, OInv, Attended, Busy, Counted, Receiving
  <1>4. \A p \in Product : Accounted(o, p) \in Nat /\ Accounted(o, p) <= orders[o].quantity[p]
    BY DEF SInv, OInv, Typed, OrderRow, Count, NoOverReceipt, Accounted
  <1>5. Room(r)'
    BY <1>1, <1>2, <1>3, <1>4 DEF Room, Accounted, NoUnits
  <1>6. \A n \in Meaningful(d) : n \in DOMAIN d /\ d[n].product \in Product
    BY DeliveryFacts DEF Meaningful
  <1>7. Counted(r)'
    BY ZenonT(60), <1>1, <1>2, <1>3, <1>5, <1>6 DEF Counted, Allowed, Receiving
  <1> QED BY <1>1, <1>2, <1>7, QuietStep

\* The line of the turn fits, and leaves the lines that are left.
LEMMA RecheckCounts ==
  ASSUME SInv, OInv', NEW r \in Request, Recheck(r)
  PROVE  SInv'
  <1>1. PICK n \in DOMAIN job[r].lines :
          /\ AtLine(r, n) /\ WithinCap(job[r].id, job[r].lines[n])
          /\ job' = [job EXCEPT ![r].step = "increment", ![r].at = n, ![r].left = @ \ {n}]
          /\ UNCHANGED orders
    BY DEF Recheck
  <1>2. /\ job'[r].step = "increment" /\ job'[r].id = job[r].id /\ job'[r].lines = job[r].lines
        /\ job'[r].at = n /\ job'[r].left = job[r].left \ {n} /\ job'[r].units = job[r].units
        /\ \A s \in Request : s # r => job'[s] = job[s]
    BY <1>1 DEF SInv, OInv, Typed, JobType
  <1>3. job[r].step = "receive" /\ n \in job[r].left /\ Counted(r)
    BY <1>1 DEF SInv, AtLine
  <1>4. WithinCap(job[r].id, Current(r))'
    BY <1>1, <1>2 DEF WithinCap, Current, Accounted
  <1>5. Room(r)'
    BY <1>1, <1>2, <1>3 DEF Counted, Room, Accounted, Receiving
  <1>6. /\ orders'[job'[r].id].status \in Expected("receive")
        /\ \A m \in job'[r].left :
              m \in DOMAIN job'[r].lines /\ job'[r].units[job'[r].lines[m].product] = NoUnits
        /\ job'[r].units[Current(r)'.product] = NoUnits /\ job'[r].at \notin job'[r].left
    <2>1. /\ orders[job[r].id].status \in Expected("receive")
          /\ \A m \in job[r].left :
                m \in DOMAIN job[r].lines /\ job[r].units[job[r].lines[m].product] = NoUnits
      BY <1>3 DEF Counted, Receiving
    <2>2. Current(r)' = job[r].lines[n]
      BY <1>2 DEF Current
    <2> QED BY <1>1, <1>2, <1>3, <2>1, <2>2
  <1>7. Counted(r)'
    BY <1>2, <1>4, <1>5, <1>6 DEF Counted, Current, Receiving
  <1> QED BY <1>1, <1>2, <1>7, QuietStep

\* Completeness is decided on the lines that the commit will write.
LEMMA TallyCounts ==
  ASSUME SInv, OInv', NEW r \in Request, Tally(r)
  PROVE  SInv'
  <1>1. /\ job[r].step = "receive" /\ UNCHANGED orders
        /\ job'[r].step = "finish" /\ job'[r].id = job[r].id
        /\ job'[r].complete = FullyAccounted(r, job[r].id) /\ job'[r].units = job[r].units
        /\ \A s \in Request : s # r => job'[s] = job[s]
    BY DEF SInv, OInv, Typed, JobType, Tally
  <1>2. FullyAccounted(r, job[r].id)' <=> FullyAccounted(r, job[r].id)
    BY <1>1 DEF FullyAccounted, Accounted
  <1>3. Room(r)'
    BY <1>1 DEF SInv, Counted, Room, Accounted, Receiving
  <1>4. Counted(r)'
    BY <1>1, <1>2, <1>3 DEF SInv, Counted, Receiving
  <1> QED BY <1>1, <1>4, QuietStep


\* The line that is incremented fits, and the lines left are other products.
LEMMA IncrementCounts ==
  ASSUME SInv, OInv', NEW r \in Request, Increment(r)
  PROVE  SInv'
  <1> DEFINE l == Current(r)
             v == [sound |-> l.sound, damaged |-> l.damaged]
             x == [job[r] EXCEPT !.step = "receive", !.units[l.product] = v]
  <1>1. /\ job[r].step = "increment" /\ UNCHANGED orders
        /\ job' = [job EXCEPT ![r] = x]
    BY DEF Increment
  <1>2. job[r] \in JobType /\ job[r].lines \in Delivery /\ job[r].at \in DOMAIN job[r].lines
    BY <1>1 DEF SInv, OInv, Typed, Guarded, Receiving
  <1>3. l.product \in Product /\ l.sound \in Nat /\ l.damaged \in Nat
    BY <1>2, DeliveryFacts DEF Current
  <1>4. \A n \in job[r].left :
           /\ n \in DOMAIN job[r].lines /\ job[r].lines[n].product # l.product
           /\ job[r].units[job[r].lines[n].product] = NoUnits
    BY ZenonT(60), <1>1, <1>2, DeliveryFacts DEF SInv, Counted, NoDuplicates, Current
  <1>5. /\ Room(r) /\ WithinCap(job[r].id, l)
        /\ orders[job[r].id].status \in Expected("receive")
    BY <1>1 DEF SInv, Counted, Receiving
  <1> HIDE DEF l
  <1>6. v.sound = l.sound /\ v.damaged = l.damaged
    OBVIOUS
  <1> HIDE DEF v
  <1>7. /\ x.step = "receive" /\ x.id = job[r].id /\ x.lines = job[r].lines
        /\ x.left = job[r].left /\ x.units = [job[r].units EXCEPT ![l.product] = v]
    BY <1>2 DEF JobType
  <1> HIDE DEF x
  <1>8. job'[r] = x /\ \A s \in Request : s # r => job'[s] = job[s]
    BY <1>1 DEF SInv, OInv, Typed
  <1>9. /\ x.units[l.product] = v
        /\ \A p \in Product : p # l.product => x.units[p] = job[r].units[p]
    BY <1>2, <1>3, <1>7 DEF JobType
  <1>10. Room(r)'
    <2>1. ASSUME NEW p \in Product
          PROVE  Accounted(job[r].id, p) + x.units[p].sound + x.units[p].damaged
                    <= orders[job[r].id].quantity[p]
      <3>1. CASE p = l.product
        BY <1>5, <1>6, <1>9, <3>1 DEF WithinCap
      <3>2. CASE p # l.product
        BY <1>5, <1>9, <3>2 DEF Room
      <3> QED BY <3>1, <3>2
    <2> QED BY <1>1, <1>7, <1>8, <2>1 DEF Room, Accounted
  <1>11. \A n \in job'[r].left :
            n \in DOMAIN job'[r].lines /\ job'[r].units[job'[r].lines[n].product] = NoUnits
    <2>1. \A n \in job[r].left : job[r].lines[n].product \in Product
      BY <1>2, <1>4, DeliveryFacts
    <2>2. \A n \in job[r].left : x.units[job[r].lines[n].product] = NoUnits
      BY <1>4, <1>9, <2>1
    <2> QED BY <1>4, <1>7, <1>8, <2>2
  <1>12. Counted(r)'
    BY <1>1, <1>5, <1>7, <1>8, <1>10, <1>11 DEF Counted, Receiving
  <1> QED BY <1>1, <1>8, <1>12, QuietStep

\* A handler that answers counts nothing any more.
LEMMA GoneCounts ==
  ASSUME SInv, OInv', NEW r \in Request, job' = [job EXCEPT ![r] = NoJob], UNCHANGED orders
  PROVE  SInv'
  <1>1. job'[r] = NoJob /\ \A s \in Request : s # r => job'[s] = job[s]
    BY DEF SInv, OInv, Typed
  <1> QED BY <1>1, IdleCounts, QuietStep

\* A handler past its commit counts nothing.
LEMMA LogCounts ==
  ASSUME SInv, OInv', NEW r \in Request, Log(r)
  PROVE  SInv'
  <1>1. CASE req[r].op = "send"
    <2>1. /\ UNCHANGED orders /\ \A s \in Request : s # r => job'[s] = job[s]
          /\ job'[r].step = "notify" /\ job'[r].units = job[r].units /\ job[r].step = "log"
      BY <1>1 DEF SInv, OInv, Typed, JobType, Log
    <2>2. Counted(r)'
      BY <2>1, UnitsKept DEF SInv, Receiving
    <2> QED BY <2>1, <2>2, QuietStep
  <1>2. CASE req[r].op # "send"
    BY <1>2, GoneCounts DEF Log
  <1> QED BY <1>1, <1>2

\* A step that leaves orders and handlers alone.
LEMMA StillCounts ==
  ASSUME SInv, OInv', UNCHANGED <<orders, job>>
  PROVE  SInv'
  <1>1. \A s \in Request : Counted(s)'
    BY SameUnits DEF SInv
  <1>2. (NoOverReceipt /\ PartialMeansOutstanding)'
    BY DEF SInv, NoOverReceipt, PartialMeansOutstanding, Accounted
  <1> QED BY <1>1, <1>2 DEF SInv

\* A new order has no received units.
LEMMA CreateCounts ==
  ASSUME SInv, OInv', Serial, NEW r \in Request, Create(r)
  PROVE  SInv'
  <1>1. PICK o \in Order, w \in Warehouse, b \in Basket :
          /\ Start(r, "create", o, {})
          /\ orders' = [orders EXCEPT ![o] =
                          [status |-> "DRAFT", warehouse |-> w, quantity |-> Stored(b),
                           sound |-> None, damaged |-> None,
                           completed |-> FALSE, rev |-> 0]]
          /\ job' = [job EXCEPT ![r].step = "log", ![r].id = o]
    BY DEF Create
  <1> DEFINE x == [job[r] EXCEPT !.step = "log", !.id = o]
  <1>2. job \in [Request -> JobType] /\ orders \in [Order -> OrderRow]
    BY DEF SInv, OInv, Typed
  <1>3. x.step = "log" /\ x.units = job[r].units
    BY <1>2 DEF JobType
  <1>4. job'[r] = x /\ \A s \in Request : s # r => job'[s] = job[s]
    BY <1>1, <1>2
  <1> HIDE DEF x
  <1>5. /\ req[r].status = "new"
        /\ \A s \in Request : Busy(s) /\ req[s].doc = o =>
              {"create", req[s].op} \subseteq DocRacing
    BY <1>1 DEF Start, MayStart
  <1>6. \A s \in Request : s # r /\ job[s].step # "none" => job[s].id # o
    BY <1>5 DEF SInv, OInv, Attended, Serial
  <1>7. job[r].step = "none"
    BY <1>5 DEF SInv, OInv, Attended, Busy
  <1>8. Counted(r)'
    BY <1>3, <1>4, <1>7, UnitsKept DEF SInv, Receiving
  <1>9. /\ orders'[o].status = "DRAFT" /\ orders'[o].quantity = Stored(b)
        /\ orders'[o].sound = None /\ orders'[o].damaged = None
        /\ \A u \in Order : u # o => orders'[u] = orders[u]
    BY <1>1, <1>2
  <1>10. \A p \in Product : Accounted(o, p)' <= orders'[o].quantity[p]
    BY <1>9, NoneType, StoredType DEF Accounted, Count
  <1> QED BY <1>4, <1>6, <1>8, <1>9, <1>10, WritingStep

\* No decision makes an order partially received.
LEMMA DecideCounts ==
  ASSUME SInv, OInv', Serial, NEW r \in Request, Decide(r)
  PROVE  SInv'
  <1>1. PICK o \in Order : o = job[r].id /\ job[r].step = "decide"
    BY DEF Decide, SInv, OInv, Attended
  <1>2. PICK op \in DOMAIN Decision : op = req[r].op
    BY <1>1 DEF SInv, OInv, Guarded
  <1> DEFINE x == [job[r] EXCEPT !.step = "log"]
             y == [orders[o] EXCEPT !.status = Decision[op],
                                    !.completed = @ \/ op = "close"]
  <1>3. job \in [Request -> JobType] /\ orders \in [Order -> OrderRow]
    BY DEF SInv, OInv, Typed
  <1>4. orders' = [orders EXCEPT ![o] = y] /\ job' = [job EXCEPT ![r] = x]
    BY <1>1, <1>2, <1>3 DEF Decide
  <1>5. x.step = "log" /\ x.units = job[r].units
    BY <1>3 DEF JobType
  <1>6. /\ y.status = Decision[op] /\ y.quantity = orders[o].quantity
        /\ y.sound = orders[o].sound /\ y.damaged = orders[o].damaged
    BY <1>3 DEF OrderRow
  <1> HIDE DEF x, y
  <1>7. /\ job'[r] = x /\ \A s \in Request : s # r => job'[s] = job[s]
        /\ orders'[o] = y /\ \A u \in Order : u # o => orders'[u] = orders[u]
    BY <1>3, <1>4
  <1>8. Counted(r)'
    BY <1>1, <1>5, <1>7, UnitsKept DEF SInv, Receiving
  <1>9. \A s \in Request : s # r /\ job[s].step # "none" => job[s].id # o
    BY <1>1, SoleHandler DEF SInv
  <1>10. \A p \in Product : Accounted(o, p)' <= orders'[o].quantity[p]
    BY <1>6, <1>7 DEF SInv, NoOverReceipt, Accounted
  <1>11. orders'[o].status # "PARTIALLY_RECEIVED"
    BY <1>6, <1>7 DEF Decision
  <1> QED BY <1>7, <1>8, <1>9, <1>10, <1>11, WritingStep


\* The new lines of a draft have no received units.
LEMMA ReplaceCounts ==
  ASSUME SInv, OInv', Serial, NEW r \in Request, Replace(r)
  PROVE  SInv'
  <1>1. PICK o \in Order : o = job[r].id /\ job[r].step = "replace"
    BY DEF Replace, SInv, OInv, Attended
  <1>2. PICK b \in Basket : b = job[r].lines /\ orders[o].status = "DRAFT"
    BY <1>1 DEF SInv, OInv, Guarded
  <1> DEFINE Keep(old, new) ==
               [p \in Product |-> IF p \in Remaining(r) THEN old[p] ELSE new[p]]
             z == orders[o]
             q == Keep(z.quantity, Stored(b))
             e == Keep(z.sound, None)
             f == Keep(z.damaged, None)
             y == [z EXCEPT !.quantity = q, !.sound = e, !.damaged = f, !.rev = @ + 1]
             x == [job[r] EXCEPT !.step = "reply"]
  <1>3. /\ orders \in [Order -> OrderRow] /\ job \in [Request -> JobType]
        /\ orders' = [orders EXCEPT ![o] = y] /\ job' = [job EXCEPT ![r] = x]
    BY ZenonT(60), <1>1, <1>2 DEF Replace, SInv, OInv, Typed
  <1>4. z \in OrderRow /\ z.sound = None /\ z.damaged = None
    BY <1>2, <1>3 DEF SInv, OInv, Unreceived
  <1>5. e = None /\ f = None
    BY <1>4, NoneType DEF None
  <1>6. q \in Count
    BY <1>4, StoredType DEF OrderRow, Count
  <1>7. z.status = "DRAFT"
    BY <1>2
  <1> HIDE DEF q, e, f, Keep, z
  <1>8. y.status = "DRAFT" /\ y.sound = None /\ y.damaged = None /\ y.quantity = q
    BY <1>4, <1>5, <1>7 DEF OrderRow
  <1> HIDE DEF y
  <1>0. x.step = "reply" /\ x.units = job[r].units
    BY <1>3 DEF JobType
  <1> HIDE DEF x
  <1>9. /\ job'[r] = x /\ \A s \in Request : s # r => job'[s] = job[s]
        /\ orders'[o] = y /\ \A u \in Order : u # o => orders'[u] = orders[u]
    BY <1>3
  <1>10. Counted(r)'
    BY <1>1, <1>0, <1>9, UnitsKept DEF SInv, Receiving
  <1>11. \A s \in Request : s # r /\ job[s].step # "none" => job[s].id # o
    BY <1>1, SoleHandler DEF SInv
  <1>12. \A p \in Product : Accounted(o, p)' <= orders'[o].quantity[p]
    BY <1>6, <1>8, <1>9, NoneType DEF Accounted, Count
  <1> QED BY <1>8, <1>9, <1>10, <1>11, <1>12, WritingStep

\* What is committed fits, and is partial only with units outstanding.
LEMMA CommitCounts ==
  ASSUME SInv, OInv', Serial, NEW r \in Request, Commit(r)
  PROVE  SInv'
  <1>1. PICK o \in Order : o = job[r].id /\ job[r].step = "finish"
    BY DEF Commit, SInv, OInv, Attended
  <1> DEFINE u == job[r].units
             z == orders[o]
             status == IF job[r].complete THEN "COMPLETED" ELSE "PARTIALLY_RECEIVED"
             sound == [p \in Product |-> z.sound[p] + u[p].sound]
             damaged == [p \in Product |-> z.damaged[p] + u[p].damaged]
             x == [NoJob EXCEPT !.step = "log", !.id = o]
             y == [z EXCEPT !.status = status, !.completed = job[r].complete,
                            !.sound = sound, !.damaged = damaged]
  <1>2. /\ orders \in [Order -> OrderRow] /\ job \in [Request -> JobType]
        /\ orders' = [orders EXCEPT ![o] = y] /\ job' = [job EXCEPT ![r] = x]
    <2>1. orders \in [Order -> OrderRow] /\ job \in [Request -> JobType]
      BY DEF SInv, OInv, Typed
    <2>2. job' = [job EXCEPT ![r] = x]
      BY <1>1, <2>1 DEF Commit
    <2>3. orders' = [orders EXCEPT ![o] = y]
      BY <1>1, <2>1 DEF Commit
    <2> QED BY <2>1, <2>2, <2>3
  <1>3. z \in OrderRow /\ u \in [Product -> Units]
    BY <1>2 DEF JobType
  <1>4. \A p \in Product :
           /\ z.sound[p] \in Nat /\ z.damaged[p] \in Nat /\ z.quantity[p] \in Nat
           /\ u[p].sound \in Nat /\ u[p].damaged \in Nat
    BY <1>3 DEF OrderRow, Count, Units
  <1>5. \A p \in Product :
           (z.sound[p] + z.damaged[p]) + u[p].sound + u[p].damaged <= z.quantity[p]
    BY <1>1 DEF SInv, Counted, Room, Accounted, Receiving
  <1>6. ~job[r].complete => \E p \in Product :
           ~((z.sound[p] + z.damaged[p]) + u[p].sound + u[p].damaged >= z.quantity[p])
    BY <1>1 DEF SInv, Counted, FullyAccounted, Accounted
  <1>7. status = "PARTIALLY_RECEIVED" => ~job[r].complete
    OBVIOUS
  <1>8. \A p \in Product : /\ sound[p] = z.sound[p] + u[p].sound
                           /\ damaged[p] = z.damaged[p] + u[p].damaged
    OBVIOUS
  <1>9. x.step = "log" /\ \A p \in Product : x.units[p] = NoUnits
    BY DEF NoJob
  <1> HIDE DEF x, z, u, sound, damaged, status
  <1>10. /\ y.status = status /\ y.sound = sound /\ y.damaged = damaged
         /\ y.quantity = z.quantity
    BY <1>3 DEF OrderRow
  <1> HIDE DEF y
  <1>11. /\ job'[r] = x /\ \A s \in Request : s # r => job'[s] = job[s]
         /\ orders'[o] = y /\ \A v \in Order : v # o => orders'[v] = orders[v]
    BY <1>2
  <1>12. Counted(r)'
    BY <1>9, <1>11 DEF Counted, Receiving
  <1>13. \A s \in Request : s # r /\ job[s].step # "none" => job[s].id # o
    BY <1>1, SoleHandler DEF SInv
  <1>14. \A p \in Product :
            /\ Accounted(o, p)' = (z.sound[p] + u[p].sound) + (z.damaged[p] + u[p].damaged)
            /\ orders'[o].quantity[p] = z.quantity[p]
    BY <1>8, <1>10, <1>11 DEF Accounted
  <1>15. \A p \in Product : Accounted(o, p)' <= orders'[o].quantity[p]
    <2>1. ASSUME NEW p \in Product
          PROVE  (z.sound[p] + u[p].sound) + (z.damaged[p] + u[p].damaged) <= z.quantity[p]
      <3>1. \A a, b, c, d, m \in Nat : (a + b) + c + d <= m => (a + c) + (b + d) <= m
        OBVIOUS
      <3> QED BY <1>4, <1>5, <3>1
    <2> QED BY <1>14, <2>1
  <1>16. orders'[o].status = "PARTIALLY_RECEIVED" =>
            \E p \in Product : Accounted(o, p)' < orders'[o].quantity[p]
    <2>1. SUFFICES ASSUME ~job[r].complete
                   PROVE  \E p \in Product : Accounted(o, p)' < orders'[o].quantity[p]
      BY <1>7, <1>10, <1>11
    <2>2. PICK p \in Product :
             ~((z.sound[p] + z.damaged[p]) + u[p].sound + u[p].damaged >= z.quantity[p])
      BY <1>6, <2>1
    <2>3. Accounted(o, p)' < orders'[o].quantity[p]
      BY <1>4, <1>14, <2>2
    <2> QED BY <2>3
  <1> QED BY <1>11, <1>12, <1>13, <1>15, <1>16, WritingStep

\* No opening order is over-received, or partial without units outstanding.
LEMMA SerialInit == Init => SInv
  <1> SUFFICES ASSUME Init PROVE SInv
    OBVIOUS
  <1>1. orders = OpeningOrders /\ \A o \in Order : Possible(orders[o])
    BY OrdersAssumption DEF Init
  <1>2. \A r \in Request : Counted(r)
    <2>1. NoJob.step = "none" /\ \A p \in Product : NoJob.units[p] = NoUnits
      BY DEF NoJob
    <2> QED BY <2>1 DEF Init, Counted, Receiving
  <1>3. NoOverReceipt /\ PartialMeansOutstanding
    BY <1>1 DEF NoOverReceipt, PartialMeansOutstanding, Accounted, Possible
  <1> QED BY <1>2, <1>3, InitHolds DEF SInv

\* One case for every action of Next.
LEMMA SerialNext ==
  ASSUME SInv, Serial, [Next]_vars
  PROVE  SInv'
  <1>1. OInv'
    BY NextKeeps DEF SInv, Serial, OnlyReceipts
  <1>2. CASE UNCHANGED <<orders, job>>
    BY <1>1, <1>2, StillCounts
  <1>3. ASSUME NEW r \in Request, Create(r) \/ Decide(r) \/ Replace(r) \/ Commit(r)
        PROVE  SInv'
    BY <1>1, <1>3, CreateCounts, DecideCounts, ReplaceCounts, CommitCounts
  <1>4. ASSUME NEW r \in Request, Load(r) \/ LoadUpdate(r) \/ DeleteLines(r) \/ LoadReceive(r)
        PROVE  SInv'
    BY <1>1, <1>4, LoadCounts, LoadReceiveCounts
  <1>5. ASSUME NEW r \in Request, Recheck(r) \/ Increment(r) \/ Tally(r) \/ Log(r)
        PROVE  SInv'
    BY <1>1, <1>5, RecheckCounts, IncrementCounts, TallyCounts, LogCounts
  <1>6. ASSUME NEW r \in Request, OverReceipt(r) \/ Reply(r) \/ Notify(r) \/ Fail(r)
        PROVE  SInv'
    BY <1>1, <1>6, GoneCounts DEF OverReceipt, Reply, Notify, Fail
  <1>7. ASSUME NEW r \in Request, Reject(r) \/ PostLine(r)
        PROVE  SInv'
    BY <1>1, <1>7, StillCounts DEF Reject, PostLine
  <1> QED BY <1>2, <1>3, <1>4, <1>5, <1>6, <1>7 DEF Next, Serve, Quiet, vars

\* Only Create, Decide, Replace and Commit write an order.
LEMMA StepIsLegal ==
  ASSUME SInv, [Next]_vars, NEW o \in Order, orders'[o].status # orders[o].status
  PROVE  orders'[o].status \in Successors(orders[o].status)
  <1>1. PICK r \in Request : Create(r) \/ Decide(r) \/ Replace(r) \/ Commit(r)
    <2>1. ASSUME NEW r \in Request,
                 \/ Load(r) \/ LoadUpdate(r) \/ LoadReceive(r) \/ Reject(r) \/ DeleteLines(r)
                 \/ Recheck(r) \/ OverReceipt(r) \/ Increment(r) \/ PostLine(r) \/ Tally(r)
                 \/ Reply(r) \/ Log(r) \/ Notify(r) \/ Fail(r)
          PROVE  UNCHANGED orders
      <3>1. CASE Load(r) BY <3>1 DEF Load
      <3>2. CASE LoadUpdate(r) BY <3>2 DEF LoadUpdate
      <3>3. CASE LoadReceive(r) BY <3>3 DEF LoadReceive
      <3>4. CASE Reject(r) BY <3>4 DEF Reject
      <3>5. CASE DeleteLines(r) BY <3>5 DEF DeleteLines
      <3>6. CASE Recheck(r) BY <3>6 DEF Recheck
      <3>7. CASE OverReceipt(r) BY <3>7 DEF OverReceipt
      <3>8. CASE Increment(r) BY <3>8 DEF Increment
      <3>9. CASE PostLine(r) BY <3>9 DEF PostLine
      <3>10. CASE Tally(r) BY <3>10 DEF Tally
      <3>11. CASE Log(r) BY <3>11 DEF Log
      <3>12. CASE Notify(r) BY <3>12 DEF Notify
      <3>13. CASE Fail(r) BY <3>13 DEF Fail
      <3>14. CASE Reply(r) BY <3>14 DEF Reply
      <3> QED BY <2>1, <3>1, <3>2, <3>3, <3>4, <3>5, <3>6, <3>7,
                 <3>8, <3>9, <3>10, <3>11, <3>12, <3>13, <3>14
    <2>2. UNCHANGED vars => UNCHANGED orders
      BY DEF vars
    <2>3. ~UNCHANGED orders
      OBVIOUS
    <2> QED BY <2>1, <2>2, <2>3 DEF Next, Quiet, Serve
  <1>2. orders \in [Order -> OrderRow] /\ job[r] \in JobType
    BY DEF SInv, OInv, Typed
  <1>3. CASE Create(r)
    <2>1. PICK u \in Order, y \in [status : {"DRAFT"}] :
             /\ orders[u].status = "NONE" /\ orders'[u].status = y.status
             /\ \A v \in Order : v # u => orders'[v] = orders[v]
      <3>1. PICK u \in Order, w \in Warehouse, b \in Basket :
              /\ orders[u].status = "NONE"
              /\ orders' = [orders EXCEPT ![u] =
                              [status |-> "DRAFT", warehouse |-> w, quantity |-> Stored(b),
                               sound |-> None, damaged |-> None,
                               completed |-> FALSE, rev |-> 0]]
        BY <1>3 DEF Create
      <3>2. [status |-> "DRAFT"] \in [status : {"DRAFT"}]
        OBVIOUS
      <3> QED BY <1>2, <3>1, <3>2
    <2> QED BY <2>1 DEF Successors
  <1>4. CASE Decide(r)
    <2>1. PICK u \in Order : u = job[r].id /\ orders[u].status \in Expected(req[r].op)
                             /\ req[r].op \in DOMAIN Decision
      BY <1>4 DEF Decide, SInv, OInv, Attended, Guarded
    <2> DEFINE y == [orders[u] EXCEPT !.status = Decision[req[r].op],
                                      !.completed = @ \/ req[r].op = "close"]
    <2>2. orders' = [orders EXCEPT ![u] = y]
      BY <1>2, <1>4, <2>1 DEF Decide
    <2>3. y.status = Decision[req[r].op]
      BY <1>2 DEF OrderRow
    <2> HIDE DEF y
    <2>4. o = u /\ orders'[o] = y
      BY <1>2, <2>2
    <2> QED BY <2>1, <2>3, <2>4 DEF Successors, Expected, Decision
  <1>5. CASE Replace(r)
    <2>1. PICK u \in Order : u = job[r].id
      BY <1>5 DEF Replace, SInv, OInv, Attended
    <2> DEFINE Keep(old, new) ==
                 [p \in Product |-> IF p \in Remaining(r) THEN old[p] ELSE new[p]]
               q == Keep(orders[u].quantity, Stored(job[r].lines))
               e == Keep(orders[u].sound, None)
               f == Keep(orders[u].damaged, None)
               y == [orders[u] EXCEPT !.quantity = q, !.sound = e, !.damaged = f, !.rev = @ + 1]
    <2>2. orders' = [orders EXCEPT ![u] = y]
      BY <1>2, <1>5, <2>1 DEF Replace
    <2> HIDE DEF q, e, f, Keep
    <2>3. y.status = orders[u].status
      BY <1>2 DEF OrderRow
    <2> HIDE DEF y
    <2> QED BY <1>2, <2>2, <2>3
  <1>6. CASE Commit(r)
    <2>1. PICK u \in Order : u = job[r].id /\ orders[u].status \in Expected("receive")
      BY <1>6 DEF Commit, SInv, OInv, Attended, Counted, Receiving
    <2> DEFINE status == IF job[r].complete THEN "COMPLETED" ELSE "PARTIALLY_RECEIVED"
               a == [p \in Product |-> orders[u].sound[p] + job[r].units[p].sound]
               b == [p \in Product |-> orders[u].damaged[p] + job[r].units[p].damaged]
               y == [orders[u] EXCEPT !.status = status, !.completed = job[r].complete,
                                      !.sound = a, !.damaged = b]
    <2>3. orders' = [orders EXCEPT ![u] = y]
      BY <1>2, <1>6, <2>1 DEF Commit
    <2>4. status \in {"COMPLETED", "PARTIALLY_RECEIVED"}
      OBVIOUS
    <2> HIDE DEF status, a, b
    <2>5. y.status = status
      BY <1>2 DEF OrderRow
    <2> HIDE DEF y
    <2>2. orders'[u].status \in {"COMPLETED", "PARTIALLY_RECEIVED"}
          /\ \A v \in Order : v # u => orders'[v] = orders[v]
      BY <1>2, <2>3, <2>4, <2>5
    <2> QED BY <2>1, <2>2 DEF Successors, Expected
  <1> QED BY <1>1, <1>3, <1>4, <1>5, <1>6

(***************************************************************************)
(* SInv is an inductive invariant while requests on one order come one at  *)
(* a time (those on other orders, also on the same stock, overlap as they  *)
(* like). Counted is why it is inductive: what the loop of receive has put *)
(* on the lines in its transaction is within the cap that the commit is    *)
(* about to use.                                                           *)
(***************************************************************************)
THEOREM SerialInductive ==
  ASSUME Serial
  PROVE  Spec => []SInv
  <1>1. SInv /\ [Next]_vars => SInv'
    BY SerialNext
  <1> QED BY <1>1, SerialInit, PTL DEF Spec

(***************************************************************************)
(* Then the check on every line of receive (purchase-                      *)
(* orders.service.ts:339-342) is enough: over all receipts, no line has    *)
(* more sound and damaged units than were ordered, for any deliveries and  *)
(* any number of lines.                                                    *)
(***************************************************************************)
THEOREM NeverOverReceived ==
  ASSUME Serial
  PROVE  Spec => []NoOverReceipt
  <1>1. SInv => NoOverReceipt
    BY DEF SInv
  <1> QED BY <1>1, SerialInductive, PTL

(***************************************************************************)
(* Then the tally of receive (purchase-orders.service.ts:427-428) is       *)
(* right: an order that is left partially received still has units         *)
(* outstanding.                                                            *)
(***************************************************************************)
THEOREM PartialIsOutstanding ==
  ASSUME Serial
  PROVE  Spec => []PartialMeansOutstanding
  <1>1. SInv => PartialMeansOutstanding
    BY DEF SInv
  <1> QED BY <1>1, SerialInductive, PTL

(***************************************************************************)
(* Then no handler ever takes an order to a status that the lifecycle      *)
(* (schema.prisma:56-57) does not have behind the one it is in.            *)
(***************************************************************************)
THEOREM LifecycleKept ==
  ASSUME Serial
  PROVE  Spec => LegalTransitions
  <1>1. SInv /\ [Next]_vars =>
          [\A o \in Order : orders'[o].status # orders[o].status =>
             orders'[o].status \in Successors(orders[o].status)]_vars
    BY StepIsLegal
  <1> QED BY <1>1, SerialInductive, PTL DEF Spec, LegalTransitions


-----------------------------------------------------------------------------
(***************************************************************************)
(* Receipts of one order overlap again, but no two requests about different *)
(* orders work on one item.  Then the stock gains what the receipts say.    *)
(***************************************************************************)
\* What a handler's units are to the stock of warehouse w.
Arrival(u) == [Zero EXCEPT !["available"] = u.sound, !["damaged"] = u.damaged]

Gain(units, w) == [i \in Item |-> IF i[2] = w THEN Arrival(units[i[1]]) ELSE Zero]

Place(r) == orders[job[r].id].warehouse

\* The items of the lines r has incremented, which it keeps locked.
Locks(r) == {i \in Item : i[2] = Place(r) /\ job[r].units[i[1]] # NoUnits}

\* r takes the lines of its delivery that carry units one by one, each once.
Turn(r) ==
    /\ job[r].step \notin Receiving => \A p \in Product : job[r].units[p] = NoUnits
    /\ job[r].step \in {"receive", "increment"} =>
          \A n \in job[r].left : n \in Meaningful(job[r].lines)
                               /\ job[r].units[job[r].lines[n].product] = NoUnits
    /\ job[r].step = "increment" =>
          /\ job[r].at \in Meaningful(job[r].lines) \ job[r].left
          /\ job[r].units[Current(r).product] = NoUnits
    /\ job[r].step \in {"increment", "finish"} => tx[r].todo = <<>>

\* The stock it named has all items of the delivery.
Named(r) ==
    job[r].step \in Receiving =>
        /\ \A n \in DOMAIN job[r].lines : <<job[r].lines[n].product, Place(r)>> \in req[r].stock
        /\ Locks(r) \subseteq req[r].stock

Carrying(r) ==
    job[r].step \in Receiving => /\ Carries(tx[r], Gain(job[r].units, Place(r)), rows)
                                 /\ Within(tx[r], Locks(r))

\* The lock of an order line has one holder.
OneHolder(r, s) ==
    job[r].id = job[s].id =>
        \A p \in Product : job[r].units[p] = NoUnits \/ job[s].units[p] = NoUnits

Separate(r, s) ==
    Busy(r) /\ Busy(s) /\ req[r].doc # req[s].doc => req[r].stock \cap req[s].stock = {}

GainInv ==
    /\ \A r \in Request : Turn(r) /\ Named(r) /\ Carrying(r)
    /\ \A r, s \in Request : r # s => OneHolder(r, s) /\ Separate(r, s)

\* An order that exists stays in its warehouse.
PlacesKept == \A o \in Order :
    orders[o].status # "NONE" => orders'[o].warehouse = orders[o].warehouse

\* Only a creation places an order.
LEMMA StepKeepsPlaces ==
  ASSUME OInv, [Next]_vars
  PROVE  PlacesKept
  <1>1. orders \in [Order -> OrderRow]
    BY DEF OInv, Typed
  <1>2. ASSUME NEW r \in Request, Create(r) PROVE PlacesKept
    <2>1. PICK o \in Order : /\ orders[o].status = "NONE"
                             /\ \E x : orders' = [orders EXCEPT ![o] = x]
      BY <1>2 DEF Create
    <2> QED BY <1>1, <2>1 DEF PlacesKept
  <1>3. ASSUME NEW r \in Request, Decide(r) PROVE PlacesKept
    <2>1. PICK st, c : orders' = [orders EXCEPT ![job[r].id].status = st,
                                               ![job[r].id].completed = c]
      BY <1>3 DEF Decide
    <2> QED BY <1>1, <2>1 DEF PlacesKept, OrderRow
  <1>4. ASSUME NEW r \in Request, Replace(r) PROVE PlacesKept
    <2>1. PICK q, a, d, v : orders' = [orders EXCEPT ![job[r].id].quantity = q,
                                                    ![job[r].id].sound = a,
                                                    ![job[r].id].damaged = d,
                                                    ![job[r].id].rev = v]
      BY <1>4 DEF Replace
    <2> QED BY <1>1, <2>1 DEF PlacesKept, OrderRow
  <1>5. ASSUME NEW r \in Request, Commit(r) PROVE PlacesKept
    <2>1. PICK st, c, a, d : orders' = [orders EXCEPT ![job[r].id].status = st,
                                                     ![job[r].id].completed = c,
                                                     ![job[r].id].sound = a,
                                                     ![job[r].id].damaged = d]
      BY <1>5 DEF Commit
    <2> QED BY <1>1, <2>1 DEF PlacesKept, OrderRow
  <1>6. ASSUME NEW r \in Request,
               \/ Load(r) \/ LoadUpdate(r) \/ LoadReceive(r) \/ Reject(r) \/ DeleteLines(r)
               \/ Recheck(r) \/ OverReceipt(r) \/ Increment(r) \/ PostLine(r)
               \/ Tally(r) \/ Reply(r) \/ Log(r) \/ Notify(r) \/ Fail(r)
        PROVE PlacesKept
    <2>1. UNCHANGED orders
      BY <1>6 DEF Load, LoadUpdate, LoadReceive, Reject, DeleteLines, Recheck, OverReceipt,
                  Increment, PostLine, Tally, Reply, Log, Notify, Fail
    <2> QED BY <2>1 DEF PlacesKept
  <1>7. CASE UNCHANGED vars
    BY <1>7 DEF vars, PlacesKept
  <1> QED BY <1>2, <1>3, <1>4, <1>5, <1>6, <1>7 DEF Next, Serve, Quiet

\* Two receipts lock different items: of one order, other lines; of two, other stock.
LEMMA LocksApart ==
  ASSUME OInv, GainInv, NEW r \in Request, NEW s \in Request, r # s,
         job[r].step \in Receiving, job[s].step \in Receiving
  PROVE  Locks(r) \cap Locks(s) = {}
  <1>1. /\ Busy(r) /\ Busy(s) /\ req[r].doc = job[r].id /\ req[s].doc = job[s].id
    BY DEF OInv, Attended, Receiving
  <1>2. OneHolder(r, s) /\ Separate(r, s) /\ Named(r) /\ Named(s)
    BY DEF GainInv
  <1>3. CASE job[r].id = job[s].id
    BY <1>2, <1>3 DEF OneHolder, Locks, Item
  <1>4. CASE job[r].id # job[s].id
    BY <1>1, <1>2, <1>4 DEF Separate, Named
  <1> QED BY <1>3, <1>4

\* What a step of r has to show: its own part, and that it writes no row another
\* receipt has locked.
LEMMA GainStep ==
  ASSUME OInv, OInv', StockInv, GainInv, PlacesKept, NEW r \in Request,
         \A s \in Request : s # r => job'[s] = job[s] /\ req'[s] = req[s] /\ tx'[s] = tx[s],
         \/ UNCHANGED rows
         \/ job[r].step \in Receiving /\ \A i \in Item \ Locks(r) : rows'[i] = rows[i],
         Turn(r)', Named(r)', Carrying(r)',
         \A s \in Request : s # r => OneHolder(r, s)' /\ Separate(r, s)'
  PROVE  GainInv'
  <1>1. ASSUME NEW s \in Request, s # r
        PROVE  Turn(s)' /\ Named(s)' /\ Carrying(s)'
    <2>1. /\ job'[s] = job[s] /\ req'[s] = req[s] /\ tx'[s] = tx[s]
          /\ Turn(s) /\ Named(s) /\ Carrying(s)
      BY <1>1 DEF GainInv
    <2>2. Turn(s)'
      BY <2>1 DEF Turn, Current
    <2>3. CASE job[s].step \notin Receiving
      BY <2>1, <2>2, <2>3 DEF Named, Carrying
    <2>4. CASE job[s].step \in Receiving
      <3>1. job[s].id \in Order /\ orders[job[s].id].status # "NONE"
        BY <2>4 DEF OInv, Attended, Guarded, Receiving
      <3>2. Place(s)' = Place(s)
        BY <2>1, <3>1 DEF PlacesKept, Place
      <3>3. Locks(s)' = Locks(s)
        BY <2>1, <3>2 DEF Locks
      <3>4. Named(s)'
        BY <2>1, <3>2, <3>3 DEF Named
      <3>5. \A i \in Item \cap Locks(s) : rows'[i] = rows[i]
        BY <1>1, <2>4, LocksApart
      <3> DEFINE D == Gain(job[s].units, Place(s))
      <3>6. tx[s] \in TxType /\ Carries(tx[s], D, rows) /\ Within(tx[s], Locks(s))
        BY <2>1, <2>4 DEF StockInv, StockTypeOK, Carrying
      <3> HIDE DEF D
      <3>7. Carries(tx[s], D, rows')
        BY <3>5, <3>6, CarriesFrame
      <3>8. Carrying(s)'
        BY <2>1, <3>2, <3>3, <3>6, <3>7 DEF Carrying, D
      <3> QED BY <2>2, <3>4, <3>8
    <2> QED BY <2>3, <2>4
  <1>2. ASSUME NEW s \in Request, NEW u \in Request, s # u
        PROVE  OneHolder(s, u)' /\ Separate(s, u)'
    <2>1. CASE s # r /\ u # r
      BY <1>2, <2>1 DEF GainInv, OneHolder, Separate, Busy
    <2>2. CASE s = r \/ u = r
      BY <1>2, <2>2 DEF OneHolder, Separate
    <2> QED BY <2>1, <2>2
  <1>3. \A s \in Request : Turn(s)' /\ Named(s)' /\ Carrying(s)'
    BY <1>1
  <1> QED BY <1>2, <1>3 DEF GainInv

\* A handler outside a receipt's transaction locks nothing.
LEMMA OutsideGain ==
  ASSUME OInv, OInv', StockInv, GainInv, PlacesKept, NEW r \in Request,
         \A s \in Request : s # r => job'[s] = job[s] /\ req'[s] = req[s] /\ tx'[s] = tx[s],
         \/ UNCHANGED rows
         \/ job[r].step \in Receiving /\ \A i \in Item \ Locks(r) : rows'[i] = rows[i],
         job'[r].step \notin Receiving, \A p \in Product : job'[r].units[p] = NoUnits,
         \A s \in Request : s # r => Separate(r, s)'
  PROVE  GainInv'
  <1>1. Turn(r)' /\ Named(r)' /\ Carrying(r)'
    BY DEF Turn, Named, Carrying, Receiving
  <1>2. \A s \in Request : OneHolder(r, s)'
    BY DEF OneHolder
  <1> QED BY <1>1, <1>2, GainStep

\* A request that starts shares no item with those under way about other orders.
LEMMA StartSeparate ==
  ASSUME Typed, StockRacing = {}, NEW r \in Request, NEW op, NEW o, NEW stock,
         Start(r, op, o, stock)
  PROVE  /\ req'[r].stock = stock
         /\ \A s \in Request : s # r => Separate(r, s)'
  <1>1. req' = [req EXCEPT ![r] = [op |-> op, status |-> "busy", doc |-> o, stock |-> stock]]
    BY DEF Start
  <1>2. \A s \in Request : Busy(s) /\ req[s].doc # o => req[s].stock \cap stock = {}
    <2>1. \A s \in Request : Busy(s) /\ req[s].doc # o =>
            (req[s].stock \cap stock # {} => {op, req[s].op} \subseteq StockRacing)
      BY DEF Start, MayStart
    <2> QED BY <2>1
  <1>3. /\ req'[r].stock = stock /\ req'[r].doc = o
        /\ \A s \in Request : s # r => req'[s] = req[s]
    BY <1>1 DEF Typed, ReqsOK
  <1>4. ASSUME NEW s \in Request, s # r PROVE Separate(r, s)'
    BY <1>2, <1>3, <1>4 DEF Separate, Busy
  <1> QED BY <1>3, <1>4

\* A handler that starts something else than a receipt.
LEMMA StartsGain ==
  ASSUME OInv, OInv', StockInv, GainInv, PlacesKept, StockRacing = {},
         NEW r \in Request, Create(r) \/ Load(r) \/ LoadUpdate(r)
  PROVE  GainInv'
  <1>1. job \in [Request -> JobType] /\ Typed
    BY DEF OInv, Typed
  <1>2. PICK op \in Op, o \in Order : Start(r, op, o, {})
    BY DEF Create, Load, LoadUpdate, Op
  <1>3. /\ req[r].status = "new" /\ \A s \in Request : s # r => req'[s] = req[s]
        /\ \A s \in Request : s # r => Separate(r, s)'
    BY <1>1, <1>2, StartFacts, StartSeparate
  <1>4. \A p \in Product : job[r].units[p] = NoUnits
    BY <1>3 DEF OInv, Attended, Busy, GainInv, Turn, Receiving
  <1>5. /\ UNCHANGED <<rows, tx>> /\ \A s \in Request : s # r => job'[s] = job[s]
        /\ job'[r].step \in {"log", "decide", "checked"} /\ job'[r].units = job[r].units
    <2>1. CASE Create(r)
      <3>1. PICK u : job' = [job EXCEPT ![r].step = "log", ![r].id = u] /\ UNCHANGED <<rows, tx>>
        BY <2>1 DEF Create
      <3> QED BY <1>1, <3>1 DEF JobType
    <2>2. CASE Load(r)
      <3>1. PICK u : job' = [job EXCEPT ![r].step = "decide", ![r].id = u] /\ UNCHANGED <<rows, tx>>
        BY <2>2 DEF Load
      <3> QED BY <1>1, <3>1 DEF JobType
    <2>3. CASE LoadUpdate(r)
      <3>1. PICK u, b : /\ job' = [job EXCEPT ![r].step = "checked", ![r].id = u, ![r].lines = b]
                        /\ UNCHANGED <<rows, tx>>
        BY <2>3 DEF LoadUpdate
      <3> QED BY <1>1, <3>1 DEF JobType
    <2> QED BY <2>1, <2>2, <2>3
  <1> QED BY <1>3, <1>4, <1>5, OutsideGain DEF Receiving

\* A handler that goes on to its next statement, outside any transaction.
LEMMA GoesOnGain ==
  ASSUME OInv, OInv', StockInv, GainInv, PlacesKept, NEW r \in Request,
         \/ Decide(r) \/ DeleteLines(r) \/ Replace(r)
         \/ Log(r) /\ req[r].op = "send"
  PROVE  GainInv'
  <1>1. job \in [Request -> JobType] /\ Typed
    BY DEF OInv, Typed
  <1>2. PICK x \in {"reply", "log", "notify"} :
          /\ \/ job' = [job EXCEPT ![r].step = x]
             \/ job' = [job EXCEPT ![r].step = "replace", ![r].rev = orders[job[r].id].rev]
          /\ job[r].step \in {"decide", "checked", "replace", "log"}
          /\ UNCHANGED <<rows, tx, req>>
    BY DEF Decide, DeleteLines, Replace, Log
  <1>3. /\ \A s \in Request : s # r => job'[s] = job[s]
        /\ job'[r].step \in {"reply", "log", "notify", "replace"} /\ job'[r].units = job[r].units
    BY <1>1, <1>2 DEF JobType
  <1>4. \A p \in Product : job[r].units[p] = NoUnits
    BY <1>2 DEF GainInv, Turn, Receiving
  <1>5. \A s \in Request : s # r => Separate(r, s)'
    BY <1>2 DEF GainInv, Separate, Busy
  <1> QED BY <1>2, <1>3, <1>4, <1>5, OutsideGain DEF Receiving

\* A handler that answers, and what it had locked.
LEMMA EndsGain ==
  ASSUME OInv, OInv', StockInv, GainInv, PlacesKept, NEW r \in Request,
         \/ Reply(r) \/ Reject(r) \/ OverReceipt(r) \/ Notify(r) \/ Fail(r)
         \/ Log(r) /\ req[r].op # "send"
  PROVE  GainInv'
  <1>1. PICK how \in {"ok", "refused", "failed"} : Answer(r, how)
    BY DEF Reply, Reject, OverReceipt, Notify, Fail, Abort, Log
  <1>2. /\ \A s \in Request : s # r => req'[s] = req[s]
        /\ ~Busy(r)'
    BY <1>1, AnswerFacts DEF OInv, Busy
  <1>3. /\ \/ UNCHANGED job /\ req[r].status = "new"
           \/ job' = [job EXCEPT ![r] = NoJob]
        /\ UNCHANGED tx \/ tx' = [tx EXCEPT ![r] = NoTx]
        /\ UNCHANGED rows
    BY DEF Reply, Reject, OverReceipt, Notify, Fail, Abort, Log
  <1>4. \A s \in Request : s # r => job'[s] = job[s] /\ tx'[s] = tx[s]
    BY <1>3 DEF OInv, Typed, StockInv, StockTypeOK
  <1>5. job'[r].step = "none" /\ \A p \in Product : job'[r].units[p] = NoUnits
    <2>1. CASE UNCHANGED job /\ req[r].status = "new"
      BY <2>1 DEF OInv, Attended, Busy, GainInv, Turn, Receiving
    <2>2. CASE job' = [job EXCEPT ![r] = NoJob]
      <3>1. job'[r] = NoJob
        BY <2>2 DEF OInv, Typed
      <3> QED BY <3>1 DEF NoJob
    <2> QED BY <1>3, <2>1, <2>2
  <1>6. \A s \in Request : Separate(r, s)'
    BY <1>2 DEF Separate
  <1> QED BY <1>2, <1>3, <1>4, <1>5, <1>6, OutsideGain DEF Receiving

\* The transaction of a receipt opens with nothing written and no line locked.
LEMMA LoadReceiveGain ==
  ASSUME OInv, OInv', StockInv, GainInv, PlacesKept, StockRacing = {},
         NEW r \in Request, LoadReceive(r)
  PROVE  GainInv'
  <1>1. PICK o \in Order, d \in Delivery :
          /\ Start(r, "receive", o,
                   {<<d[n].product, orders[o].warehouse>> : n \in DOMAIN d})
          /\ job' = [job EXCEPT ![r].step = "receive", ![r].id = o,
                                ![r].lines = d, ![r].left = Meaningful(d)]
          /\ tx' = [tx EXCEPT ![r] = Pending(<<>>)]
          /\ UNCHANGED <<rows, orders>>
    BY DEF LoadReceive
  <1> DEFINE stock == {<<d[n].product, orders[o].warehouse>> : n \in DOMAIN d}
  <1>2. /\ req[r].status = "new" /\ req'[r].stock = stock
        /\ \A s \in Request : s # r => req'[s] = req[s] /\ Separate(r, s)'
    <2>1. Start(r, "receive", o, stock) /\ Typed /\ "receive" \in Op
      BY <1>1 DEF OInv, Op
    <2> HIDE DEF stock
    <2> QED BY <2>1, StartFacts, StartSeparate
  <1>3. /\ job'[r].step = "receive" /\ job'[r].id = o /\ job'[r].lines = d
        /\ job'[r].left = Meaningful(d) /\ job'[r].units = job[r].units
        /\ tx'[r] = Pending(<<>>)
        /\ \A s \in Request : s # r => job'[s] = job[s] /\ tx'[s] = tx[s]
    BY <1>1 DEF OInv, Typed, JobType, StockInv, StockTypeOK
  <1>4. \A p \in Product : job[r].units[p] = NoUnits
    BY <1>2 DEF OInv, Attended, Busy, GainInv, Turn, Receiving
  <1>5. \A n \in Meaningful(d) : n \in DOMAIN d /\ d[n].product \in Product
    BY DeliveryFacts DEF Meaningful
  <1>6. Turn(r)'
    BY <1>3, <1>4, <1>5 DEF Turn, Receiving
  <1>7. Locks(r)' = {}
    BY <1>3, <1>4 DEF Locks, Item
  <1>8. Place(r)' = orders[o].warehouse
    BY <1>1, <1>3 DEF Place
  <1>9. Named(r)'
    BY <1>2, <1>3, <1>7, <1>8 DEF Named
  <1> DEFINE D == Gain(job'[r].units, Place(r)')
  <1>10. \A i \in Item : D[i] = Zero
    <2>1. Arrival(NoUnits) = Zero
      BY DEF Arrival, NoUnits, Zero, Bucket
    <2> QED BY <1>3, <1>4, <2>1 DEF Gain, Item
  <1> HIDE DEF D
  <1>11. DOMAIN <<>> = {}
    OBVIOUS
  <1>12. Carries(Pending(<<>>), D, rows) /\ Within(Pending(<<>>), {})
    BY <1>10, <1>11, CarriesPending
  <1>13. Carrying(r)'
    BY <1>1, <1>3, <1>7, <1>12 DEF Carrying, D
  <1>14. \A s \in Request : OneHolder(r, s)'
    BY <1>3, <1>4 DEF OneHolder
  <1> QED BY <1>1, <1>2, <1>3, <1>6, <1>9, <1>13, <1>14, GainStep

\* The statements of the loop that touch no stock keep what is locked.
LEMMA LoopGain ==
  ASSUME OInv, OInv', StockInv, GainInv, PlacesKept, NEW r \in Request, Recheck(r) \/ Tally(r)
  PROVE  GainInv'
  <1>1. /\ job[r].step = "receive" /\ tx[r].todo = <<>> /\ UNCHANGED <<rows, tx, req, orders>>
        /\ job[r] \in JobType /\ job \in [Request -> JobType]
    BY DEF Recheck, AtLine, Tally, OInv, Typed
  <1>2. /\ job'[r].step \in {"increment", "finish"} /\ job'[r].units = job[r].units
        /\ job'[r].id = job[r].id /\ job'[r].lines = job[r].lines
        /\ \A s \in Request : s # r => job'[s] = job[s]
        /\ job'[r].step = "increment" =>
              \E n \in job[r].left : job'[r].at = n /\ job'[r].left = job[r].left \ {n}
    <2>1. CASE Recheck(r)
      <3>1. PICK n \in DOMAIN job[r].lines :
              /\ n \in job[r].left
              /\ job' = [job EXCEPT ![r].step = "increment", ![r].at = n, ![r].left = @ \ {n}]
        BY <2>1 DEF Recheck, AtLine
      <3> DEFINE x == [job[r] EXCEPT !.step = "increment", !.at = n, !.left = @ \ {n}]
      <3>2. /\ x.step = "increment" /\ x.units = job[r].units /\ x.id = job[r].id
            /\ x.lines = job[r].lines /\ x.at = n /\ x.left = job[r].left \ {n}
        BY <1>1 DEF JobType
      <3>3. job' = [job EXCEPT ![r] = x]
        BY <1>1, <3>1
      <3> HIDE DEF x
      <3> QED BY <1>1, <3>1, <3>2, <3>3
    <2>2. CASE Tally(r)
      BY <1>1, <2>2 DEF Tally, JobType
    <2> QED BY <2>1, <2>2
  <1>3. Place(r)' = Place(r)
    BY <1>1, <1>2 DEF Place
  <1>4. Locks(r)' = Locks(r)
    BY <1>2, <1>3 DEF Locks
  <1>5. Turn(r) /\ Named(r) /\ Carrying(r)
    BY DEF GainInv
  <1>6. Turn(r)'
    <2>1. \A n \in job[r].left : n \in Meaningful(job[r].lines)
                                /\ job[r].units[job[r].lines[n].product] = NoUnits
      BY <1>1, <1>5 DEF Turn
    <2>2. CASE job'[r].step = "increment"
      <3>1. PICK n \in job[r].left : job'[r].at = n /\ job'[r].left = job[r].left \ {n}
        BY <1>2, <2>2
      <3>2. Current(r)' = job[r].lines[n]
        BY <1>2, <3>1 DEF Current
      <3> QED BY <1>1, <1>2, <2>1, <2>2, <3>1, <3>2 DEF Turn, Receiving
    <2>3. CASE job'[r].step = "finish"
      BY <1>1, <2>3 DEF Turn, Receiving
    <2> QED BY <1>2, <2>2, <2>3
  <1>7. Named(r)'
    BY <1>1, <1>2, <1>3, <1>4, <1>5 DEF Named, Receiving
  <1>8. Carrying(r)'
    BY <1>1, <1>2, <1>3, <1>4, <1>5 DEF Carrying, Receiving
  <1>9. \A s \in Request : s # r => OneHolder(r, s)' /\ Separate(r, s)'
    BY <1>1, <1>2 DEF GainInv, OneHolder, Separate, Busy
  <1> QED BY <1>1, <1>2, <1>6, <1>7, <1>8, <1>9, GainStep

\* A transaction that has posted all it had to takes one more movement on.
LEMMA OneMore ==
  ASSUME NEW t \in TxType, t.todo = <<>>, NEW D, NEW E, NEW base, NEW locked,
         Carries(t, D, base), Within(t, locked),
         NEW i \in Item, i \notin locked, \A j \in Item \ {i} : E[j] = D[j],
         NEW u, u = [t EXCEPT !.todo = <<[item |-> i, delta |-> E[i]]>>]
  PROVE  Carries(u, E, base) /\ Within(u, locked \cup {i})
  <1> DEFINE move == [item |-> i, delta |-> E[i]]
  <1>1. /\ u.todo = <<move>> /\ u.held = t.held /\ u.after = t.after /\ u.fresh = t.fresh
    BY DEF TxType
  <1>2. t.held \subseteq Item /\ i \notin t.held /\ ~t.fresh /\ DOMAIN t.todo = {}
    BY DEF TxType, Carries, Within
  <1>3. move.item = i /\ move.delta = E[i]
    OBVIOUS
  <1> HIDE DEF move
  <1>4. DOMAIN u.todo = {1} /\ u.todo[1] = move
    BY <1>1
  <1>5. \A j \in u.held : u.after[j] = Plus(base[j], E[j])
    BY <1>1, <1>2 DEF Carries
  <1>6. \A j \in Item : E[j] = Zero \/ j \in u.held \/ \E n \in DOMAIN u.todo : u.todo[n].item = j
    BY <1>1, <1>2, <1>3, <1>4 DEF Carries
  <1>7. Carries(u, E, base)
    BY <1>1, <1>2, <1>3, <1>4, <1>5, <1>6 DEF Carries
  <1>8. Within(u, locked \cup {i})
    BY <1>1, <1>3, <1>4 DEF Within
  <1> QED BY <1>7, <1>8

\* The increment of a line locks it, and its movement is one to post.
LEMMA IncrementGain ==
  ASSUME OInv, OInv', StockInv, GainInv, PlacesKept, NEW r \in Request, Increment(r)
  PROVE  GainInv'
  <1> DEFINE l == Current(r)
             v == [sound |-> l.sound, damaged |-> l.damaged]
             w == Place(r)
             i == <<l.product, w>>
             units == [job[r].units EXCEPT ![l.product] = v]
  <1>1. /\ job[r].step = "increment" /\ UNCHANGED <<rows, req, orders>>
        /\ ~LineLocked(r, job[r].id, l.product)
    BY DEF Increment
  <1>2. Turn(r) /\ Named(r) /\ Carrying(r)
    BY DEF GainInv
  <1>3. /\ job[r].at \in Meaningful(job[r].lines) \ job[r].left
        /\ job[r].units[l.product] = NoUnits /\ tx[r].todo = <<>>
    BY <1>1, <1>2 DEF Turn
  <1>4. job[r].lines \in Delivery /\ job[r].id \in Order
    BY <1>1 DEF OInv, Attended, Guarded, Receiving
  <1>5. /\ l.product \in Product /\ l.sound \in Nat /\ l.damaged \in Nat
        /\ l.sound + l.damaged > 0
        /\ \A n \in DOMAIN job[r].lines : job[r].lines[n].product \in Product
        /\ \A n \in DOMAIN job[r].lines : job[r].lines[n].product = l.product => n = job[r].at
    BY <1>3, <1>4, DeliveryFacts DEF Current, Meaningful, NoDuplicates
  <1>6. w \in Warehouse /\ i \in Item
    BY <1>4, <1>5 DEF Place, OInv, Typed, OrderRow, Item
  <1>7. v # NoUnits
    BY <1>5 DEF NoUnits
  <1>8. job[r] \in JobType /\ job \in [Request -> JobType]
    BY DEF OInv, Typed
  <1>9. /\ job'[r].step = "receive" /\ job'[r].id = job[r].id
        /\ job'[r].lines = job[r].lines /\ job'[r].left = job[r].left
        /\ job'[r].units = units
        /\ \A s \in Request : s # r => job'[s] = job[s]
    <2> DEFINE x == [job[r] EXCEPT !.step = "receive", !.units[l.product] = v]
    <2>1. /\ x.step = "receive" /\ x.id = job[r].id /\ x.lines = job[r].lines
          /\ x.left = job[r].left /\ x.units = units
      BY <1>8 DEF JobType
    <2>2. job' = [job EXCEPT ![r] = x]
      BY DEF Increment
    <2> HIDE DEF x
    <2> QED BY <1>8, <2>1, <2>2
  <1>10. /\ units[l.product] = v
         /\ \A p \in Product \ {l.product} : units[p] = job[r].units[p]
    BY <1>5, <1>8 DEF JobType
  <1>11. Place(r)' = w
    BY <1>1, <1>9 DEF Place
  <1>12. i \notin Locks(r)
    BY <1>3 DEF Locks
  <1>13. Locks(r)' = Locks(r) \cup {i}
    BY <1>3, <1>5, <1>6, <1>7, <1>9, <1>10, <1>11 DEF Locks, Item
  <1> DEFINE D == Gain(job[r].units, w)
             E == Gain(units, w)
             move == [item |-> i, delta |-> E[i]]
  <1>14. \A j \in Item \ {i} : E[j] = D[j]
    BY <1>10 DEF Gain, Item
  <1>15. E[i] = [Zero EXCEPT !["available"] = l.sound, !["damaged"] = l.damaged]
    <2>1. i[1] = l.product /\ i[2] = w /\ v.sound = l.sound /\ v.damaged = l.damaged
      OBVIOUS
    <2>2. E[i] = Arrival(units[l.product])
      BY <1>6, <2>1 DEF Gain
    <2> QED BY <1>10, <2>1, <2>2 DEF Arrival
  <1>16. tx'[r] = [tx[r] EXCEPT !.todo = <<move>>] /\ \A s \in Request : s # r => tx'[s] = tx[s]
    BY <1>15 DEF Increment, Place, StockInv, StockTypeOK
  <1>17. Carries(tx[r], D, rows) /\ Within(tx[r], Locks(r)) /\ tx[r] \in TxType
    BY <1>1, <1>2 DEF Carrying, Receiving, StockInv, StockTypeOK
  <1>18. Carries(tx'[r], E, rows) /\ Within(tx'[r], Locks(r) \cup {i})
    <2> DEFINE t == tx[r]  u == tx'[r]  locked == Locks(r)
    <2>1. /\ t \in TxType /\ t.todo = <<>> /\ Carries(t, D, rows) /\ Within(t, locked)
          /\ i \in Item /\ i \notin locked /\ \A j \in Item \ {i} : E[j] = D[j]
          /\ u = [t EXCEPT !.todo = <<[item |-> i, delta |-> E[i]]>>]
      BY <1>3, <1>6, <1>12, <1>14, <1>16, <1>17
    <2> HIDE DEF D, E, i, t, u, locked
    <2>2. Carries(u, E, rows) /\ Within(u, locked \cup {i})
      BY <2>1, OneMore
    <2> QED BY <2>2 DEF u, locked
  <1>19. Carrying(r)'
    BY <1>1, <1>9, <1>11, <1>13, <1>18 DEF Carrying
  <1>20. Named(r)'
    <2>1. /\ \A n \in DOMAIN job[r].lines : <<job[r].lines[n].product, w>> \in req[r].stock
          /\ Locks(r) \subseteq req[r].stock
      BY <1>1, <1>2 DEF Named, Receiving
    <2>2. i \in req[r].stock
      BY <1>3, <2>1 DEF Meaningful, Current
    <2> QED BY <1>1, <1>9, <1>11, <1>13, <2>1, <2>2 DEF Named
  <1>21. Turn(r)'
    <2>1. \A n \in job[r].left : n \in Meaningful(job[r].lines)
                                /\ job[r].units[job[r].lines[n].product] = NoUnits
      BY <1>1, <1>2 DEF Turn
    <2>2. \A n \in job[r].left : units[job[r].lines[n].product] = NoUnits
      BY <1>3, <1>5, <1>10, <2>1 DEF Meaningful
    <2> QED BY <1>9, <2>1, <2>2 DEF Turn, Receiving
  <1>22. ASSUME NEW s \in Request, s # r PROVE OneHolder(r, s)' /\ Separate(r, s)'
    <2>1. OneHolder(r, s) /\ Separate(r, s)
      BY <1>22 DEF GainInv
    <2>2. job[s].id = job[r].id => job[s].units[l.product] = NoUnits
      BY <1>1, <1>22 DEF LineLocked
    <2>3. OneHolder(r, s)'
      BY <1>9, <1>10, <1>22, <2>1, <2>2 DEF OneHolder
    <2> QED BY <1>1, <2>1, <2>3 DEF Separate, Busy
  <1> QED BY <1>1, <1>9, <1>16, <1>19, <1>20, <1>21, <1>22, GainStep

\* The statements of applyMovement go on in the transaction.
LEMMA PostLineGain ==
  ASSUME OInv, OInv', StockInv, GainInv, PlacesKept, NEW r \in Request, PostLine(r)
  PROVE  GainInv'
  <1>1. /\ ReadItem(r) \/ WriteItem(r)
        /\ UNCHANGED <<rows, req, orders, job>>
        /\ \A s \in Request : s # r => tx'[s] = tx[s]
    BY DEF PostLine, ReadItem, WriteItem, StockInv, StockTypeOK
  <1>2. tx[r].open /\ tx[r].todo # <<>>
    BY <1>1 DEF ReadItem, WriteItem, Ready
  <1>3. Turn(r) /\ Named(r) /\ Carrying(r)
    BY DEF GainInv
  <1>4. job[r].step = "receive"
    BY <1>2, <1>3 DEF StockInv, Turn, Receiving
  <1>5. Place(r)' = Place(r) /\ Locks(r)' = Locks(r)
    BY <1>1 DEF Place, Locks
  <1> DEFINE D == Gain(job[r].units, Place(r))
  <1>6. Carries(tx[r], D, rows) /\ Within(tx[r], Locks(r))
    BY <1>3, <1>4 DEF Carrying, Receiving
  <1>7. Carries(tx'[r], D, rows) /\ Within(tx'[r], Locks(r))
    <2> HIDE DEF D
    <2> QED BY <1>1, <1>6, CarriesRead, CarriesWrite DEF StockInv
  <1>8. Carrying(r)'
    BY <1>1, <1>5, <1>7 DEF Carrying
  <1>9. Turn(r)' /\ Named(r)'
    BY <1>1, <1>3, <1>4, <1>5 DEF Turn, Named, Receiving
  <1>10. \A s \in Request : s # r => OneHolder(r, s)' /\ Separate(r, s)'
    BY <1>1 DEF GainInv, OneHolder, Separate, Busy
  <1> QED BY <1>1, <1>8, <1>9, <1>10, GainStep

\* The commit adds the units of the receipt to the stock, and to nothing else.
LEMMA CommitAdds ==
  ASSUME StockInv, GainInv, NEW r \in Request, Commit(r)
  PROVE  /\ rows' = [i \in Item |-> Plus(rows[i], Gain(job[r].units, Place(r))[i])]
         /\ \A i \in Item \ Locks(r) : rows'[i] = rows[i]
  <1>1. job[r].step = "finish" /\ Install(r)
    BY DEF Commit
  <1>2. Carries(tx[r], Gain(job[r].units, Place(r)), rows) /\ Within(tx[r], Locks(r))
    BY <1>1 DEF GainInv, Carrying, Receiving
  <1>3. \A i \in Item \ Locks(r) : rows'[i] = rows[i]
    BY <1>1, <1>2 DEF Install, View, Within
  <1>4. rows' = [i \in Item |-> Plus(rows[i], Gain(job[r].units, Place(r))[i])]
    BY <1>1, <1>2, CarriesCommit DEF StockInv
  <1> QED BY <1>3, <1>4

\* The commit of a receipt keeps the account of every other.
LEMMA CommitGain ==
  ASSUME OInv, OInv', StockInv, GainInv, PlacesKept, NEW r \in Request, Commit(r)
  PROVE  GainInv'
  <1>1. /\ job[r].step = "finish" /\ UNCHANGED req
        /\ \E o : job' = [job EXCEPT ![r] = [NoJob EXCEPT !.step = "log", !.id = o]]
        /\ tx' = [tx EXCEPT ![r] = NoTx]
    BY DEF Commit, Install
  <1>2. /\ \A s \in Request : s # r => job'[s] = job[s] /\ req'[s] = req[s] /\ tx'[s] = tx[s]
        /\ job'[r].step = "log" /\ \A p \in Product : job'[r].units[p] = NoUnits
    BY <1>1 DEF OInv, Typed, NoJob, StockInv, StockTypeOK
  <1>3. \A s \in Request : s # r => Separate(r, s)'
    BY <1>1 DEF GainInv, Separate, Busy
  <1>4. job[r].step \in Receiving /\ job'[r].step \notin Receiving
    BY <1>1, <1>2 DEF Receiving
  <1>5. \A i \in Item \ Locks(r) : rows'[i] = rows[i]
    BY CommitAdds
  <1> QED BY <1>2, <1>3, <1>4, <1>5, OutsideGain

\* Every step keeps receipts apart and their transactions whole.
LEMMA NextGain ==
  ASSUME OInv, OInv', StockInv, GainInv, StockRacing = {}, [Next]_vars
  PROVE  GainInv'
  <1>1. PlacesKept
    BY StepKeepsPlaces
  <1>2. CASE UNCHANGED vars
    <2>1. UNCHANGED <<rows, tx, req, orders, job>>
      BY <1>2 DEF vars
    <2>2. ASSUME NEW r \in Request PROVE Turn(r)' /\ Named(r)' /\ Carrying(r)'
      <3>1. Place(r)' = Place(r) /\ Locks(r)' = Locks(r) /\ Turn(r)'
        BY <2>1 DEF Place, Locks, Turn, Current, GainInv
      <3> QED BY <2>1, <3>1 DEF Named, Carrying, GainInv
    <2>3. ASSUME NEW r \in Request, NEW s \in Request, r # s
          PROVE  OneHolder(r, s)' /\ Separate(r, s)'
      BY <2>1, <2>3 DEF GainInv, OneHolder, Separate, Busy
    <2> QED BY <2>2, <2>3 DEF GainInv
  <1>3. ASSUME NEW r \in Request, Create(r) \/ Load(r) \/ LoadUpdate(r) \/ LoadReceive(r)
        PROVE  GainInv'
    BY <1>1, <1>3, StartsGain, LoadReceiveGain
  <1>4. ASSUME NEW r \in Request, \/ Decide(r) \/ DeleteLines(r) \/ Replace(r)
               \/ Recheck(r) \/ Tally(r)
        PROVE  GainInv'
    BY <1>1, <1>4, GoesOnGain, LoopGain
  <1>5. ASSUME NEW r \in Request,
               Reply(r) \/ Reject(r) \/ OverReceipt(r) \/ Notify(r) \/ Fail(r) \/ Log(r)
        PROVE  GainInv'
    BY <1>1, <1>5, EndsGain, GoesOnGain
  <1>6. ASSUME NEW r \in Request, Increment(r) \/ PostLine(r) \/ Commit(r)
        PROVE  GainInv'
    BY <1>1, <1>6, IncrementGain, PostLineGain, CommitGain
  <1> QED BY <1>2, <1>3, <1>4, <1>5, <1>6 DEF Next, Serve, Quiet

\* At the start nothing is under way.
LEMMA InitGain == Init => GainInv
  <1> SUFFICES ASSUME Init PROVE GainInv
    OBVIOUS
  <1>1. \A r \in Request : job[r].step = "none" /\ \A p \in Product : job[r].units[p] = NoUnits
    BY DEF Init, NoJob
  <1>2. \A r \in Request : ~Busy(r)
    BY DEF Init, StockInit, NewRequest, Busy
  <1>3. \A r \in Request : Turn(r) /\ Named(r) /\ Carrying(r)
    BY <1>1 DEF Turn, Named, Carrying, Receiving
  <1>4. \A r, s \in Request : OneHolder(r, s) /\ Separate(r, s)
    BY <1>1, <1>2 DEF OneHolder, Separate
  <1> QED BY <1>3, <1>4 DEF GainInv

-----------------------------------------------------------------------------
\* What each order adds to the units Arrived counts for item i.
Shares(os, rs, i, field) ==
    [o \in Order |-> IF os[o].warehouse = i[2] THEN rs[o][i[1]][field] ELSE 0]

\* Arrived is their sum, here and after a step.
LEMMA ArrivedIsSum ==
  ASSUME NEW i, NEW field
  PROVE  /\ Arrived(i, field) = SumFunctionOnSet(Shares(orders, receipts, i, field), Order)
         /\ Arrived(i, field)' = SumFunctionOnSet(Shares(orders', receipts', i, field), Order)
  BY DEF Arrived, SumFunction, Shares

\* Shares are numbers, and so is their sum.
LEMMA SharesType ==
  ASSUME NEW os, NEW rs \in [Order -> [Product -> Units]], NEW i \in Item,
         NEW field \in {"sound", "damaged"}
  PROVE  /\ \A o \in Order : Shares(os, rs, i, field)[o] \in Nat
         /\ SumFunctionOnSet(Shares(os, rs, i, field), Order) \in Int
  <1> DEFINE v == Shares(os, rs, i, field)
  <1>1. \A o \in Order : v[o] \in Nat
    BY DEF Shares, Units, Item
  <1> HIDE DEF v
  <1>2. SumFunctionOnSet(v, Order) \in Int
    BY <1>1, SumType, OrdersAssumption
  <1> QED BY <1>1, <1>2 DEF v

\* An order that does not exist has no receipts.
LEMMA NothingReceived ==
  ASSUME OInv, NEW o \in Order, orders[o].status = "NONE", NEW p \in Product
  PROVE  receipts[o][p].sound = 0 /\ receipts[o][p].damaged = 0
  <1>1. orders[o].sound[p] = 0 /\ orders[o].damaged[p] = 0
    BY NoneType DEF OInv, Unreceived
  <1>2. /\ OpeningOrders[o].sound[p] \in Nat /\ OpeningOrders[o].damaged[p] \in Nat
        /\ receipts[o][p].sound \in Nat /\ receipts[o][p].damaged \in Nat
    BY OrdersAssumption DEF OInv, Typed, OrderRow, Count, Units
  <1>3. /\ orders[o].sound[p] = OpeningOrders[o].sound[p] + receipts[o][p].sound
        /\ orders[o].damaged[p] = OpeningOrders[o].damaged[p] + receipts[o][p].damaged
    BY DEF OInv, ReceiptsMatchLines
  <1>4. \A m, n \in Nat : 0 = m + n => n = 0
    OBVIOUS
  <1> QED BY <1>1, <1>2, <1>3, <1>4

\* What a step that books no receipt leaves as it was.
LEMMA StillArrived ==
  ASSUME OInv, OInv', [Next]_vars, UNCHANGED <<receipts, rows>>, StockMatchesReceipts
  PROVE  StockMatchesReceipts'
  <1>1. PlacesKept
    BY StepKeepsPlaces
  <1>2. ASSUME NEW i \in Item, NEW field \in {"sound", "damaged"}
        PROVE  Arrived(i, field)' = Arrived(i, field)
    <2> DEFINE v == Shares(orders, receipts, i, field)
               w == Shares(orders', receipts', i, field)
    <2>1. ASSUME NEW o \in Order PROVE v[o] = w[o]
      <3>1. CASE orders[o].status = "NONE"
        BY <1>2, <3>1, NothingReceived DEF Shares, Item
      <3>2. CASE orders[o].status # "NONE"
        BY <1>1, <3>2 DEF PlacesKept, Shares
      <3> QED BY <3>1, <3>2
    <2> HIDE DEF v, w
    <2>2. SumFunctionOnSet(v, Order) = SumFunctionOnSet(w, Order)
      BY <2>1, SumEqual, OrdersAssumption
    <2> QED BY <2>2, ArrivedIsSum DEF v, w
  <1> QED BY <1>2 DEF StockMatchesReceipts

\* The commit of a receipt adds its units to what arrived in its warehouse.
LEMMA CommitArrived ==
  ASSUME OInv, OInv', NEW r \in Request, Commit(r),
         NEW i \in Item, NEW field \in {"sound", "damaged"}
  PROVE  Arrived(i, field)' = Arrived(i, field) +
             (IF Place(r) = i[2] THEN job[r].units[i[1]][field] ELSE 0)
  <1> DEFINE o == job[r].id
             u == job[r].units
             new == ReceiptRows(job[r].lines)
  <1>1. o \in Order /\ u \in [Product -> Units] /\ i[1] \in Product
    BY DEF Commit, OInv, Typed, Attended, JobType, Item
  <1>2. PICK st, c, a, d :
          /\ orders' = [orders EXCEPT ![o].status = st, ![o].completed = c,
                                      ![o].sound = a, ![o].damaged = d]
          /\ receipts' = [receipts EXCEPT
                            ![o] = [p \in Product |->
                                      [sound |-> @[p].sound + new[p].sound,
                                       damaged |-> @[p].damaged + new[p].damaged]]]
    BY DEF Commit
  <1>0. new[i[1]] = u[i[1]]
    BY <1>1, UnitsAreRows DEF Commit
  <1> HIDE DEF new
  <1>3. \A x \in Order : orders'[x].warehouse = orders[x].warehouse
    BY <1>1, <1>2 DEF OInv, Typed, OrderRow
  <1>4. /\ receipts'[o][i[1]][field] = receipts[o][i[1]][field] + u[i[1]][field]
        /\ \A x \in Order \ {o} : receipts'[x] = receipts[x]
    <2>1. receipts \in [Order -> [Product -> Units]]
      BY DEF OInv, Typed
    <2>2. /\ receipts'[o] = [p \in Product |-> [sound |-> receipts[o][p].sound + new[p].sound,
                                               damaged |-> receipts[o][p].damaged + new[p].damaged]]
          /\ \A x \in Order \ {o} : receipts'[x] = receipts[x]
      BY <1>1, <1>2, <2>1
    <2>3. /\ receipts'[o][i[1]].sound = receipts[o][i[1]].sound + u[i[1]].sound
          /\ receipts'[o][i[1]].damaged = receipts[o][i[1]].damaged + u[i[1]].damaged
      <3>1. receipts'[o][i[1]] = [sound |-> receipts[o][i[1]].sound + new[i[1]].sound,
                                  damaged |-> receipts[o][i[1]].damaged + new[i[1]].damaged]
        BY <1>1, <2>2
      <3> QED BY <1>0, <3>1
    <2>4. CASE field = "sound"
      BY <2>2, <2>3, <2>4
    <2>5. CASE field = "damaged"
      BY <2>2, <2>3, <2>5
    <2> QED BY <2>4, <2>5
  <1>5. /\ receipts \in [Order -> [Product -> Units]] /\ receipts' \in [Order -> [Product -> Units]]
        /\ u[i[1]][field] \in Nat /\ receipts[o][i[1]][field] \in Nat
    BY <1>1 DEF OInv, Typed, Units
  <1> DEFINE v == Shares(orders, receipts, i, field)
             w == Shares(orders', receipts', i, field)
             gain == IF Place(r) = i[2] THEN u[i[1]][field] ELSE 0
  <1>6. \A x \in Order : v[x] \in Nat /\ w[x] \in Nat
    BY <1>5, SharesType
  <1>7. \A x \in Order \ {o} : w[x] = v[x]
    BY <1>3, <1>4 DEF Shares
  <1>8. w[o] = v[o] + gain
    BY <1>1, <1>3, <1>4, <1>5 DEF Shares, Place
  <1>9. gain \in Nat
    BY <1>5
  <1>10. SumFunctionOnSet(v, Order) \in Int
    BY <1>5, SharesType
  <1> HIDE DEF v, w, gain, o
  <1>11. SumFunctionOnSet(w, Order) = SumFunctionOnSet(v, Order) + (w[o] - v[o])
    BY <1>1, <1>6, <1>7, SumChange, OrdersAssumption
  <1>12. w[o] - v[o] = gain
    BY <1>1, <1>6, <1>8, <1>9
  <1> QED BY <1>11, <1>12, ArrivedIsSum DEF v, w, gain

\* A row to which a sound and d damaged units were added.
Grown(row, a, d) == [row EXCEPT !["available"] = @ + a, !["damaged"] = @ + d]

\* What two arrivals add is their sum.
LEMMA MoreArrives ==
  ASSUME NEW start \in Row, NEW a \in Int, NEW d \in Int, NEW x \in Int, NEW y \in Int
  PROVE  Plus(Grown(start, a, d), Grown(Zero, x, y)) = Grown(start, a + x, d + y)
  <1> DEFINE b == Grown(start, a, d)
             z == Grown(Zero, x, y)
             c == Grown(start, a + x, d + y)
  <1>1. start = [k \in Bucket |-> start[k]] /\ \A k \in Bucket : start[k] \in Int
    <2>1. start = [k \in Bucket |-> start[k]] /\ \A k \in Bucket : start[k] \in 0 .. MaxInt
      BY DEF Row
    <2> QED BY <2>1, StockAssumption
  <1>2. c = [k \in Bucket |-> c[k]]
    <2>1. DOMAIN c = Bucket
      BY <1>1 DEF Grown
    <2> QED BY <2>1 DEF Grown
  <1>3. ASSUME NEW k \in Bucket PROVE b[k] + z[k] = c[k]
    <2>1. CASE k = "available"
      BY <1>1, <2>1 DEF Grown, Zero, Bucket
    <2>2. CASE k = "damaged"
      BY <1>1, <2>2 DEF Grown, Zero, Bucket
    <2>3. CASE k \notin {"available", "damaged"}
      <3>1. b[k] = start[k] /\ c[k] = start[k] /\ z[k] = 0
        BY <1>1, <1>3, <2>3 DEF Grown, Zero
      <3> QED BY <1>1, <3>1
    <2> QED BY <2>1, <2>2, <2>3
  <1> HIDE DEF b, z, c
  <1>4. Plus(b, z) = c
    BY <1>2, <1>3 DEF Plus
  <1> QED BY <1>4 DEF b, z, c

\* The rows gain as much.
LEMMA CommitMatches ==
  ASSUME OInv, OInv', StockInv, GainInv, NEW r \in Request, Commit(r), StockMatchesReceipts
  PROVE  StockMatchesReceipts'
  <1> SUFFICES ASSUME NEW i \in Item
               PROVE  rows'[i] = Grown(OpeningStock[i], Arrived(i, "sound")',
                                                        Arrived(i, "damaged")')
    BY DEF StockMatchesReceipts, Grown
  <1> DEFINE u == job[r].units[i[1]]
             a == Arrived(i, "sound")
             d == Arrived(i, "damaged")
             start == OpeningStock[i]
             x == u.sound
             y == u.damaged
  <1>1. rows[i] = Grown(start, a, d)
    BY DEF StockMatchesReceipts, Grown
  <1>2. start \in Row
    BY StockAssumption
  <1>3. x \in Int /\ y \in Int /\ a \in Int /\ d \in Int
    <2>1. u \in Units
      BY DEF OInv, Typed, JobType, Item
    <2>2. receipts \in [Order -> [Product -> Units]]
      BY DEF OInv, Typed
    <2>3. ASSUME NEW field \in {"sound", "damaged"} PROVE Arrived(i, field) \in Int
      BY <2>2, SharesType, ArrivedIsSum
    <2> QED BY <2>1, <2>3 DEF Units
  <1>4. CASE Place(r) = i[2]
    <2>1. rows'[i] = Plus(rows[i], Arrival(u))
      BY <1>4, CommitAdds DEF Gain
    <2>2. Arrival(u) = Grown(Zero, x, y)
      <3>1. 0 + x = x /\ 0 + y = y /\ Zero["available"] = 0 /\ Zero["damaged"] = 0
        BY <1>3 DEF Zero, Bucket
      <3> QED BY <3>1 DEF Arrival, Grown
    <2>3. Arrived(i, "sound")' = a + x /\ Arrived(i, "damaged")' = d + y
      BY <1>4, CommitArrived
    <2> HIDE DEF u, a, d, start, x, y
    <2>4. rows'[i] = Plus(Grown(start, a, d), Grown(Zero, x, y))
      BY <1>1, <2>1, <2>2
    <2>5. Plus(Grown(start, a, d), Grown(Zero, x, y)) = Grown(start, a + x, d + y)
      BY <1>2, <1>3, MoreArrives
    <2> QED BY <2>3, <2>4, <2>5 DEF start
  <1>5. CASE Place(r) # i[2]
    <2>1. rows'[i] = Plus(rows[i], Zero)
      BY <1>5, CommitAdds DEF Gain
    <2>2. Zero = Grown(Zero, 0, 0)
      BY DEF Grown, Zero, Bucket
    <2>3. Arrived(i, "sound")' = a + 0 /\ Arrived(i, "damaged")' = d + 0
      BY <1>5, CommitArrived
    <2> HIDE DEF u, a, d, start, x, y
    <2>4. rows'[i] = Grown(start, a + 0, d + 0)
      BY <1>1, <1>2, <1>3, <2>1, <2>2, MoreArrives
    <2> QED BY <2>3, <2>4 DEF start
  <1> QED BY <1>4, <1>5

\* At the start nothing has arrived.
LEMMA InitMatches == Init => StockMatchesReceipts
  <1> SUFFICES ASSUME Init, NEW i \in Item
               PROVE  rows[i] = [OpeningStock[i] EXCEPT
                                   !["available"] = @ + Arrived(i, "sound"),
                                   !["damaged"] = @ + Arrived(i, "damaged")]
    BY DEF StockMatchesReceipts
  <1>1. ASSUME NEW field \in {"sound", "damaged"} PROVE Arrived(i, field) = 0
    <2> DEFINE v == Shares(orders, receipts, i, field)
    <2>1. \A o \in Order : v[o] = 0
      BY <1>1 DEF Init, Shares, NoUnits, Item
    <2> HIDE DEF v
    <2>2. SumFunctionOnSet(v, Order) = 0
      BY <2>1, SumZeros, OrdersAssumption
    <2> QED BY <2>2, ArrivedIsSum DEF v
  <1>2. rows[i] = OpeningStock[i] /\ OpeningStock[i] \in Row
    BY StockAssumption DEF Init, StockInit
  <1> QED BY <1>1, <1>2 DEF Row, Bucket

(***************************************************************************)
(* What the receipts of the orders say arrived is what the stock gained,   *)
(* sound units as available and damaged ones as damaged: the lock of the   *)
(* order line, taken before the stock row is read, is enough to keep       *)
(* receipts of one order from overwriting each other's stock, however many *)
(* there are and wherever one is refused or aborted.  What it cannot keep  *)
(* apart is receipts of two orders for one item: hence StockRacing = {}.   *)
(***************************************************************************)
THEOREM ReceiptsReachTheStock ==
  ASSUME OnlyReceipts, StockRacing = {}
  PROVE  Spec => []StockMatchesReceipts
  <1>1. OInv /\ [Next]_vars => OInv'
    BY NextKeeps
  <1>2. OInv /\ OInv' /\ StockInv /\ [Next]_vars => StockInv'
    BY NextStock
  <1>3. OInv /\ OInv' /\ StockInv /\ GainInv /\ [Next]_vars => GainInv'
    BY NextGain
  <1>4. OInv /\ OInv' /\ StockInv /\ GainInv /\ StockMatchesReceipts /\ [Next]_vars
          => StockMatchesReceipts'
    <2> SUFFICES ASSUME OInv, OInv', StockInv, GainInv, StockMatchesReceipts, [Next]_vars
                 PROVE  StockMatchesReceipts'
      OBVIOUS
    <2>1. ASSUME NEW r \in Request, Commit(r)
          PROVE  StockMatchesReceipts'
      BY <2>1, CommitMatches
    <2>2. ASSUME NEW r \in Request,
                 \/ Create(r) \/ Load(r) \/ LoadUpdate(r) \/ LoadReceive(r) \/ Reject(r)
                 \/ Decide(r) \/ DeleteLines(r) \/ Replace(r) \/ Recheck(r) \/ OverReceipt(r)
                 \/ Increment(r) \/ PostLine(r) \/ Tally(r) \/ Reply(r) \/ Log(r)
                 \/ Notify(r) \/ Fail(r)
          PROVE  UNCHANGED <<receipts, rows>>
      BY <2>2 DEF Create, Load, LoadUpdate, LoadReceive, Reject, Decide, DeleteLines, Replace,
                  Recheck, OverReceipt, Increment, PostLine, ReadItem, WriteItem, Tally, Reply,
                  Log, Notify, Fail, Abort
    <2>3. CASE UNCHANGED vars
      BY <2>3, StillArrived DEF vars
    <2> QED BY <2>1, <2>2, <2>3, StillArrived DEF Next, Serve, Quiet
  <1>5. Init => OInv /\ StockInv /\ GainInv /\ StockMatchesReceipts
    BY InitHolds, InitStock, InitGain, InitMatches
  <1> QED BY <1>1, <1>2, <1>3, <1>4, <1>5, PTL DEF Spec

-----------------------------------------------------------------------------
(***************************************************************************)
(* An update that replaces the lines overlaps with nothing on its order,   *)
(* so between its delete and its create nobody else has replaced them, and *)
(* until it answers nobody changes its own.                                *)
(***************************************************************************)
Undivided(r) ==
    /\ job[r].step = "replace" => job[r].rev = orders[job[r].id].rev
    /\ job[r].step = "reply" => orders[job[r].id].quantity = Stored(job[r].lines)
    /\ job[r].step \in {"log", "notify"} => req[r].op # "update"

UpdateInv == \A r \in Request : Undivided(r)

\* What each action does to the requests and handlers is to one of them.
LEMMA StepOfOne ==
  ASSUME OInv, NEW r \in Request,
         \/ Create(r) \/ Load(r) \/ LoadUpdate(r) \/ LoadReceive(r) \/ Reject(r)
         \/ Serve(r) \/ Fail(r)
  PROVE  Elsewhere(r)
  <1>1. job \in [Request -> JobType] /\ req = [s \in Request |-> req[s]]
    BY DEF OInv, Typed, ReqsOK
  <1>2. \A s \in Request : s # r => req'[s] = req[s]
    <2>1. \/ UNCHANGED req
          \/ \E x : req' = [req EXCEPT ![r] = x]
          \/ \E x : req' = [req EXCEPT ![r].status = x]
      BY DEF Create, Load, LoadUpdate, LoadReceive, Reject, Serve, Decide, DeleteLines, Replace,
             Recheck, OverReceipt, Increment, PostLine, ReadItem, WriteItem, Tally, Commit, Log,
             Notify, Fail, Abort, Reply, Start, Answer
    <2> QED BY <1>1, <2>1
  <1>3. \A s \in Request : s # r => job'[s] = job[s]
    <2>1. CASE Create(r) \/ Load(r) \/ LoadUpdate(r) \/ LoadReceive(r)
      <3>1. CASE Create(r) \/ Load(r)
        <4>1. \E u, x : job' = [job EXCEPT ![r].step = x, ![r].id = u]
          BY <3>1 DEF Create, Load
        <4> QED BY <1>1, <4>1
      <3>2. CASE LoadUpdate(r)
        <4>1. \E u, b : job' = [job EXCEPT ![r].step = "checked", ![r].id = u, ![r].lines = b]
          BY <3>2 DEF LoadUpdate
        <4> QED BY <1>1, <4>1
      <3>3. CASE LoadReceive(r)
        BY <1>1, <3>3 DEF LoadReceive
      <3> QED BY <2>1, <3>1, <3>2, <3>3
    <2>2. CASE Reject(r) \/ Fail(r) \/ Reply(r) \/ OverReceipt(r) \/ Commit(r) \/ Notify(r)
      BY <1>1, <2>2 DEF Reject, Fail, Reply, OverReceipt, Commit, Notify
    <2>3. CASE \/ Decide(r) \/ DeleteLines(r) \/ Replace(r) \/ PostLine(r)
               \/ Tally(r) \/ Log(r)
      BY <1>1, <2>3 DEF Decide, DeleteLines, Replace, PostLine, Tally, Log
    <2>4. CASE Recheck(r)
      <3>1. \E n, x : job' = [job EXCEPT ![r].step = "increment", ![r].at = n, ![r].left = x]
        BY <2>4 DEF Recheck
      <3> QED BY <1>1, <3>1
    <2>5. CASE Increment(r)
      <3>1. \E x : job' = [job EXCEPT ![r] = x]
        BY <2>5 DEF Increment
      <3> QED BY <1>1, <3>1
    <2> QED BY <2>1, <2>2, <2>3, <2>4, <2>5 DEF Serve
  <1> QED BY <1>2, <1>3 DEF Elsewhere

\* No other handler writes the order whose lines are being replaced.
LEMMA OrderIsTheirs ==
  ASSUME OInv, OnlyReceipts, NEW r \in Request,
         \/ Create(r) \/ Load(r) \/ LoadUpdate(r) \/ LoadReceive(r) \/ Reject(r)
         \/ Serve(r) \/ Fail(r),
         NEW s \in Request, s # r, job[s].step \in {"replace", "reply"}
  PROVE  orders'[job[s].id] = orders[job[s].id]
  <1>1. /\ job[s].id \in Order /\ orders[job[s].id].status = "DRAFT" /\ req[s].op = "update"
        /\ orders \in [Order -> OrderRow]
    BY DEF OInv, Attended, Guarded, Typed
  <1>2. CASE Create(r)
    <2>1. PICK o \in Order : /\ orders[o].status = "NONE"
                             /\ \E x : orders' = [orders EXCEPT ![o] = x]
      BY <1>2 DEF Create
    <2> QED BY <1>1, <2>1
  <1>3. CASE Decide(r) \/ Replace(r) \/ Commit(r)
    <2>1. job[r].step # "none"
      BY <1>3 DEF Decide, Replace, Commit
    <2>2. job[r].id # job[s].id
      BY <1>1, <2>1, Alone
    <2>3. CASE Decide(r)
      BY <1>1, <2>2, <2>3 DEF Decide
    <2>4. CASE Replace(r)
      <3>1. PICK q, a, d, v : orders' = [orders EXCEPT ![job[r].id].quantity = q,
                                                      ![job[r].id].sound = a,
                                                      ![job[r].id].damaged = d,
                                                      ![job[r].id].rev = v]
        BY <2>4 DEF Replace
      <3> QED BY <1>1, <2>2, <3>1
    <2>5. CASE Commit(r)
      <3>1. PICK st, c, a, d : orders' = [orders EXCEPT ![job[r].id].status = st,
                                                       ![job[r].id].completed = c,
                                                       ![job[r].id].sound = a,
                                                       ![job[r].id].damaged = d]
        BY <2>5 DEF Commit
      <3> QED BY <1>1, <2>2, <3>1
    <2> QED BY <1>3, <2>3, <2>4, <2>5
  <1>4. CASE \/ Load(r) \/ LoadUpdate(r) \/ LoadReceive(r) \/ Reject(r) \/ DeleteLines(r)
             \/ Recheck(r) \/ OverReceipt(r) \/ Increment(r) \/ PostLine(r)
             \/ Tally(r) \/ Reply(r) \/ Log(r) \/ Notify(r) \/ Fail(r)
    BY <1>4 DEF Load, LoadUpdate, LoadReceive, Reject, DeleteLines, Recheck, OverReceipt,
                Increment, PostLine, Tally, Reply, Log, Notify, Fail
  <1> QED BY <1>2, <1>3, <1>4 DEF Serve

\* The create finds no line left, so the lines are its own.
LEMMA LinesReplaced ==
  ASSUME OInv, UpdateInv, NEW r \in Request, Replace(r)
  PROVE  orders'[job[r].id].quantity = Stored(job[r].lines)
  <1>1. /\ job[r].step = "replace" /\ job[r].id \in Order /\ orders \in [Order -> OrderRow]
        /\ Remaining(r) = {}
    BY DEF Replace, OInv, Typed, Attended, UpdateInv, Undivided, Remaining
  <1> DEFINE Keep(old, new) ==
               [p \in Product |-> IF p \in Remaining(r) THEN old[p] ELSE new[p]]
  <1>2. PICK a, d, v :
          orders' = [orders EXCEPT
                       ![job[r].id].quantity = Keep(@, Stored(job[r].lines)),
                       ![job[r].id].sound = a, ![job[r].id].damaged = d, ![job[r].id].rev = v]
    BY DEF Replace
  <1>3. orders'[job[r].id].quantity = Keep(orders[job[r].id].quantity, Stored(job[r].lines))
    BY <1>1, <1>2 DEF OrderRow
  <1>4. Stored(job[r].lines) = [p \in Product |-> Stored(job[r].lines)[p]]
    BY DEF Stored
  <1> QED BY <1>1, <1>3, <1>4

\* Every step keeps updates undivided.
LEMMA NextUpdate ==
  ASSUME OInv, OnlyReceipts, UpdateInv, [Next]_vars
  PROVE  UpdateInv'
  <1>1. CASE UNCHANGED vars
    BY <1>1 DEF vars, UpdateInv, Undivided
  <1>2. ASSUME NEW r \in Request,
               \/ Create(r) \/ Load(r) \/ LoadUpdate(r) \/ LoadReceive(r) \/ Reject(r)
               \/ Serve(r) \/ Fail(r)
        PROVE  UpdateInv'
    <2>0. Elsewhere(r)
      BY <1>2, StepOfOne
    <2>1. ASSUME NEW s \in Request, s # r PROVE Undivided(s)'
      <3>1. job'[s] = job[s] /\ req'[s] = req[s] /\ Undivided(s)
        BY <2>0, <2>1 DEF Elsewhere, UpdateInv
      <3>2. job[s].step \in {"replace", "reply"} => orders'[job[s].id] = orders[job[s].id]
        BY <1>2, <2>1, OrderIsTheirs
      <3> QED BY <3>1, <3>2 DEF Undivided
    <2>2. Undivided(r)'
      <3>1. /\ job \in [Request -> JobType] /\ job[r] \in JobType /\ Typed /\ Undivided(r)
            /\ NoJob.step = "none"
        BY NoJobType DEF OInv, Typed, UpdateInv
      <3>2. CASE Create(r)
        <4>1. PICK o \in Order : /\ Start(r, "create", o, {})
                                 /\ job' = [job EXCEPT ![r].step = "log", ![r].id = o]
          BY <3>2 DEF Create
        <4>2. req'[r].op = "create"
          BY <3>1, <4>1, StartFacts DEF Op
        <4>3. job'[r].step = "log"
          BY <3>1, <4>1 DEF JobType
        <4> QED BY <4>2, <4>3 DEF Undivided
      <3>3. CASE Load(r) \/ LoadUpdate(r) \/ LoadReceive(r)
        <4>1. job'[r].step \in {"decide", "checked", "receive"}
          <5>1. CASE Load(r)
            BY <3>1, <5>1 DEF Load, JobType
          <5>2. CASE LoadUpdate(r)
            <6>1. PICK o, b : job' = [job EXCEPT ![r].step = "checked", ![r].id = o,
                                                 ![r].lines = b]
              BY <5>2 DEF LoadUpdate
            <6> QED BY <3>1, <6>1 DEF JobType
          <5>3. CASE LoadReceive(r)
            BY <3>1, <5>3 DEF LoadReceive, JobType
          <5> QED BY <3>3, <5>1, <5>2, <5>3
        <4> QED BY <4>1 DEF Undivided
      <3>4. CASE Decide(r)
        <4>1. req[r].op \in DOMAIN Decision /\ UNCHANGED req
          BY <3>4 DEF Decide, OInv, Guarded
        <4>2. job'[r].step = "log"
          BY <3>1, <3>4 DEF Decide, JobType
        <4> QED BY <4>1, <4>2 DEF Undivided, Decision
      <3>5. CASE DeleteLines(r)
        <4>1. /\ job' = [job EXCEPT ![r].step = "replace", ![r].rev = orders[job[r].id].rev]
              /\ UNCHANGED orders
          BY <3>5 DEF DeleteLines
        <4>2. /\ job'[r].step = "replace" /\ job'[r].rev = orders[job[r].id].rev
              /\ job'[r].id = job[r].id
          BY <3>1, <4>1 DEF JobType
        <4> QED BY <4>1, <4>2 DEF Undivided
      <3>6. CASE Reply(r) \/ OverReceipt(r) \/ Notify(r) \/ Fail(r)
        <4>1. job' = [job EXCEPT ![r] = NoJob]
          BY <3>6 DEF Reply, OverReceipt, Notify, Fail
        <4> QED BY <3>1, <4>1 DEF Undivided
      <3>7. CASE Recheck(r) \/ Increment(r) \/ Tally(r)
        <4>1. job'[r].step \in Receiving
          <5>1. CASE Recheck(r)
            <6>1. PICK n, x : job' = [job EXCEPT ![r].step = "increment", ![r].at = n,
                                                 ![r].left = x]
              BY <5>1 DEF Recheck
            <6> QED BY <3>1, <6>1 DEF JobType, Receiving
          <5>2. CASE Increment(r)
            BY <3>1, <5>2 DEF Increment, JobType, Receiving
          <5>3. CASE Tally(r)
            BY <3>1, <5>3 DEF Tally, JobType, Receiving
          <5> QED BY <3>7, <5>1, <5>2, <5>3
        <4> QED BY <4>1 DEF Undivided, Receiving
      <3>8. CASE PostLine(r)
        BY <3>1, <3>8 DEF PostLine, ReadItem, WriteItem, Undivided
      <3>9. CASE Commit(r)
        <4>1. req[r].op = "receive" /\ UNCHANGED req
          BY <3>9 DEF Commit, OInv, Guarded, Receiving
        <4>2. job'[r].step = "log"
          BY <3>1, <3>9 DEF Commit, NoJob
        <4> QED BY <4>1, <4>2 DEF Undivided
      <3>10. CASE Log(r)
        <4>1. CASE req[r].op = "send"
          BY <3>1, <3>10, <4>1 DEF Log, Undivided, JobType
        <4>2. CASE req[r].op # "send"
          BY <3>1, <3>10, <4>2 DEF Log, Undivided
        <4> QED BY <4>1, <4>2
      <3>11. CASE Reject(r)
        <4>1. req[r].status = "new" /\ UNCHANGED job
          BY <3>11 DEF Reject
        <4>2. job[r].step = "none"
          BY <4>1 DEF OInv, Attended, Busy
        <4> QED BY <4>1, <4>2 DEF Undivided
      <3>12. CASE Replace(r)
        <4>1. /\ job' = [job EXCEPT ![r].step = "reply"]
              /\ orders'[job[r].id].quantity = Stored(job[r].lines)
          BY <3>12, LinesReplaced DEF Replace
        <4>2. /\ job'[r].step = "reply" /\ job'[r].id = job[r].id
              /\ job'[r].lines = job[r].lines
          BY <3>1, <4>1 DEF JobType
        <4> QED BY <4>1, <4>2 DEF Undivided
      <3> QED BY <1>2, <3>2, <3>3, <3>4, <3>5, <3>6, <3>7, <3>8, <3>9, <3>10, <3>11, <3>12
              DEF Serve
    <2> QED BY <2>1, <2>2 DEF UpdateInv
  <1> QED BY <1>1, <1>2 DEF Next, Quiet

\* Only its reply answers an update with success.
LEMMA StepReplaces ==
  ASSUME OInv, UpdateInv, [Next]_vars, NEW r \in Request,
         req[r].op = "update", req[r].status = "busy", req'[r].status = "ok"
  PROVE  orders'[job[r].id].quantity = Stored(job[r].lines)
  <1>1. Reply(r)
    <2>1. ~UNCHANGED vars
      BY DEF vars
    <2>2. PICK s \in Request : \/ Create(s) \/ Load(s) \/ LoadUpdate(s) \/ LoadReceive(s)
                               \/ Reject(s) \/ Serve(s) \/ Fail(s)
      BY <2>1 DEF Next, Quiet
    <2>3. s = r
      BY <2>2, StepOfOne DEF Elsewhere
    <2>4. ~(Create(r) \/ Load(r) \/ LoadUpdate(r) \/ LoadReceive(r) \/ Reject(r))
      BY DEF Create, Load, LoadUpdate, LoadReceive, Reject, Start, MayStart
    <2>5. ~(Fail(r) \/ OverReceipt(r))
      <3>1. ASSUME NEW how \in {"refused", "failed"}, Answer(r, how) PROVE FALSE
        BY <3>1, AnswerFacts DEF OInv
      <3> QED BY <3>1 DEF Fail, Abort, OverReceipt
    <2>6. ~(Log(r) \/ Notify(r))
      <3>1. CASE Log(r)
        BY <3>1 DEF Log, UpdateInv, Undivided
      <3>2. CASE Notify(r)
        BY <3>2 DEF Notify, UpdateInv, Undivided
      <3> QED BY <3>1, <3>2
    <2>7. ~(Decide(r) \/ DeleteLines(r) \/ Replace(r) \/ Recheck(r) \/ Increment(r)
            \/ PostLine(r) \/ Tally(r) \/ Commit(r))
      BY DEF Decide, DeleteLines, Replace, Recheck, Increment, PostLine, ReadItem, WriteItem,
             Tally, Commit
    <2> QED BY <2>2, <2>3, <2>4, <2>5, <2>6, <2>7 DEF Serve
  <1> QED BY <1>1 DEF Reply, UpdateInv, Undivided

(***************************************************************************)
(* The lines of an update replace all existing lines                       *)
(* (update-purchase-order.dto.ts:31): as long as nothing but receipts      *)
(* overlaps on an order, an update that answers has left the order with    *)
(* its own lines and no others.                                            *)
(***************************************************************************)
THEOREM UpdatesReplace ==
  ASSUME OnlyReceipts
  PROVE  Spec => UpdateReplaces
  <1>1. OInv /\ UpdateInv /\ [Next]_vars => UpdateInv'
    BY NextUpdate
  <1>2. Init => UpdateInv
    BY DEF Init, NoJob, UpdateInv, Undivided
  <1>3. OInv /\ UpdateInv /\ [Next]_vars =>
          [\A r \in Request :
             req[r].op = "update" /\ req[r].status = "busy" /\ req'[r].status = "ok" =>
                 orders'[job[r].id].quantity = Stored(job[r].lines)]_vars
    BY StepReplaces
  <1> QED BY <1>1, <1>2, <1>3, OrdersInductive, PTL DEF Spec, UpdateReplaces

-----------------------------------------------------------------------------
(***************************************************************************)
(* While nothing overlaps on an order or an item, each handler is one step *)
(* of AtomicOrders: the decision, the create of an update, or the commit   *)
(* of a receipt, which has by then taken every line of its delivery.       *)
(***************************************************************************)
\* The abstract specification speaks of the same rows and deltas.
LEMMA SameWords ==
  /\ Atomic!Item = Item /\ Atomic!Zero = Zero
  /\ \A a, b : Atomic!Plus(a, b) = Plus(a, b)
  /\ \A a : Atomic!Fits(a) = Fits(a)
  <1>1. Atomic!Item = Item /\ Atomic!Zero = Zero /\ Atomic!Bucket = Bucket
    BY DEF Atomic!Item, Item, Atomic!Zero, Zero, Atomic!Bucket, Bucket
  <1>2. \A a, b : Atomic!Plus(a, b) = Plus(a, b)
    BY <1>1 DEF Atomic!Plus, Plus
  <1>3. \A a : Atomic!Fits(a) = Fits(a)
    BY <1>1 DEF Atomic!Fits, Fits, Atomic!Total, Total
  <1> QED BY <1>1, <1>2, <1>3

\* A creation is one step.
LEMMA CreateIsAtomic ==
  ASSUME OInv, NEW r \in Request, Create(r)
  PROVE  orders' # orders /\ \E o \in Order : Atomic!Created(o)
  <1>1. PICK o \in Order, w \in Warehouse, b \in Basket :
          /\ orders[o].status = "NONE" /\ UNCHANGED rows
          /\ orders' = [orders EXCEPT ![o] =
                          [status |-> "DRAFT", warehouse |-> w, quantity |-> Stored(b),
                           sound |-> None, damaged |-> None, completed |-> FALSE, rev |-> 0]]
    BY DEF Create
  <1>2. Stored(b) = Atomic!All(b, "quantity")
    BY DEF Stored, Atomic!All, Atomic!Brought
  <1>3. DOMAIN <<>> = {}
    OBVIOUS
  <1>4. None = Atomic!All(<<>>, "sound") /\ None = Atomic!All(<<>>, "damaged")
    BY <1>3 DEF None, Atomic!All, Atomic!Brought
  <1>5. orders'[o].status = "DRAFT"
    BY <1>1 DEF OInv, Typed
  <1> QED BY <1>1, <1>2, <1>4, <1>5 DEF Atomic!Created

\* So is a decision, whose guard still holds.
LEMMA DecideIsAtomic ==
  ASSUME OInv, NEW r \in Request, Decide(r)
  PROVE  orders' # orders /\ \E o \in Order : Atomic!Decided(o)
  <1> DEFINE o == job[r].id
             op == req[r].op
             z == orders[o]
  <1>1. /\ o \in Order /\ op \in DOMAIN Decision /\ z.status \in Expected(op)
        /\ z \in OrderRow /\ orders \in [Order -> OrderRow]
    BY DEF Decide, OInv, Typed, Attended, Guarded
  <1>2. /\ orders' = [orders EXCEPT ![o].status = Decision[op],
                                    ![o].completed = @ \/ op = "close"]
        /\ UNCHANGED rows
    BY DEF Decide
  <1>3. op \in {"send", "approve", "cancel", "close"}
    BY <1>1 DEF Decision
  <1>4. z.status # "COMPLETED" /\ z.completed = FALSE
    <2>1. z.status # "COMPLETED"
      BY <1>1, <1>3 DEF Expected
    <2> QED BY <1>1, <2>1 DEF OInv, CompletionTimed, OrderRow
  <1>5. z.status # Decision[op]
    BY <1>1, <1>3 DEF Expected, Decision
  <1>6. (z.completed \/ op = "close") = (Decision[op] = "COMPLETED")
    BY <1>3, <1>4 DEF Decision
  <1>7. orders' = [orders EXCEPT ![o].status = Decision[op],
                                 ![o].completed = (Decision[op] = "COMPLETED")]
    BY <1>1, <1>2, <1>6
  <1>8. orders'[o].status = Decision[op]
    BY <1>1, <1>7 DEF OrderRow
  <1> HIDE DEF o, op, z
  <1>9. Atomic!Becomes(o, Expected(op), Decision[op])
    BY <1>1, <1>2, <1>7 DEF z, Atomic!Becomes
  <1>10. \/ Expected(op) = {"DRAFT"} /\ Decision[op] = "SENT"
         \/ Expected(op) = {"SENT"} /\ Decision[op] = "APPROVED"
         \/ Expected(op) = {"DRAFT", "SENT"} /\ Decision[op] = "CANCELLED"
         \/ Expected(op) = {"PARTIALLY_RECEIVED"} /\ Decision[op] = "COMPLETED"
    BY <1>3 DEF Expected, Decision
  <1>11. Atomic!Decided(o)
    BY <1>9, <1>10 DEF Atomic!Decided
  <1>13. orders' # orders
    BY <1>5, <1>8 DEF z
  <1> QED BY <1>1, <1>11, <1>13

\* The create of an update finds no line left, and the draft had no units.
LEMMA ReplaceIsAtomic ==
  ASSUME OInv, UpdateInv, NEW r \in Request, Replace(r)
  PROVE  orders' # orders /\ \E o \in Order : Atomic!Updated(o)
  <1> DEFINE o == job[r].id
             b == job[r].lines
             z == orders[o]
             Keep(old, new) == [p \in Product |-> IF p \in Remaining(r) THEN old[p] ELSE new[p]]
  <1>1. /\ o \in Order /\ b \in Basket /\ z.status = "DRAFT" /\ Remaining(r) = {}
        /\ z \in OrderRow /\ orders \in [Order -> OrderRow]
    BY DEF Replace, OInv, Typed, Attended, Guarded, UpdateInv, Undivided, Remaining
  <1>2. /\ orders' = [orders EXCEPT ![o].quantity = Keep(@, Stored(b)),
                                    ![o].sound = Keep(@, None), ![o].damaged = Keep(@, None),
                                    ![o].rev = @ + 1]
        /\ UNCHANGED rows
    BY DEF Replace
  <1>3. z.sound = None /\ z.damaged = None
    BY <1>1 DEF OInv, Unreceived
  <1>4. /\ Keep(z.quantity, Stored(b)) = Atomic!All(b, "quantity")
        /\ Keep(z.sound, None) = z.sound /\ Keep(z.damaged, None) = z.damaged
    BY <1>1, <1>3 DEF Stored, None, Atomic!All, Atomic!Brought
  <1> HIDE DEF Keep
  <1> DEFINE q == Atomic!All(b, "quantity")
             x == [z EXCEPT !.quantity = q, !.sound = z.sound, !.damaged = z.damaged,
                            !.rev = @ + 1]
             y == [z EXCEPT !.quantity = q, !.rev = @ + 1]
  <1>5. x = y
    <2> HIDE DEF z, q
    <2> QED BY <1>1 DEF OrderRow
  <1>6. orders' = [orders EXCEPT ![o] = x]
    BY <1>1, <1>2, <1>4
  <1>7. orders' = [orders EXCEPT ![o] = y]
    BY <1>5, <1>6
  <1>8. orders' = [orders EXCEPT ![o].quantity = Atomic!All(b, "quantity"), ![o].rev = @ + 1]
    BY <1>1, <1>7
  <1>9. Atomic!Updated(o)
    BY <1>1, <1>2, <1>8 DEF Atomic!Updated
  <1>10. orders' # orders
    <2>1. orders'[o] = y
      <3> HIDE DEF y
      <3> QED BY <1>1, <1>7
    <2>2. y.rev = z.rev + 1 /\ z.rev \in Nat
      <3> HIDE DEF q, z
      <3> QED BY <1>1 DEF OrderRow
    <2> HIDE DEF y
    <2> QED BY <2>1, <2>2
  <1> QED BY <1>1, <1>9, <1>10

\* What a receipt commits is what its delivery says.
LEMMA UnitsAreBrought ==
  ASSUME OInv, NEW r \in Request, job[r].step = "finish", NEW p \in Product
  PROVE  /\ Atomic!Brought(job[r].lines, p, "sound") = job[r].units[p].sound
         /\ Atomic!Brought(job[r].lines, p, "damaged") = job[r].units[p].damaged
  <1> DEFINE d == job[r].lines
             u == job[r].units
             m == CHOOSE n \in DOMAIN d : d[n].product = p
  <1>1. d \in Delivery /\ Booked(r) /\ job[r].left = {}
    BY DEF OInv, Guarded, BookInv, Booked, Receiving
  <1>2. Taken(r) = Meaningful(d)
    BY <1>1 DEF Taken
  <1>3. \A n \in DOMAIN d : d[n].sound \in Nat /\ d[n].damaged \in Nat
    BY <1>1, DeliveryFacts
  <1>4. u[p] # NoUnits => \E n \in Meaningful(d) : d[n].product = p
    BY <1>1, <1>2 DEF Booked, Receiving
  <1>5. NoUnits.sound = 0 /\ NoUnits.damaged = 0
    BY DEF NoUnits
  <1>6. CASE ~ \E n \in DOMAIN d : d[n].product = p
    <2>1. u[p] = NoUnits
      BY <1>4, <1>6 DEF Meaningful
    <2> QED BY <1>5, <1>6, <2>1 DEF Atomic!Brought
  <1>7. CASE \E n \in DOMAIN d : d[n].product = p
    <2>1. m \in DOMAIN d /\ d[m].product = p
      BY <1>7
    <2>2. \A n \in DOMAIN d : d[n].product = p => n = m
      BY <1>1, <2>1, DeliveryFacts DEF NoDuplicates
    <2>3. /\ Atomic!Brought(d, p, "sound") = d[m].sound
          /\ Atomic!Brought(d, p, "damaged") = d[m].damaged
      BY <1>7 DEF Atomic!Brought
    <2> HIDE DEF m
    <2>4. CASE m \in Meaningful(d)
      <3>1. u[p] = [sound |-> d[m].sound, damaged |-> d[m].damaged]
        BY <1>1, <1>2, <2>1, <2>4 DEF Booked, Receiving
      <3> QED BY <2>3, <3>1
    <2>5. CASE m \notin Meaningful(d)
      <3>1. u[p] = NoUnits
        BY <1>4, <2>2, <2>5 DEF Meaningful
      <3>2. ~(d[m].sound + d[m].damaged > 0) /\ d[m].sound \in Nat /\ d[m].damaged \in Nat
        BY <1>3, <2>1, <2>5 DEF Meaningful
      <3>3. d[m].sound = 0 /\ d[m].damaged = 0
        BY <3>2
      <3> QED BY <1>5, <2>3, <3>1, <3>3
    <2> QED BY <2>4, <2>5
  <1> QED BY <1>6, <1>7

\* The commit of a receipt is one step of the order and the stock.
LEMMA CommitIsAtomic ==
  ASSUME SInv, StockInv, GainInv, NEW r \in Request, Commit(r)
  PROVE  /\ orders' # orders
         /\ \E o \in Order, d \in Delivery : Atomic!Received(o, d)
  <1> DEFINE o == job[r].id
             d == job[r].lines
             u == job[r].units
             z == orders[o]
             More(old, field) == [p \in Product |-> old[p] + Atomic!Brought(d, p, field)]
             sound == More(z.sound, "sound")
             damaged == More(z.damaged, "damaged")
             full == \A p \in Product : sound[p] + damaged[p] = z.quantity[p]
  <1>1. /\ o \in Order /\ d \in Delivery /\ job[r].step = "finish" /\ Counted(r) /\ Booked(r)
        /\ z \in OrderRow /\ orders \in [Order -> OrderRow]
        /\ u \in [Product -> Units] /\ job[r].complete \in BOOLEAN
    BY DEF Commit, SInv, OInv, Typed, Attended, Guarded, JobType, BookInv, Receiving
  <1>2. \A p \in Product : /\ Atomic!Brought(d, p, "sound") = u[p].sound
                           /\ Atomic!Brought(d, p, "damaged") = u[p].damaged
    BY <1>1, UnitsAreBrought DEF SInv
  <1>3. \A p \in Product :
           /\ z.sound[p] \in Nat /\ z.damaged[p] \in Nat /\ z.quantity[p] \in Nat
           /\ u[p].sound \in Nat /\ u[p].damaged \in Nat
    BY <1>1 DEF OrderRow, Count, Units
  <1>4. /\ sound = [p \in Product |-> z.sound[p] + u[p].sound]
        /\ damaged = [p \in Product |-> z.damaged[p] + u[p].damaged]
    BY <1>2
  <1>5. z.status \in {"APPROVED", "PARTIALLY_RECEIVED"}
    BY <1>1 DEF Counted, Receiving, Expected
  <1>6. PICK p \in Product : Atomic!Brought(d, p, "sound") + Atomic!Brought(d, p, "damaged") > 0
    <2>1. PICK n \in Meaningful(d) : TRUE
      BY <1>1 DEF Booked, Receiving
    <2>2. /\ d[n].product \in Product /\ d[n].sound + d[n].damaged > 0
          /\ n \in Taken(r)
      BY <1>1, <2>1, DeliveryFacts DEF Meaningful, Booked, Taken, Receiving
    <2>3. u[d[n].product] = [sound |-> d[n].sound, damaged |-> d[n].damaged]
      BY <1>1, <2>2 DEF Booked, Receiving
    <2> QED BY <1>2, <2>2, <2>3
  <1>7. \A q \in Product : sound[q] + damaged[q] <= z.quantity[q]
    <2> SUFFICES ASSUME NEW q \in Product PROVE sound[q] + damaged[q] <= z.quantity[q]
      OBVIOUS
    <2>1. (z.sound[q] + z.damaged[q]) + u[q].sound + u[q].damaged <= z.quantity[q]
      BY <1>1 DEF Counted, Room, Accounted, Receiving
    <2>2. sound[q] + damaged[q] = (z.sound[q] + u[q].sound) + (z.damaged[q] + u[q].damaged)
      BY <1>4
    <2>3. \A a, b, c, e, k \in Nat : (a + b) + c + e <= k => (a + c) + (b + e) <= k
      OBVIOUS
    <2> HIDE DEF sound, damaged
    <2> QED BY <1>3, <2>1, <2>2, <2>3
  <1>8. job[r].complete = full
    <2>1. job[r].complete <=>
            \A q \in Product : (z.sound[q] + z.damaged[q]) + u[q].sound + u[q].damaged
                                  >= z.quantity[q]
      BY <1>1 DEF Counted, FullyAccounted, Accounted
    <2>2. ASSUME NEW q \in Product
          PROVE  ((z.sound[q] + z.damaged[q]) + u[q].sound + u[q].damaged >= z.quantity[q])
                   <=> sound[q] + damaged[q] = z.quantity[q]
      <3>1. sound[q] + damaged[q] = (z.sound[q] + u[q].sound) + (z.damaged[q] + u[q].damaged)
        BY <1>4
      <3>2. \A a, b, c, e, k \in Nat : (a + c) + (b + e) <= k =>
               (((a + b) + c + e >= k) <=> (a + c) + (b + e) = k)
        OBVIOUS
      <3>3. sound[q] + damaged[q] <= z.quantity[q]
        BY <1>7
      <3>4. /\ z.sound[q] \in Nat /\ z.damaged[q] \in Nat /\ z.quantity[q] \in Nat
            /\ u[q].sound \in Nat /\ u[q].damaged \in Nat
        BY <1>3
      <3> HIDE DEF sound, damaged, z, u
      <3> QED BY <3>1, <3>2, <3>3, <3>4
    <2>3. job[r].complete <=> full
      <3> HIDE DEF sound, damaged
      <3> QED BY <2>1, <2>2
    <2>4. job[r].complete \in BOOLEAN /\ full \in BOOLEAN
      BY <1>1
    <2> HIDE DEF full
    <2> QED BY <2>3, <2>4
  <1>9. orders' = [orders EXCEPT
                     ![o].status = IF full THEN "COMPLETED" ELSE "PARTIALLY_RECEIVED",
                     ![o].completed = full, ![o].sound = sound, ![o].damaged = damaged]
    <2>1. orders' = [orders EXCEPT
                       ![o].status = IF job[r].complete THEN "COMPLETED"
                                                        ELSE "PARTIALLY_RECEIVED",
                       ![o].completed = job[r].complete,
                       ![o].sound = [q \in Product |-> @[q] + u[q].sound],
                       ![o].damaged = [q \in Product |-> @[q] + u[q].damaged]]
      BY DEF Commit
    <2> HIDE DEF full, sound, damaged
    <2> QED BY <1>1, <1>4, <1>8, <2>1
  <1>10. rows' = [i \in Item |->
                    IF i[2] = z.warehouse
                    THEN Plus(rows[i], [Zero EXCEPT
                                          !["available"] = Atomic!Brought(d, i[1], "sound"),
                                          !["damaged"] = Atomic!Brought(d, i[1], "damaged")])
                    ELSE rows[i]]
    <2>1. rows' = [i \in Item |-> Plus(rows[i], Gain(u, z.warehouse)[i])]
      BY CommitAdds DEF Place
    <2>2. ASSUME NEW i \in Item
          PROVE  Plus(rows[i], Gain(u, z.warehouse)[i]) =
                    IF i[2] = z.warehouse
                    THEN Plus(rows[i], [Zero EXCEPT
                                          !["available"] = Atomic!Brought(d, i[1], "sound"),
                                          !["damaged"] = Atomic!Brought(d, i[1], "damaged")])
                    ELSE rows[i]
      <3>1. CASE i[2] = z.warehouse
        BY <1>2, <3>1 DEF Gain, Arrival, Item
      <3>2. CASE i[2] # z.warehouse
        <4>1. Gain(u, z.warehouse)[i] = Zero /\ rows[i] \in Delta
          BY <3>2, RowIsDelta DEF Gain, StockInv, StockTypeOK
        <4> QED BY <3>2, <4>1, PlusZero
      <3> QED BY <3>1, <3>2
    <2> QED BY <2>1, <2>2
  <1>11. rows' = [i \in Atomic!Item |->
                    IF i[2] = z.warehouse
                    THEN Atomic!Plus(rows[i],
                           [Atomic!Zero EXCEPT
                              !["available"] = Atomic!Brought(d, i[1], "sound"),
                              !["damaged"] = Atomic!Brought(d, i[1], "damaged")])
                    ELSE rows[i]]
    BY <1>10, SameWords
  <1> HIDE DEF z
  <1>12. Atomic!Received(o, d)
    <2> HIDE DEF o, d
    <2> QED BY <1>5, <1>6, <1>7, <1>9, <1>11 DEF z, Atomic!Received
  <1>13. orders' # orders
    <2>1. orders'[o].sound = sound /\ orders'[o].damaged = damaged
      <3> HIDE DEF full, sound, damaged
      <3> QED BY <1>1, <1>9 DEF OrderRow
    <2>2. sound[p] + damaged[p] # z.sound[p] + z.damaged[p]
      <3>1. u[p].sound + u[p].damaged > 0
        BY <1>2, <1>6
      <3>2. sound[p] = z.sound[p] + u[p].sound /\ damaged[p] = z.damaged[p] + u[p].damaged
        BY <1>4
      <3> HIDE DEF sound, damaged
      <3> QED BY <1>3, <3>1, <3>2
    <2> QED BY <2>1, <2>2 DEF z
  <1> QED BY <1>1, <1>12, <1>13

(***************************************************************************)
(* While requests on one order or on one item come one at a time, the      *)
(* handlers of PurchaseOrdersService do what AtomicOrders says, whatever   *)
(* overlaps on other orders and items and whichever of them are aborted:   *)
(* in particular a receipt books every line of its delivery, on the order  *)
(* and in the stock, or none.                                              *)
(***************************************************************************)
THEOREM OrdersAreAtomic ==
  ASSUME Serial, StockRacing = {}
  PROVE  Spec => ImplementsAtomicOrders
  <1>1. SInv /\ [Next]_vars => SInv'
    BY SerialNext
  <1>2. SInv => OInv
    BY DEF SInv
  <1>3. OInv /\ OInv' /\ StockInv /\ [Next]_vars => StockInv'
    BY NextStock
  <1>4. OInv /\ OInv' /\ StockInv /\ GainInv /\ [Next]_vars => GainInv'
    BY NextGain
  <1>5. OInv /\ UpdateInv /\ [Next]_vars => UpdateInv'
    BY NextUpdate DEF Serial, OnlyReceipts
  <1>6. Init => SInv /\ StockInv /\ GainInv /\ UpdateInv
    <2>1. Init => UpdateInv
      BY DEF Init, NoJob, UpdateInv, Undivided
    <2> QED BY <2>1, SerialInit, InitHolds, InitStock, InitGain
  <1>7. SInv /\ StockInv /\ StockInv' /\ GainInv /\ UpdateInv /\ [Next]_vars
          => [Atomic!AtomicStep]_<<rows, orders>>
    <2> SUFFICES ASSUME SInv, StockInv, StockInv', GainInv, UpdateInv, [Next]_vars
                 PROVE  [Atomic!AtomicStep]_<<rows, orders>>
      OBVIOUS
    <2>1. \A i \in Atomic!Item : Atomic!Fits(rows'[i])
      <3>1. \A i \in Item : Fits(rows'[i])
        BY DEF StockInv, RangeInv, StockInRange
      <3> QED BY <3>1, SameWords
    <2>2. ASSUME NEW r \in Request, Create(r) \/ Decide(r) \/ Replace(r) \/ Commit(r)
          PROVE  Atomic!AtomicStep
      <3>1. OInv
        BY <1>2
      <3>2. CASE Create(r)
        BY <2>1, <3>1, <3>2, CreateIsAtomic DEF Atomic!AtomicStep
      <3>3. CASE Decide(r)
        BY <2>1, <3>1, <3>3, DecideIsAtomic DEF Atomic!AtomicStep
      <3>4. CASE Replace(r)
        BY <2>1, <3>1, <3>4, ReplaceIsAtomic DEF Atomic!AtomicStep
      <3>5. CASE Commit(r)
        BY <2>1, <3>5, CommitIsAtomic DEF Atomic!AtomicStep
      <3> QED BY <2>2, <3>2, <3>3, <3>4, <3>5
    <2>3. ASSUME NEW r \in Request,
                 \/ Load(r) \/ LoadUpdate(r) \/ LoadReceive(r) \/ Reject(r) \/ DeleteLines(r)
                 \/ Recheck(r) \/ OverReceipt(r) \/ Increment(r) \/ PostLine(r)
                 \/ Tally(r) \/ Reply(r) \/ Log(r) \/ Notify(r) \/ Fail(r)
          PROVE  UNCHANGED <<rows, orders>>
      BY <2>3 DEF Load, LoadUpdate, LoadReceive, Reject, DeleteLines, Recheck, OverReceipt,
                  Increment, PostLine, ReadItem, WriteItem, Tally, Reply, Log, Notify, Fail,
                  Abort
    <2>4. CASE UNCHANGED vars
      BY <2>4 DEF vars
    <2> QED BY <2>2, <2>3, <2>4 DEF Next, Serve, Quiet
  <1>8. Init => rows = OpeningStock /\ orders = OpeningOrders
    BY DEF Init, StockInit
  <1> QED BY <1>1, <1>2, <1>3, <1>4, <1>5, <1>6, <1>7, <1>8, PTL
          DEF Spec, ImplementsAtomicOrders, Atomic!AtomicOrdersSpec, Atomic!atomicVars
-----------------------------------------------------------------------------
\* A receipt commits rows that no other receipt depends on: each works on the
\* items of the lines it has locked.
LEMMA CommitLedger ==
  ASSUME OInv, StockInv, GainInv, LedgerInv, NEW r \in Request, Commit(r)
  PROVE  LedgerInv'
  <1>1. job[r].step \in Receiving /\ Install(r) /\ StockTypeOK
    BY DEF Commit, StockInv, Receiving
  <1>2. Within(tx[r], Locks(r))
    BY <1>1 DEF GainInv, Carrying
  <1>3. ASSUME NEW s \in Request, NEW i \in Item, s # r, Depends(tx[s], i)
        PROVE  i \notin tx[r].held
    <2>1. Even(tx[s], rows) /\ tx[s] \in TxType
      BY <1>1 DEF LedgerInv, StockTypeOK
    <2>2. tx[s].open
      BY <1>3, <2>1 DEF Even, Depends, NoTx
    <2>3. job[s].step \in Receiving
      BY <2>2 DEF StockInv
    <2>4. Within(tx[s], Locks(s))
      BY <2>3 DEF GainInv, Carrying
    <2>5. i \in Locks(s)
      <3>1. CASE i \in tx[s].held
        BY <2>4, <3>1 DEF Within
      <3>2. CASE tx[s].fresh /\ i = tx[s].todo[1].item
        <4>1. 1 \in DOMAIN tx[s].todo
          BY <2>1, <3>2, TailFacts DEF Even, TxType
        <4> QED BY <2>4, <3>2, <4>1 DEF Within
      <3> QED BY <1>3, <3>1, <3>2 DEF Depends
    <2>6. Locks(r) \cap Locks(s) = {}
      BY <1>1, <1>3, <2>3, LocksApart
    <2> QED BY <1>2, <2>5, <2>6 DEF Within
  <1> QED BY <1>1, <1>3, LedgerCommit

\* The movement of the next line begins when those before it are written.
LEMMA IncrementLedger ==
  ASSUME StockInv, GainInv, LedgerInv, NEW r \in Request, Increment(r)
  PROVE  LedgerInv'
  <1>1. /\ job[r].step = "increment" /\ UNCHANGED <<rows, ledger>>
        /\ \E moves : tx' = [tx EXCEPT ![r].todo = moves]
    BY DEF Increment
  <1>2. PICK moves : tx' = [tx EXCEPT ![r].todo = moves]
    BY <1>1
  <1>3. /\ tx[r] \in TxType /\ tx[r].open = TRUE /\ tx[r].todo = <<>> /\ Even(tx[r], rows)
    BY <1>1 DEF StockInv, StockTypeOK, TxType, GainInv, Turn, Receiving, LedgerInv
  <1>4. tx'[r] = [tx[r] EXCEPT !.todo = moves] /\ \A s \in Request : s # r => tx'[s] = tx[s]
    BY <1>2 DEF StockInv, StockTypeOK
  <1> DEFINE t == tx[r]
  <1>5. t \in TxType /\ t.open = TRUE /\ t.todo = <<>> /\ Even(t, rows)
    BY <1>3
  <1> HIDE DEF t
  <1>6. Even([t EXCEPT !.todo = moves], rows)
    BY <1>5, EvenMore
  <1>7. Even(tx'[r], rows)
    BY <1>4, <1>6 DEF t
  <1> QED BY <1>1, <1>4, <1>7, LedgerOwn

\* No other step disturbs the ledger.
LEMMA NextLedger ==
  ASSUME OInv, StockInv, GainInv, LedgerInv, [Next]_vars
  PROVE  LedgerInv'
  <1>0. StockTypeOK
    BY DEF StockInv
  <1>1. ASSUME NEW r \in Request, LoadReceive(r)
        PROVE  LedgerInv'
    <2>1. UNCHANGED <<rows, ledger>> /\ \E moves : tx' = [tx EXCEPT ![r] = Pending(moves)]
      BY <1>1 DEF LoadReceive
    <2> QED BY <1>0, <2>1, LedgerStep
  <1>2. ASSUME NEW r \in Request,
               \/ Create(r) \/ Load(r) \/ LoadUpdate(r) \/ Reject(r) \/ Decide(r)
               \/ DeleteLines(r) \/ Replace(r) \/ Recheck(r) \/ Tally(r) \/ Log(r)
               \/ Reply(r) \/ Notify(r)
        PROVE  LedgerInv'
    <2>1. UNCHANGED <<rows, ledger, tx>>
      BY <1>2 DEF Create, Load, LoadUpdate, Reject, Decide, DeleteLines, Replace, Recheck,
                  Tally, Log, Reply, Notify
    <2> QED BY <1>0, <2>1, LedgerStep
  <1>3. ASSUME NEW r \in Request, PostLine(r) \/ OverReceipt(r) \/ Fail(r)
        PROVE  LedgerInv'
    <2>1. \/ ReadItem(r) \/ WriteItem(r)
          \/ UNCHANGED <<rows, ledger>> /\ tx' = [tx EXCEPT ![r] = NoTx]
      BY <1>3 DEF PostLine, OverReceipt, Fail, Abort
    <2> QED BY <1>0, <2>1, LedgerStep
  <1>4. CASE UNCHANGED vars
    BY <1>4 DEF vars, LedgerInv, LedgerReconciles
  <1> QED BY <1>1, <1>2, <1>3, <1>4, IncrementLedger, CommitLedger DEF Next, Serve, Quiet

(***************************************************************************)
(* The ledger reconciles (schema.prisma:220) over every stock row that      *)
(* receipts add to, however many receipts of one order overlap and          *)
(* wherever one of them is over the cap or fails.                           *)
(***************************************************************************)
THEOREM ReceiptsReconcile ==
  ASSUME OnlyReceipts, StockRacing = {}
  PROVE  Spec => []LedgerReconciles
  <1>1. OInv /\ [Next]_vars => OInv'
    BY NextKeeps
  <1>2. OInv /\ OInv' /\ StockInv /\ [Next]_vars => StockInv'
    BY NextStock
  <1>3. OInv /\ OInv' /\ StockInv /\ GainInv /\ [Next]_vars => GainInv'
    BY NextGain
  <1>4. OInv /\ StockInv /\ GainInv /\ LedgerInv /\ [Next]_vars => LedgerInv'
    BY NextLedger
  <1>5. Init => OInv /\ StockInv /\ GainInv /\ LedgerInv
    BY InitHolds, InitStock, InitGain, LedgerInit DEF Init
  <1>6. LedgerInv => LedgerReconciles
    BY DEF LedgerInv
  <1> QED BY <1>1, <1>2, <1>3, <1>4, <1>5, <1>6, PTL DEF Spec
=============================================================================
