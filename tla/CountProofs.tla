---------------------------- MODULE CountProofs ----------------------------
(***************************************************************************)
(* Proofs about StockCounts, for any stock, counts, entries and requests,  *)
(* when nothing but enterCounts overlaps on one count: types, and what a   *)
(* count keeps once it is reconciled.  With no race on the stock of an     *)
(* item every handler is one step of AtomicCounts: a reconciliation aligns *)
(* the whole stock of its count or none of it.                             *)
(***************************************************************************)
EXTENDS StockCounts, StockDbProofs, SequenceTheorems, WellFoundedInduction

OnlyEntries == DocRacing \subseteq {"enter"}

Movements == {"adjust", "reserve"}
Op == {"none", "create", "enter", "reconcile"} \cup Movements

\* A request is a record of these fields; a movement is about itself.
Shaped(q) ==
    /\ q = [op |-> q.op, status |-> q.status, doc |-> q.doc, stock |-> q.stock]
    /\ q.op \in Op
    /\ q.status \in {"new", "busy", "ok", "refused", "failed"}
    /\ q.op = "enter" => q.stock = {}

ReqsOK == req = [r \in Request |-> req[r]] /\ \A r \in Request : Shaped(req[r])

Entry == [product : Product, counted : Nat]

\* What a handler remembers; "todo" has the entries to write or the products
\* to compare.
Lines   == UNION {[ps -> Nat] : ps \in SUBSET Product}
Todos   == Seq(Entry) \cup Seq(Product)
JobType == [step : {"none", "create", "enter", "reload", "reconcile", "log"},
            id : Count \cup {"none"}, at : Warehouse \cup {"none"},
            todo : Todos, lines : Lines]

JobOK(j) ==
    /\ j \in JobType
    /\ j.step = "none" => j = NoJob
    /\ j.step = "create" => j.at \in Warehouse
    /\ j.step = "enter" => j.todo \in Seq(Entry)
    /\ j.step = "reconcile" => j.todo \in Seq(Product) /\ IsInjective(j.todo)

Typed ==
    /\ DOMAIN counts = Count /\ \A c \in Count : IsCount(counts[c])
    /\ ReqsOK
    /\ job = [r \in Request |-> job[r]] /\ \A r \in Request : JobOK(job[r])

\* A handler under way is on the count its request named, and two on one count
\* are both allowed to overlap.
Attended ==
    /\ \A r \in Request : job[r].step # "none" =>
          /\ Busy(r) /\ job[r].id \in Count /\ req[r].doc = job[r].id
          /\ job[r].step \notin {"reload", "log"} => req[r].op = job[r].step
          /\ job[r].step = "reload" => req[r].op = "enter"
          /\ job[r].step = "log" => req[r].op \in {"create", "reconcile"}
    /\ \A r \in Request : Busy(r) /\ job[r].step = "none" => req[r].op \in Movements
    /\ \A r, s \in Request : r # s /\ Busy(r) /\ Busy(s) /\ req[r].doc = req[s].doc =>
          {req[r].op, req[s].op} \subseteq DocRacing

\* What a handler checked or read when it loaded its count still holds of count c.
Holds(j, c) ==
    /\ j.step = "create" => c.status = "NONE"
    /\ j.step = "enter" =>
          /\ c.status = "OPEN" /\ DOMAIN j.lines \subseteq DOMAIN c.recorded
          /\ \A n \in DOMAIN j.todo : j.todo[n].product \in DOMAIN c.recorded
    /\ j.step = "reconcile" =>
          /\ c.status = "OPEN" /\ j.lines = c.counted
          /\ \A n \in DOMAIN j.todo : j.todo[n] \in DOMAIN c.counted

Guarded == \A r \in Request : job[r].step # "none" => Holds(job[r], counts[job[r].id])

CInv == Typed /\ Attended /\ Guarded

-----------------------------------------------------------------------------
Elsewhere(r) == \A s \in Request : s # r => req'[s] = req[s] /\ job'[s] = job[s]

\* The two ways to say that f is lines.
LEMMA LinesType ==
  ASSUME NEW f
  PROVE  f \in Lines <=> IsLines(f)
  <1>1. ASSUME f \in Lines PROVE IsLines(f)
    <2>1. PICK ps \in SUBSET Product : f \in [ps -> Nat]
      BY <1>1 DEF Lines
    <2> QED BY <2>1 DEF IsLines
  <1>2. ASSUME IsLines(f) PROVE f \in Lines
    BY <1>2 DEF Lines, IsLines
  <1> QED BY <1>1, <1>2

\* No lines are lines.
LEMMA NoLinesType == NoLines \in Lines /\ DOMAIN NoLines = {}
  BY LinesType DEF IsLines, NoLines

\* What a handler remembers when it has nothing to do.
LEMMA NoJobType == JobOK(NoJob) /\ NoJob.step = "none" /\ NoJob.lines = NoLines
  <1>1. <<>> \in Todos
    BY DEF Todos
  <1> QED BY <1>1, NoLinesType DEF NoJob, JobOK, JobType

\* An answer changes the status of one request, and nothing else of it.
LEMMA AnswerFacts ==
  ASSUME ReqsOK, NEW r \in Request, NEW how \in {"ok", "refused", "failed"}, Answer(r, how)
  PROVE  /\ ReqsOK'
         /\ \A s \in Request : s # r => req'[s] = req[s]
         /\ req'[r].status = how /\ req'[r].op = req[r].op
         /\ req'[r].doc = req[r].doc /\ req'[r].stock = req[r].stock
  <1> DEFINE x == [req[r] EXCEPT !.status = how]
  <1>1. Shaped(req[r])
    BY DEF ReqsOK
  <1>2. /\ Shaped(x) /\ x.status = how /\ x.op = req[r].op
        /\ x.doc = req[r].doc /\ x.stock = req[r].stock
    BY <1>1 DEF Shaped
  <1>3. req' = [req EXCEPT ![r] = x]
    BY DEF Answer
  <1> HIDE DEF x
  <1> QED BY <1>2, <1>3 DEF ReqsOK

\* A request that starts is alone on its document, up to DocRacing, and shares
\* its stock with nobody, up to StockRacing.
LEMMA StartFacts ==
  ASSUME ReqsOK, NEW r \in Request, NEW op \in Op \ {"none"}, NEW doc, NEW stock,
         op = "enter" => stock = {}, Start(r, op, doc, stock)
  PROVE  /\ ReqsOK'
         /\ req[r].status = "new"
         /\ \A s \in Request : s # r => req'[s] = req[s]
         /\ req'[r].status = "busy" /\ req'[r].op = op
         /\ req'[r].doc = doc /\ req'[r].stock = stock
         /\ \A s \in Request : Busy(s) => IF req[s].doc = doc
                                          THEN {op, req[s].op} \subseteq DocRacing
                                          ELSE req[s].stock \cap stock # {} =>
                                                 {op, req[s].op} \subseteq StockRacing
  <1> DEFINE x == [op |-> op, status |-> "busy", doc |-> doc, stock |-> stock]
  <1>1. Shaped(x) /\ x.status = "busy" /\ x.op = op /\ x.doc = doc /\ x.stock = stock
    BY DEF Shaped
  <1>2. req' = [req EXCEPT ![r] = x]
    BY DEF Start
  <1> HIDE DEF x
  <1>3. req[r].status = "new" /\
        \A s \in Request : Busy(s) => IF req[s].doc = doc
                                      THEN {op, req[s].op} \subseteq DocRacing
                                      ELSE req[s].stock \cap stock # {} =>
                                             {op, req[s].op} \subseteq StockRacing
    BY DEF Start, MayStart
  <1> QED BY <1>1, <1>2, <1>3 DEF ReqsOK

\* Setting one handler's memory.
LEMMA JobSet ==
  ASSUME Typed, NEW r \in Request, NEW x, JobOK(x), job' = [job EXCEPT ![r] = x]
  PROVE  /\ job' = [s \in Request |-> job'[s]] /\ \A s \in Request : JobOK(job'[s])
         /\ job'[r] = x /\ \A s \in Request : s # r => job'[s] = job[s]
  BY DEF Typed

\* A handler that is refused, fails, or is done, is out of the way.
LEMMA GoneKeeps ==
  ASSUME CInv, NEW r \in Request, NEW how \in {"ok", "refused", "failed"}, Answer(r, how),
         job' = [job EXCEPT ![r] = NoJob], UNCHANGED counts
  PROVE  CInv'
  <1> USE DEF CInv
  <1>1. /\ ReqsOK' /\ req'[r].status = how
        /\ \A s \in Request : s # r => req'[s] = req[s]
    BY AnswerFacts DEF Typed
  <1>2. /\ job' = [s \in Request |-> job'[s]] /\ \A s \in Request : JobOK(job'[s])
        /\ job'[r].step = "none" /\ \A s \in Request : s # r => job'[s] = job[s]
    BY JobSet, NoJobType
  <1>3. Typed'
    BY <1>1, <1>2 DEF Typed
  <1>4. Attended'
    BY <1>1, <1>2 DEF Attended, Busy
  <1>5. Guarded'
    BY <1>2 DEF Guarded
  <1> QED BY <1>3, <1>4, <1>5

\* A handler that starts on a count has found what it relies on.
LEMMA BeginKeeps ==
  ASSUME CInv, NEW r \in Request, NEW op \in {"create", "enter", "reconcile"}, NEW c \in Count,
         NEW stock, op = "enter" => stock = {}, Start(r, op, c, stock),
         NEW x, JobOK(x), x.step = op, x.id = c, Holds(x, counts[c]),
         job' = [job EXCEPT ![r] = x], UNCHANGED counts
  PROVE  CInv'
  <1> USE DEF CInv
  <1>1. /\ ReqsOK' /\ req[r].status = "new"
        /\ \A s \in Request : s # r => req'[s] = req[s]
        /\ req'[r].status = "busy" /\ req'[r].op = op /\ req'[r].doc = c
        /\ \A s \in Request : Busy(s) /\ req[s].doc = c => {op, req[s].op} \subseteq DocRacing
    BY StartFacts DEF Op, Typed
  <1>2. /\ job' = [s \in Request |-> job'[s]] /\ \A s \in Request : JobOK(job'[s])
        /\ job'[r] = x /\ \A s \in Request : s # r => job'[s] = job[s]
    BY JobSet
  <1>3. Typed'
    BY <1>1, <1>2 DEF Typed
  <1>4. Attended'
    BY <1>1, <1>2 DEF Attended, Busy
  <1>5. Guarded'
    BY <1>2 DEF Guarded
  <1> QED BY <1>3, <1>4, <1>5

\* A handler that goes on, about the same count.
LEMMA AdvanceKeeps ==
  ASSUME CInv, NEW r \in Request, job[r].step # "none", UNCHANGED <<req, counts>>,
         NEW x, JobOK(x), x.id = job[r].id,
         x.step = job[r].step, Holds(x, counts[x.id]), job' = [job EXCEPT ![r] = x]
  PROVE  CInv'
  <1> USE DEF CInv
  <1>1. /\ job' = [s \in Request |-> job'[s]] /\ \A s \in Request : JobOK(job'[s])
        /\ job'[r] = x /\ \A s \in Request : s # r => job'[s] = job[s]
    BY JobSet
  <1>2. Typed'
    BY <1>1 DEF Typed, ReqsOK
  <1>3. Attended'
    BY <1>1 DEF Attended, Busy
  <1>4. Guarded'
    BY <1>1 DEF Guarded
  <1> QED BY <1>2, <1>3, <1>4

\* A handler that writes its count, and has only its answer or an activity row
\* left, when what the others on that count rely on is left.
LEMMA WriteKeeps ==
  ASSUME CInv, NEW r \in Request, NEW c \in Count, c = job[r].id, job[r].step # "none",
         NEW y, IsCount(y), counts' = [counts EXCEPT ![c] = y],
         \A s \in Request : s # r /\ job[s].step # "none" /\ job[s].id = c => Holds(job[s], y),
         UNCHANGED req, NEW x, JobOK(x), x.id = c, job' = [job EXCEPT ![r] = x],
         \/ x.step = "reload" /\ req[r].op = "enter"
         \/ x.step = "log" /\ req[r].op \in {"create", "reconcile"}
  PROVE  CInv'
  <1> USE DEF CInv
  <1>1. /\ job' = [s \in Request |-> job'[s]] /\ \A s \in Request : JobOK(job'[s])
        /\ job'[r] = x /\ \A s \in Request : s # r => job'[s] = job[s]
    BY JobSet
  <1>2. /\ DOMAIN counts' = Count /\ counts'[c] = y
        /\ \A d \in Count : d # c => counts'[d] = counts[d]
    BY DEF Typed
  <1>3. Typed'
    BY <1>1, <1>2 DEF Typed, ReqsOK
  <1>4. Attended'
    BY <1>1 DEF Attended, Busy
  <1>5. Guarded'
    <2> SUFFICES ASSUME NEW s \in Request, job'[s].step # "none"
                 PROVE  Holds(job'[s], counts'[job'[s].id])
      BY DEF Guarded, Holds
    <2>1. CASE s = r
      BY <2>1, <1>1 DEF Holds
    <2>2. CASE s # r /\ job[s].id = c
      BY <2>2, <1>1, <1>2
    <2>3. CASE s # r /\ job[s].id # c
      <3>1. job'[s] = job[s] /\ job[s].id \in Count /\ Holds(job[s], counts[job[s].id])
        BY <2>3, <1>1 DEF Guarded, Attended
      <3> QED BY <3>1, <2>3, <1>2
    <2> QED BY <2>1, <2>2, <2>3
  <1> QED BY <1>3, <1>4, <1>5

\* Nobody else is on the count of a request, except an entry beside an entry.
LEMMA Alone ==
  ASSUME CInv, OnlyEntries, NEW r \in Request, NEW s \in Request, r # s,
         job[r].step # "none", job[s].step # "none", job[s].id = job[r].id
  PROVE  {job[r].step, job[s].step} \subseteq {"enter", "reload"}
  BY DEF CInv, Attended, OnlyEntries

\* The steps of a handler that has only its activity row or its answer left.
LEMMA LogType ==
  ASSUME NEW j, JobOK(j), NEW step \in {"reload", "log"}
  PROVE  /\ JobOK([j EXCEPT !.step = step])
         /\ [j EXCEPT !.step = step].step = step /\ [j EXCEPT !.step = step].id = j.id
  BY DEF JobOK, JobType

-----------------------------------------------------------------------------
\* The lines of counts.

\* Writing lines over others gives lines, of the products of both.
LEMMA OverType ==
  ASSUME NEW f, NEW g, IsLines(f), IsLines(g)
  PROVE  IsLines(Over(f, g)) /\ DOMAIN Over(f, g) = DOMAIN f \cup DOMAIN g
  BY DEF IsLines, Over

\* A count that is created, filled or reconciled is a count.
LEMMA CountFields ==
  ASSUME NEW c, IsCount(c), NEW f, IsLines(f), DOMAIN f \subseteq DOMAIN c.recorded
  PROVE  /\ IsCount([c EXCEPT !.counted = f])
         /\ [c EXCEPT !.counted = f].status = c.status
         /\ [c EXCEPT !.counted = f].recorded = c.recorded
         /\ IsCount([c EXCEPT !.status = "RECONCILED"])
  BY DEF IsCount

-----------------------------------------------------------------------------
\* The actions.

\* The snapshot is of rows, and its count is still to be made.
LEMMA SnapshotKeeps ==
  ASSUME CInv, StockTypeOK, NEW r \in Request, Snapshot(r)
  PROVE  CInv'
  <1>1. PICK c \in Count, w \in Warehouse :
          /\ counts[c].status = "NONE"
          /\ Start(r, "create", c, {<<p, w>> : p \in Product})
          /\ job' = [job EXCEPT ![r] = [@ EXCEPT
                       !.step = "create", !.id = c, !.at = w,
                       !.lines = [p \in Lined(w) |-> rows[<<p, w>>]["available"]]]]
          /\ UNCHANGED counts
    BY DEF Snapshot
  <1> DEFINE f == [p \in Lined(w) |-> rows[<<p, w>>]["available"]]
             x == [job[r] EXCEPT !.step = "create", !.id = c, !.at = w, !.lines = f]
  <1>2. f \in Lines
    <2>1. \A p \in Lined(w) : rows[<<p, w>>]["available"] \in Nat /\ p \in Product
      BY StockAssumption DEF Lined, StockTypeOK, Item, Row, Bucket
    <2> QED BY <2>1, LinesType DEF IsLines
  <1> HIDE DEF f
  <1>3. JobOK(job[r])
    BY DEF CInv, Typed
  <1>4. JobOK(x) /\ x.step = "create" /\ x.id = c /\ Holds(x, counts[c])
    BY <1>1, <1>2, <1>3 DEF JobOK, JobType, Holds
  <1>5. job' = [job EXCEPT ![r] = x]
    BY <1>1 DEF f
  <1> HIDE DEF x
  <1> QED BY <1>1, <1>4, <1>5, BeginKeeps

\* The count is made while its id is unused.
LEMMA CreateKeeps ==
  ASSUME CInv, OnlyEntries, NEW r \in Request, Create(r)
  PROVE  CInv'
  <1>1. PICK c \in Count : c = job[r].id
    BY DEF Create, CInv, Attended
  <1> DEFINE y == [status |-> "OPEN", warehouse |-> job[r].at,
                   recorded |-> job[r].lines, counted |-> NoLines]
             x == [job[r] EXCEPT !.step = "log"]
  <1>2. /\ job[r].step = "create" /\ UNCHANGED req
        /\ counts' = [counts EXCEPT ![c] = y] /\ job' = [job EXCEPT ![r] = x]
    BY <1>1 DEF Create
  <1>3. JobOK(job[r]) /\ req[r].op = "create"
    BY <1>2 DEF CInv, Typed, Attended
  <1>4. JobOK(x) /\ x.step = "log" /\ x.id = c
    BY <1>1, <1>3, LogType
  <1>5. IsCount(y)
    <2>1. job[r].at \in Warehouse /\ IsLines(job[r].lines)
      BY <1>2, <1>3, LinesType DEF JobOK, JobType
    <2>2. IsLines(NoLines) /\ DOMAIN NoLines = {}
      BY NoLinesType, LinesType
    <2> QED BY <2>1, <2>2 DEF IsCount
  <1>6. \A s \in Request : s # r /\ job[s].step # "none" => job[s].id # c
    BY <1>1, <1>2, Alone
  <1> HIDE DEF x, y
  <1> QED BY <1>1, <1>2, <1>3, <1>4, <1>5, <1>6, WriteKeeps

\* Every entry is a line of the open count.
LEMMA LoadEnterKeeps ==
  ASSUME CInv, NEW r \in Request, LoadEnter(r)
  PROVE  CInv'
  <1>1. PICK c \in Count, e \in Entries :
          /\ Allowed(r, "enter", c)
          /\ \A n \in DOMAIN e : e[n].product \in DOMAIN counts[c].recorded
          /\ Start(r, "enter", c, {})
          /\ job' = [job EXCEPT ![r] = [@ EXCEPT !.step = "enter", !.id = c, !.todo = e]]
          /\ UNCHANGED counts
    BY DEF LoadEnter
  <1> DEFINE x == [job[r] EXCEPT !.step = "enter", !.id = c, !.todo = e]
  <1>2. e \in Seq(Entry) /\ counts[c].status = "OPEN"
    BY <1>1, CountsAssumption DEF Allowed, Expected, Entry
  <1>3. req[r].status = "new"
    BY <1>1 DEF Start, MayStart
  <1>4. JobOK(job[r]) /\ job[r].step = "none"
    BY <1>3 DEF CInv, Typed, Attended, Busy
  <1>5. DOMAIN NoLines = {} /\ job[r].lines = NoLines
    BY <1>4, NoJobType, NoLinesType DEF JobOK
  <1>6. JobOK(x) /\ x.step = "enter" /\ x.id = c /\ x.todo = e /\ x.lines = NoLines
    BY <1>2, <1>4, <1>5 DEF JobOK, JobType, Todos
  <1>7. job' = [job EXCEPT ![r] = x]
    BY <1>1
  <1> HIDE DEF x
  <1>8. Holds(x, counts[c])
    BY <1>1, <1>2, <1>5, <1>6 DEF Holds
  <1> QED BY <1>1, <1>6, <1>7, <1>8, BeginKeeps

\* An entry is written over the line it is about.
LEMMA EnterLineKeeps ==
  ASSUME CInv, NEW r \in Request, EnterLine(r)
  PROVE  CInv'
  <1> DEFINE q == job[r].todo
             e == q[1]
             f == [p \in {e.product} |-> e.counted]
             g == Over(f, job[r].lines)
             x == [job[r] EXCEPT !.todo = Tail(q), !.lines = g]
             c == job[r].id
  <1>1. /\ job[r].step = "enter" /\ q # <<>> /\ UNCHANGED <<req, counts>>
        /\ job' = [job EXCEPT ![r] = x]
    BY DEF EnterLine
  <1>2. /\ JobOK(job[r]) /\ Holds(job[r], counts[c]) /\ q \in Seq(Entry)
        /\ IsLines(job[r].lines)
    BY <1>1, LinesType DEF CInv, Typed, Guarded, JobOK, JobType
  <1>3. /\ e \in Entry /\ Tail(q) \in Seq(Entry) /\ 1 \in DOMAIN q
        /\ \A n \in DOMAIN Tail(q) : n + 1 \in DOMAIN q /\ Tail(q)[n] = q[n + 1]
    BY <1>1, <1>2, TailFacts
  <1>4. IsLines(f) /\ DOMAIN f = {e.product}
    BY <1>3 DEF IsLines, Entry
  <1> HIDE DEF f
  <1>5. g \in Lines /\ DOMAIN g = {e.product} \cup DOMAIN job[r].lines
    BY <1>2, <1>4, OverType, LinesType
  <1> HIDE DEF g
  <1>6. /\ JobOK(x) /\ x.step = "enter" /\ x.id = c /\ x.todo = Tail(q) /\ x.lines = g
    BY <1>1, <1>2, <1>3, <1>5 DEF JobOK, JobType, Todos
  <1> HIDE DEF x
  <1>7. Holds(x, counts[c])
    BY <1>1, <1>2, <1>3, <1>5, <1>6 DEF Holds
  <1> QED BY <1>1, <1>6, <1>7, AdvanceKeeps

\* The entries go into a count that is open, beside which only entries run.
LEMMA EnterKeeps ==
  ASSUME CInv, OnlyEntries, NEW r \in Request, Enter(r)
  PROVE  CInv'
  <1>1. PICK c \in Count : c = job[r].id
    BY DEF Enter, CInv, Attended
  <1> DEFINE f == Over(job[r].lines, counts[c].counted)
             y == [counts[c] EXCEPT !.counted = f]
             x == [job[r] EXCEPT !.step = "reload"]
  <1>2. /\ job[r].step = "enter" /\ UNCHANGED req
        /\ counts' = [counts EXCEPT ![c] = y] /\ job' = [job EXCEPT ![r] = x]
    BY <1>1 DEF Enter
  <1>3. /\ JobOK(job[r]) /\ Holds(job[r], counts[c]) /\ IsCount(counts[c])
        /\ req[r].op = "enter"
    BY <1>1, <1>2 DEF CInv, Typed, Guarded, Attended
  <1>4. IsLines(f) /\ DOMAIN f \subseteq DOMAIN counts[c].recorded
    <2>1. IsLines(job[r].lines) /\ DOMAIN job[r].lines \subseteq DOMAIN counts[c].recorded
      BY <1>2, <1>3, LinesType DEF JobOK, JobType, Holds
    <2>2. /\ IsLines(counts[c].counted)
          /\ DOMAIN counts[c].counted \subseteq DOMAIN counts[c].recorded
      BY <1>3 DEF IsCount
    <2> QED BY <2>1, <2>2, OverType
  <1> HIDE DEF f
  <1>5. IsCount(y) /\ y.status = counts[c].status /\ y.recorded = counts[c].recorded
    BY <1>3, <1>4, CountFields
  <1> HIDE DEF y
  <1>6. ASSUME NEW s \in Request, s # r, job[s].step # "none", job[s].id = c
        PROVE  Holds(job[s], y)
    <2>1. job[s].step \in {"enter", "reload"} /\ Holds(job[s], counts[c])
      BY <1>1, <1>2, <1>6, Alone DEF CInv, Guarded
    <2> QED BY <2>1, <1>5 DEF Holds
  <1>7. JobOK(x) /\ x.step = "reload" /\ x.id = c
    BY <1>1, <1>3, LogType
  <1> HIDE DEF x
  <1> QED BY <1>1, <1>2, <1>3, <1>5, <1>6, <1>7, WriteKeeps

\* A reconciliation takes the counted lines of an open count.
LEMMA LoadReconcileKeeps ==
  ASSUME CInv, NEW r \in Request, LoadReconcile(r)
  PROVE  CInv'
  <1>1. PICK c \in Count :
          /\ Allowed(r, "reconcile", c)
          /\ Start(r, "reconcile", c, Items(c))
          /\ job' = [job EXCEPT ![r] = [@ EXCEPT
                       !.step = "reconcile", !.id = c, !.lines = counts[c].counted,
                       !.todo = ByName[DOMAIN counts[c].counted]]]
          /\ UNCHANGED counts
    BY DEF LoadReconcile
  <1> DEFINE f == counts[c].counted
             q == ByName[DOMAIN f]
             x == [job[r] EXCEPT !.step = "reconcile", !.id = c, !.lines = f, !.todo = q]
  <1>2. IsCount(counts[c]) /\ JobOK(job[r]) /\ counts[c].status = "OPEN"
    BY <1>1 DEF CInv, Typed, Allowed, Expected
  <1>3. IsLines(f) /\ DOMAIN f \in SUBSET Product
    BY <1>2 DEF IsCount, IsLines
  <1>4. q \in Seq(DOMAIN f) /\ IsInjective(q)
    BY <1>3, CountsAssumption
  <1>5. q \in Seq(Product) /\ \A n \in DOMAIN q : q[n] \in DOMAIN f
    <2>1. DOMAIN q = 1 .. Len(q)
      BY <1>4, LenProperties
    <2> QED BY <2>1, <1>3, <1>4, SeqMonotonic, ElementOfSeq
  <1>6. job' = [job EXCEPT ![r] = x]
    BY <1>1
  <1> HIDE DEF q
  <1>7. JobOK(x) /\ x.step = "reconcile" /\ x.id = c /\ x.lines = f /\ x.todo = q
    BY <1>2, <1>3, <1>4, <1>5, LinesType DEF JobOK, JobType, Todos
  <1> HIDE DEF x
  <1>8. Holds(x, counts[c])
    BY <1>2, <1>5, <1>7 DEF Holds
  <1> QED BY <1>1, <1>6, <1>7, <1>8, BeginKeeps

\* The next line is compared.
LEMMA CompareLineKeeps ==
  ASSUME CInv, NEW r \in Request, CompareLine(r)
  PROVE  CInv'
  <1> DEFINE q == job[r].todo
             x == [job[r] EXCEPT !.todo = Tail(@)]
             c == job[r].id
  <1>1. /\ job[r].step = "reconcile" /\ q # <<>> /\ UNCHANGED <<req, counts>>
        /\ job' = [job EXCEPT ![r] = x]
    BY DEF CompareLine
  <1>2. /\ JobOK(job[r]) /\ Holds(job[r], counts[c]) /\ q \in Seq(Product) /\ IsInjective(q)
    BY <1>1 DEF CInv, Typed, Guarded, JobOK
  <1>3. /\ Tail(q) \in Seq(Product) /\ IsInjective(Tail(q))
        /\ \A n \in DOMAIN Tail(q) : n + 1 \in DOMAIN q /\ Tail(q)[n] = q[n + 1]
    BY <1>1, <1>2, TailFacts
  <1>4. /\ JobOK(x) /\ x.step = "reconcile" /\ x.id = c /\ x.todo = Tail(q)
        /\ x.lines = job[r].lines
    BY <1>1, <1>2, <1>3 DEF JobOK, JobType, Todos
  <1> HIDE DEF x
  <1>5. Holds(x, counts[c])
    BY <1>1, <1>2, <1>3, <1>4 DEF Holds
  <1> QED BY <1>1, <1>4, <1>5, AdvanceKeeps

\* The count is marked by its id, while nobody else is on it.
LEMMA ReconcileKeeps ==
  ASSUME CInv, OnlyEntries, NEW r \in Request, Reconcile(r)
  PROVE  CInv'
  <1>1. PICK c \in Count : c = job[r].id
    BY DEF Reconcile, CInv, Attended
  <1> DEFINE y == [counts[c] EXCEPT !.status = "RECONCILED"]
             x == [job[r] EXCEPT !.step = "log"]
  <1>2. /\ job[r].step = "reconcile" /\ UNCHANGED req
        /\ counts' = [counts EXCEPT ![c] = y] /\ job' = [job EXCEPT ![r] = x]
    BY <1>1 DEF Reconcile
  <1>3. JobOK(job[r]) /\ req[r].op = "reconcile" /\ IsCount(counts[c])
    BY <1>2 DEF CInv, Typed, Attended
  <1>4. JobOK(x) /\ x.step = "log" /\ x.id = c
    BY <1>1, <1>3, LogType
  <1>5. IsCount(y)
    BY <1>3 DEF IsCount
  <1>6. \A s \in Request : s # r /\ job[s].step # "none" => job[s].id # c
    BY <1>1, <1>2, Alone
  <1> HIDE DEF x, y
  <1> QED BY <1>1, <1>2, <1>3, <1>4, <1>5, <1>6, WriteKeeps

\* A guard that refuses a request that starts nothing.
LEMMA RejectKeeps ==
  ASSUME CInv, NEW r \in Request, Reject(r)
  PROVE  CInv'
  <1>1. req[r].status = "new" /\ Answer(r, "refused") /\ UNCHANGED <<counts, job>>
    BY DEF Reject
  <1>2. job[r] = NoJob /\ job = [s \in Request |-> job[s]]
    BY <1>1 DEF CInv, Typed, Attended, Busy, JobOK
  <1>3. job' = [job EXCEPT ![r] = NoJob]
    BY <1>1, <1>2
  <1> QED BY <1>1, <1>3, GoneKeeps

-----------------------------------------------------------------------------
\* The requests of Inventory, through the instance that StockCounts makes of it.

\* A movement that starts posts one change of one item.
Posts(r, op, m) ==
    /\ Start(r, op, r, {m.item})
    /\ tx' = [tx EXCEPT ![r] = Pending(<<m>>)]
    /\ UNCHANGED <<rows, ledger, alerts>>

\* A movement that has committed answers.
Replies(r) == /\ Busy(r) /\ ~tx[r].open /\ Answer(r, "ok")
              /\ UNCHANGED <<rows, ledger, alerts, tx, stocked>>

\* AtomicCounts speaks of the same items, rows and deltas.
LEMMA SameWords ==
  /\ Atomic!Item = Item
  /\ \A a, b : Atomic!Plus(a, b) = Plus(a, b) /\ Atomic!Minus(a, b) = Minus(a, b)
  /\ \A a : Atomic!Fits(a) = Fits(a)
  /\ \A k, q : Atomic!Only(k, q) = Only(k, q)
  /\ \A k, l, q : Atomic!Shift(k, l, q) = Shift(k, l, q)
  /\ Atomic!NoLines = NoLines
  <1>1. Atomic!Item = Item /\ Atomic!Zero = Zero /\ Atomic!Bucket = Bucket
    BY DEF Atomic!Item, Item, Atomic!Zero, Zero, Atomic!Bucket, Bucket
  <1>2. \A a, b : Atomic!Plus(a, b) = Plus(a, b) /\ Atomic!Minus(a, b) = Minus(a, b)
    BY <1>1 DEF Atomic!Plus, Plus, Atomic!Minus, Minus
  <1>3. \A a : Atomic!Fits(a) = Fits(a)
    BY <1>1 DEF Atomic!Fits, Fits, Atomic!Total, Total
  <1>4. /\ \A k, q : Atomic!Only(k, q) = Only(k, q)
        /\ \A k, l, q : Atomic!Shift(k, l, q) = Shift(k, l, q)
    BY <1>1 DEF Atomic!Only, Only, Atomic!Shift, Shift
  <1>5. Atomic!NoLines = NoLines
    BY DEF Atomic!NoLines, NoLines
  <1> QED BY <1>1, <1>2, <1>3, <1>4, <1>5

\* An adjustment.
LEMMA AdjustPosts ==
  ASSUME NEW r \in Request, Inv!Adjust(r)
  PROVE  \E m \in Move : Posts(r, "adjust", m) /\ Atomic!Booking(m.delta)
  <1>1. PICK i \in Item, k \in Inv!Adjustable, q \in Inv!Quantity, sign \in {-1, 1} :
          Inv!Post(r, "adjust", [item |-> i, delta |-> Inv!Only(k, sign * q)])
    BY DEF Inv!Adjust, Inv!Item, Item
  <1> DEFINE m == [item |-> i, delta |-> Only(k, sign * q)]
  <1>2. sign * q \in Int /\ k \in Bucket
    BY CountsAssumption DEF Inv!Quantity, Inv!Adjustable, Bucket
  <1>3. m \in Move
    BY <1>2, OnlyType DEF Move
  <1>4. Inv!Only(k, sign * q) = Only(k, sign * q)
    BY DEF Inv!Only, Only, Inv!Zero, Zero, Inv!Bucket, Bucket
  <1>5. Inv!Post(r, "adjust", m)
    BY <1>1, <1>4
  <1> HIDE DEF m
  <1>6. Posts(r, "adjust", m)
    BY <1>5 DEF Posts, Inv!Post, Inv!Start, Start, Inv!MayStart, MayStart, Inv!Busy, Busy,
                Inv!Pending, Pending, Inv!NoTx, NoTx, Inv!Zero, Zero, Inv!Bucket, Bucket,
                Inv!Item, Item
  <1>7. Atomic!Booking(m.delta)
    <2>1. q \in 1 .. MaxQuantity /\ k \in {"available", "damaged"}
      BY DEF Inv!Quantity, Inv!Adjustable
    <2>2. sign * q = q \/ sign * q = -q
      BY <2>1, CountsAssumption
    <2>3. m.delta = Only(k, sign * q)
      BY DEF m
    <2> QED BY <2>1, <2>2, <2>3, SameWords DEF Atomic!Booking
  <1> QED BY <1>3, <1>6, <1>7

\* A reservation.
LEMMA ReservePosts ==
  ASSUME NEW r \in Request, Inv!Reserve(r)
  PROVE  \E m \in Move : Posts(r, "reserve", m) /\ Atomic!Booking(m.delta)
  <1>1. PICK i \in Item, q \in Inv!Quantity :
          Inv!Post(r, "reserve",
                   [item |-> i, delta |-> Inv!Shift("available", "reserved", q)])
    BY DEF Inv!Reserve, Inv!Item, Item
  <1> DEFINE m == [item |-> i, delta |-> Shift("available", "reserved", q)]
  <1>2. q \in Int /\ {"available", "reserved"} \subseteq Bucket
    BY CountsAssumption DEF Inv!Quantity, Bucket
  <1>3. m \in Move
    BY <1>2, ShiftType DEF Move
  <1>4. Inv!Shift("available", "reserved", q) = Shift("available", "reserved", q)
    BY DEF Inv!Shift, Shift, Inv!Zero, Zero, Inv!Bucket, Bucket
  <1>5. Inv!Post(r, "reserve", m)
    BY <1>1, <1>4
  <1> HIDE DEF m
  <1>6. Posts(r, "reserve", m)
    BY <1>5 DEF Posts, Inv!Post, Inv!Start, Start, Inv!MayStart, MayStart, Inv!Busy, Busy,
                Inv!Pending, Pending, Inv!NoTx, NoTx, Inv!Zero, Zero, Inv!Bucket, Bucket,
                Inv!Item, Item
  <1>7. Atomic!Booking(m.delta)
    <2>1. q \in 1 .. MaxQuantity
      BY DEF Inv!Quantity
    <2>2. m.delta = Shift("available", "reserved", q)
      BY DEF m
    <2> QED BY <2>1, <2>2, SameWords DEF Atomic!Booking
  <1> QED BY <1>3, <1>6, <1>7

\* The commit of either.
LEMMA CommitInstalls ==
  ASSUME NEW r \in Request, Inv!Commit(r)
  PROVE  Install(r) /\ UNCHANGED req
  BY DEF Inv!Commit, Inv!Install, Install, Inv!Answer, Answer, Inv!View, View, Inv!Plus, Plus,
         Inv!NoTx, NoTx, Inv!Zero, Zero, Inv!Bucket, Bucket, Inv!Item, Item

\* The answer of either, once it has committed.
LEMMA ReplyAnswers ==
  ASSUME NEW r \in Request, Inv!Reply(r)
  PROVE  /\ Busy(r) /\ ~tx[r].open /\ Answer(r, "ok")
         /\ UNCHANGED <<rows, ledger, alerts, tx>>
  BY DEF Inv!Reply, Inv!Answer, Answer, Inv!Busy, Busy

\* So a movement posts, runs its transaction, commits, or answers.
LEMMA MovementSteps ==
  ASSUME NEW r \in Request, Movement(r)
  PROVE  /\ job[r].step = "none" /\ UNCHANGED <<counts, job, trail>>
         /\ \/ /\ \E op \in Movements, m \in Move : Posts(r, op, m) /\ Atomic!Booking(m.delta)
               /\ UNCHANGED stocked
            \/ (ReadItem(r) \/ WriteItem(r) \/ Refuse(r)) /\ UNCHANGED stocked
            \/ Install(r) /\ UNCHANGED req /\ stocked' = stocked \cup tx[r].held
            \/ Replies(r)
  BY AdjustPosts, ReservePosts, CommitInstalls, ReplyAnswers DEF Movement, Movements, Replies

\* A movement starts beside the counts.
LEMMA PostKeeps ==
  ASSUME CInv, NEW r \in Request, NEW op \in Movements, NEW m \in Move,
         Posts(r, op, m), UNCHANGED <<counts, job>>
  PROVE  CInv'
  <1> USE DEF CInv
  <1>1. /\ ReqsOK' /\ req[r].status = "new"
        /\ \A s \in Request : s # r => req'[s] = req[s]
        /\ req'[r].status = "busy" /\ req'[r].op = op /\ req'[r].doc = r
        /\ \A s \in Request : Busy(s) /\ req[s].doc = r => {op, req[s].op} \subseteq DocRacing
    BY StartFacts DEF Op, Movements, Posts, Typed
  <1>2. job[r].step = "none"
    BY <1>1 DEF Attended, Busy
  <1>3. Typed'
    BY <1>1 DEF Typed
  <1>4. Attended'
    BY <1>1, <1>2 DEF Attended, Busy
  <1>5. Guarded'
    BY DEF Guarded
  <1> QED BY <1>3, <1>4, <1>5

\* A movement that is refused or done.
LEMMA EndKeeps ==
  ASSUME CInv, NEW r \in Request, job[r].step = "none",
         NEW how \in {"ok", "refused", "failed"}, Answer(r, how), UNCHANGED <<counts, job>>
  PROVE  CInv'
  <1>1. job[r] = NoJob /\ job = [s \in Request |-> job[s]]
    BY DEF CInv, Typed, JobOK
  <1>2. job' = [job EXCEPT ![r] = NoJob]
    BY <1>1
  <1> QED BY <1>2, GoneKeeps

\* A step of the stock alone.
LEMMA IdleKeeps ==
  ASSUME CInv, UNCHANGED <<req, job, counts>>
  PROVE  CInv'
  BY DEF CInv, Typed, ReqsOK, Attended, Busy, Guarded

\* A line is posted, or refused with its reconciliation.
LEMMA PostLineKeeps ==
  ASSUME CInv, NEW r \in Request, PostLine(r)
  PROVE  CInv'
  <1>1. CASE UNCHANGED <<req, job, counts>>
    BY <1>1, IdleKeeps
  <1>2. CASE Refuse(r) /\ job' = [job EXCEPT ![r] = NoJob] /\ UNCHANGED counts
    BY <1>2, GoneKeeps DEF Refuse
  <1> QED BY <1>1, <1>2 DEF PostLine, ReadItem, WriteItem

\* The movements of InventoryService.
LEMMA MovementKeeps ==
  ASSUME CInv, NEW r \in Request, Movement(r)
  PROVE  CInv'
  <1>1. job[r].step = "none" /\ UNCHANGED <<counts, job>>
    BY MovementSteps
  <1>2. CASE \E op \in Movements, m \in Move : Posts(r, op, m)
    BY <1>1, <1>2, PostKeeps
  <1>3. CASE ReadItem(r) \/ WriteItem(r)
    BY <1>1, <1>3, IdleKeeps DEF ReadItem, WriteItem
  <1>4. CASE Refuse(r)
    BY <1>1, <1>4, EndKeeps DEF Refuse
  <1>5. CASE Install(r) /\ UNCHANGED req
    BY <1>1, <1>5, IdleKeeps
  <1>6. CASE Replies(r)
    BY <1>1, <1>6, EndKeeps DEF Replies
  <1> QED BY <1>2, <1>3, <1>4, <1>5, <1>6, MovementSteps

\* The activity row is written, or the count loaded, and the request answered.
LEMMA LogKeeps ==
  ASSUME CInv, NEW r \in Request, Log(r) \/ Reload(r)
  PROVE  CInv'
  BY GoneKeeps DEF Log, Reload

\* Nobody has started.
LEMMA InitHolds == Init => CInv
  <1> SUFFICES ASSUME Init PROVE CInv
    OBVIOUS
  <1>1. counts = OpeningCounts /\ DOMAIN counts = Count /\ \A c \in Count : IsCount(counts[c])
    BY CountsAssumption DEF Init
  <1>2. req = [r \in Request |-> NewRequest] /\ job = [r \in Request |-> NoJob]
    BY DEF Init, StockInit
  <1>3. Shaped(NewRequest) /\ NewRequest.status = "new"
    BY DEF Shaped, NewRequest, Op
  <1>4. Typed
    BY <1>1, <1>2, <1>3, NoJobType DEF Typed, ReqsOK
  <1>5. \A r \in Request : job[r].step = "none" /\ req[r].status = "new"
    BY <1>2, <1>3, NoJobType
  <1> QED BY <1>4, <1>5 DEF CInv, Attended, Guarded, Busy

\* One case for every action of Next.
LEMMA NextKeeps ==
  ASSUME CInv, StockTypeOK, OnlyEntries, [Next]_vars
  PROVE  CInv'
  <1>1. CASE UNCHANGED vars
    BY <1>1, IdleKeeps DEF vars
  <1>2. ASSUME NEW r \in Request, Snapshot(r) \/ LoadEnter(r) \/ LoadReconcile(r) \/ Reject(r)
        PROVE  CInv'
    BY <1>2, SnapshotKeeps, LoadEnterKeeps, LoadReconcileKeeps, RejectKeeps
  <1>3. ASSUME NEW r \in Request, Create(r) \/ EnterLine(r) \/ Enter(r) \/ Reload(r)
        PROVE  CInv'
    BY <1>3, CreateKeeps, EnterLineKeeps, EnterKeeps, LogKeeps
  <1>4. ASSUME NEW r \in Request, CompareLine(r) \/ PostLine(r) \/ Reconcile(r) \/ Log(r)
        PROVE  CInv'
    BY <1>4, CompareLineKeeps, PostLineKeeps, ReconcileKeeps, LogKeeps
  <1>5. ASSUME NEW r \in Request, Movement(r)
        PROVE  CInv'
    BY <1>5, MovementKeeps
  <1>6. ASSUME NEW r \in Request, Fail(r)
        PROVE  CInv'
    BY <1>6, GoneKeeps DEF Fail, Abort
  <1> QED BY <1>1, <1>2, <1>3, <1>4, <1>5, <1>6 DEF Next, Serve, Quiet

-----------------------------------------------------------------------------
\* The stock side: types, range, and who has a transaction open.
OpenFor(r) ==
    /\ tx[r].open => Busy(r) /\ job[r].step \in {"none", "reconcile"}
    /\ job[r].step = "reconcile" => tx[r].open
    /\ ~tx[r].open => tx[r] = NoTx

StockInv == /\ StockTypeOK /\ RangeInv
            /\ stocked \subseteq Item
            /\ \A r \in Request : OpenFor(r)

\* A step of r that leaves the other requests, handlers and transactions.
LEMMA OpenStep ==
  ASSUME StockInv, StockTypeOK', RangeInv', stocked' \subseteq Item,
         NEW r \in Request, OpenFor(r)',
         \A s \in Request : s # r => job'[s] = job[s] /\ req'[s] = req[s] /\ tx'[s] = tx[s]
  PROVE  StockInv'
  BY DEF StockInv, OpenFor, Busy

\* A movement that has committed has no transaction to end.
LEMMA RepliesClosed ==
  ASSUME StockInv, NEW r \in Request, Replies(r)
  PROVE  tx[r] = NoTx /\ tx' = [tx EXCEPT ![r] = NoTx] /\ UNCHANGED <<rows, stocked>>
  BY DEF Replies, StockInv, StockTypeOK, OpenFor

\* What the record of a transaction that has just been set says.
LEMMA TxSet ==
  ASSUME StockTypeOK, NEW r \in Request, NEW u, tx' = [tx EXCEPT ![r] = u]
  PROVE  tx'[r] = u /\ \A s \in Request : s # r => tx'[s] = tx[s]
  BY DEF StockTypeOK

\* A request that has not started, or is about a count but reconciles none.
LEMMA ClosedTx ==
  ASSUME CInv, StockInv, NEW r \in Request,
         ~Busy(r) \/ job[r].step \in {"create", "enter", "reload", "log"}
  PROVE  tx[r] = NoTx /\ ~tx[r].open
  BY DEF StockInv, OpenFor

\* Who is concerned by a step of r.
LEMMA OthersStay ==
  ASSUME CInv, NEW r \in Request
  PROVE  /\ \A x : job' = [job EXCEPT ![r] = x] =>
              job'[r] = x /\ \A s \in Request : s # r => job'[s] = job[s]
         /\ \A how \in {"ok", "refused", "failed"} : Answer(r, how) =>
              req'[r].status = how /\ \A s \in Request : s # r => req'[s] = req[s]
         /\ \A op \in Op \ {"none"} : \A doc, stock :
              Start(r, op, doc, stock) /\ (op = "enter" => stock = {}) =>
                 /\ req[r].status = "new" /\ req'[r].status = "busy"
                 /\ \A s \in Request : s # r => req'[s] = req[s]
  <1>1. job = [s \in Request |-> job[s]] /\ ReqsOK
    BY DEF CInv, Typed
  <1> QED BY <1>1, AnswerFacts, StartFacts

\* The types of the tables when a step leaves them and sets one transaction.
LEMMA TablesStay ==
  ASSUME StockInv, CInv', UNCHANGED <<rows, ledger, alerts>>,
         NEW r \in Request, NEW u \in TxType, tx' = [tx EXCEPT ![r] = u],
         \A i \in u.held : Fits(u.after[i])
  PROVE  StockTypeOK' /\ RangeInv'
  <1>1. /\ DOMAIN req' = Request
        /\ \A s \in Request : req'[s].status \in {"new", "busy", "ok", "refused", "failed"}
    BY DEF CInv, Typed, ReqsOK, Shaped
  <1>2. tx' \in [Request -> TxType] /\ tx'[r] = u /\ \A s \in Request : s # r => tx'[s] = tx[s]
    BY DEF StockInv, StockTypeOK
  <1> QED BY <1>1, <1>2 DEF StockInv, StockTypeOK, RangeInv, StockInRange

\* A step that opens no transaction, of a request that has none.
LEMMA ClosedStays ==
  ASSUME CInv, CInv', StockInv, UNCHANGED <<rows, ledger, alerts, tx, stocked>>,
         NEW r \in Request, tx[r] = NoTx, ~tx[r].open, job'[r].step # "reconcile",
         \A s \in Request : s # r => job'[s] = job[s] /\ req'[s] = req[s]
  PROVE  StockInv'
  <1>1. NoTx \in TxType /\ NoTx.held = {} /\ tx' = [tx EXCEPT ![r] = NoTx]
    BY NoTxType DEF NoTx, StockInv, StockTypeOK
  <1>2. StockTypeOK' /\ RangeInv'
    BY <1>1, TablesStay
  <1>3. OpenFor(r)' /\ stocked' \subseteq Item /\ \A s \in Request : s # r => tx'[s] = tx[s]
    BY DEF OpenFor, StockInv
  <1> QED BY <1>2, <1>3, OpenStep

\* A request that opens its transaction with these moves.
LEMMA OpensStock ==
  ASSUME CInv, CInv', StockInv, UNCHANGED <<rows, ledger, alerts, stocked>>,
         NEW r \in Request, NEW moves \in Seq(Move), tx' = [tx EXCEPT ![r] = Pending(moves)],
         Busy(r)', job'[r].step \in {"none", "reconcile"},
         \A s \in Request : s # r => job'[s] = job[s] /\ req'[s] = req[s]
  PROVE  StockInv'
  <1> DEFINE u == Pending(moves)
  <1>1. u \in TxType /\ u.open /\ u.held = {}
    BY PendingType DEF Pending, NoTx
  <1>2. tx' = [tx EXCEPT ![r] = u]
    OBVIOUS
  <1> HIDE DEF u
  <1>3. StockTypeOK' /\ RangeInv'
    BY <1>1, <1>2, TablesStay
  <1>4. tx'[r] = u /\ \A s \in Request : s # r => tx'[s] = tx[s]
    BY <1>2, TxSet DEF StockInv
  <1>5. OpenFor(r)' /\ stocked' \subseteq Item
    BY <1>1, <1>4 DEF OpenFor, StockInv
  <1> QED BY <1>3, <1>4, <1>5, OpenStep

\* The statements about the tables of the counts: r starts, goes on or ends.
Outside(r) == \/ Snapshot(r) \/ Create(r) \/ LoadEnter(r) \/ EnterLine(r) \/ Enter(r)
              \/ Reload(r) \/ Log(r) \/ Reject(r)

\* They touch neither stock nor transactions nor another handler.
LEMMA OutsideSteps ==
  ASSUME CInv, StockInv, NEW r \in Request, Outside(r)
  PROVE  /\ UNCHANGED <<rows, ledger, alerts, tx, stocked>>
         /\ tx[r] = NoTx /\ ~tx[r].open /\ job'[r].step # "reconcile"
         /\ \A s \in Request : s # r => job'[s] = job[s] /\ req'[s] = req[s]
         /\ \/ \E op \in Op \ {"none"} : \E doc, stock :
                  Start(r, op, doc, stock) /\ (op = "enter" => stock = {})
            \/ Busy(r) /\ UNCHANGED req
            \/ ~Busy(r)'
  <1> USE DEF CInv
  <1>1. CASE Snapshot(r)
    <2>1. PICK c \in Count, w \in Warehouse :
            /\ Start(r, "create", c, {<<p, w>> : p \in Product})
            /\ job' = [job EXCEPT ![r] = [@ EXCEPT
                         !.step = "create", !.id = c, !.at = w,
                         !.lines = [p \in Lined(w) |-> rows[<<p, w>>]["available"]]]]
            /\ UNCHANGED <<rows, ledger, alerts, tx, stocked>>
      BY <1>1 DEF Snapshot
    <2>2. req[r].status = "new" /\ \A s \in Request : s # r => req'[s] = req[s]
      BY <2>1, OthersStay DEF Op
    <2>3. job'[r].step = "create" /\ \A s \in Request : s # r => job'[s] = job[s]
      BY <2>1 DEF Typed, JobOK, JobType
    <2>4. tx[r] = NoTx /\ ~tx[r].open
      BY <2>2, ClosedTx DEF Busy
    <2>5. \E op \in Op \ {"none"} : \E doc, stock :
            Start(r, op, doc, stock) /\ (op = "enter" => stock = {})
      BY <2>1 DEF Op
    <2> QED BY <2>1, <2>2, <2>3, <2>4, <2>5
  <1>2. CASE Create(r)
    <2>1. /\ job[r].step = "create" /\ job' = [job EXCEPT ![r].step = "log"]
          /\ UNCHANGED <<rows, ledger, alerts, tx, req, stocked>>
      BY <1>2 DEF Create
    <2>2. job'[r].step = "log" /\ \A s \in Request : s # r => job'[s] = job[s]
      BY <2>1 DEF Typed, JobOK, JobType
    <2>3. tx[r] = NoTx /\ ~tx[r].open
      BY <2>1, ClosedTx
    <2>4. Busy(r)
      BY <2>1 DEF Attended
    <2> QED BY <2>1, <2>2, <2>3, <2>4
  <1>3. CASE LoadEnter(r)
    <2>1. PICK c \in Count, e \in Entries :
            /\ Start(r, "enter", c, {})
            /\ job' = [job EXCEPT ![r] = [@ EXCEPT !.step = "enter", !.id = c, !.todo = e]]
            /\ UNCHANGED <<rows, ledger, alerts, tx, stocked>>
      BY <1>3 DEF LoadEnter
    <2>2. req[r].status = "new" /\ \A s \in Request : s # r => req'[s] = req[s]
      BY <2>1, OthersStay DEF Op
    <2>3. job'[r].step = "enter" /\ \A s \in Request : s # r => job'[s] = job[s]
      BY <2>1 DEF Typed, JobOK, JobType
    <2>4. tx[r] = NoTx /\ ~tx[r].open
      BY <2>2, ClosedTx DEF Busy
    <2>5. \E op \in Op \ {"none"} : \E doc, stock :
            Start(r, op, doc, stock) /\ (op = "enter" => stock = {})
      BY <2>1 DEF Op
    <2> QED BY <2>1, <2>2, <2>3, <2>4, <2>5
  <1>4. CASE EnterLine(r)
    <2>1. /\ job[r].step = "enter" /\ UNCHANGED <<rows, ledger, alerts, tx, req, stocked>>
          /\ \E g : job' = [job EXCEPT ![r] = [job[r] EXCEPT !.todo = Tail(@), !.lines = g]]
      BY <1>4 DEF EnterLine
    <2>2. PICK g : job' = [job EXCEPT ![r] = [job[r] EXCEPT !.todo = Tail(@), !.lines = g]]
      BY <2>1
    <2>3. [job[r] EXCEPT !.todo = Tail(@), !.lines = g].step = "enter"
      BY <2>1 DEF Typed, JobOK, JobType
    <2>4. job'[r].step = "enter" /\ \A s \in Request : s # r => job'[s] = job[s]
      BY <2>2, <2>3, OthersStay
    <2>5. tx[r] = NoTx /\ ~tx[r].open
      BY <2>1, ClosedTx
    <2>6. Busy(r)
      BY <2>1 DEF Attended
    <2> QED BY <2>1, <2>4, <2>5, <2>6
  <1>5. CASE Enter(r)
    <2>1. /\ job[r].step = "enter" /\ job' = [job EXCEPT ![r].step = "reload"]
          /\ UNCHANGED <<rows, ledger, alerts, tx, req, stocked>>
      BY <1>5 DEF Enter
    <2>2. job'[r].step = "reload" /\ \A s \in Request : s # r => job'[s] = job[s]
      BY <2>1 DEF Typed, JobOK, JobType
    <2>3. tx[r] = NoTx /\ ~tx[r].open
      BY <2>1, ClosedTx
    <2>4. Busy(r)
      BY <2>1 DEF Attended
    <2> QED BY <2>1, <2>2, <2>3, <2>4
  <1>6. CASE Reload(r) \/ Log(r)
    <2>1. /\ job[r].step \in {"reload", "log"} /\ job' = [job EXCEPT ![r] = NoJob]
          /\ Answer(r, "ok") /\ UNCHANGED <<rows, ledger, alerts, tx, stocked>>
      BY <1>6 DEF Reload, Log
    <2>2. /\ job'[r].step = "none"
          /\ \A s \in Request : s # r => job'[s] = job[s] /\ req'[s] = req[s]
      BY <2>1, OthersStay, NoJobType
    <2>3. tx[r] = NoTx /\ ~tx[r].open
      BY <2>1, ClosedTx
    <2>4. ~Busy(r)'
      BY <2>1, OthersStay DEF Busy
    <2> QED BY <2>1, <2>2, <2>3, <2>4
  <1>7. CASE Reject(r)
    <2>1. /\ req[r].status = "new" /\ Answer(r, "refused")
          /\ UNCHANGED <<rows, ledger, alerts, tx, stocked, job>>
      BY <1>7 DEF Reject
    <2>2. job[r].step = "none" /\ \A s \in Request : s # r => req'[s] = req[s]
      BY <2>1, OthersStay DEF Attended, Busy
    <2>3. tx[r] = NoTx /\ ~tx[r].open
      BY <2>1, ClosedTx DEF Busy
    <2>4. ~Busy(r)'
      BY <2>1, OthersStay DEF Busy
    <2> QED BY <2>1, <2>2, <2>3, <2>4
  <1> QED BY <1>1, <1>2, <1>3, <1>4, <1>5, <1>6, <1>7 DEF Outside

\* They do not touch the stock.
LEMMA OutsideStock ==
  ASSUME CInv, CInv', StockInv, NEW r \in Request, Outside(r)
  PROVE  StockInv'
  BY OutsideSteps, ClosedStays

\* A reconciliation opens a transaction with nothing to post yet.
LEMMA LoadReconcileStock ==
  ASSUME CInv, CInv', StockInv, NEW r \in Request, LoadReconcile(r)
  PROVE  StockInv'
  <1>1. PICK c \in Count :
          /\ Start(r, "reconcile", c, Items(c))
          /\ job' = [job EXCEPT ![r] = [@ EXCEPT
                       !.step = "reconcile", !.id = c, !.lines = counts[c].counted,
                       !.todo = ByName[DOMAIN counts[c].counted]]]
          /\ tx' = [tx EXCEPT ![r] = Pending(<<>>)]
          /\ UNCHANGED <<rows, ledger, alerts, stocked>>
    BY DEF LoadReconcile
  <1>2. Busy(r)' /\ \A s \in Request : s # r => req'[s] = req[s]
    BY <1>1, OthersStay DEF Op, Busy
  <1>3. job'[r].step = "reconcile" /\ \A s \in Request : s # r => job'[s] = job[s]
    BY <1>1 DEF CInv, Typed, JobOK, JobType
  <1>4. <<>> \in Seq(Move)
    OBVIOUS
  <1> QED BY <1>1, <1>2, <1>3, <1>4, OpensStock

\* The difference of a line is a movement of its item.
LEMMA ComparedMove ==
  ASSUME CInv, StockInv, NEW r \in Request, job[r].step = "reconcile", job[r].todo # <<>>
  PROVE  LET p == job[r].todo[1]
             i == <<p, counts[job[r].id].warehouse>>
         IN  /\ p \in DOMAIN job[r].lines /\ i \in Item
             /\ job[r].lines[p] \in Nat /\ Difference(r, p) \in Int
             /\ [item |-> i, delta |-> Only("available", Difference(r, p))] \in Move
  <1> DEFINE p == job[r].todo[1]
             i == <<p, counts[job[r].id].warehouse>>
  <1>1. /\ JobOK(job[r]) /\ Holds(job[r], counts[job[r].id]) /\ IsCount(counts[job[r].id])
        /\ job[r].todo \in Seq(Product)
    BY DEF CInv, Typed, Guarded, Attended, JobOK
  <1>2. p \in Product /\ p \in DOMAIN job[r].lines
    BY <1>1, TailFacts DEF Holds
  <1>3. i \in Item
    BY <1>1, <1>2 DEF IsCount, Item
  <1>4. job[r].lines[p] \in Nat
    BY <1>1, <1>2, LinesType DEF JobOK, JobType, IsLines
  <1>5. View(r, i)["available"] \in Int
    BY <1>3, ViewType, StockAssumption DEF StockInv, Row, Bucket
  <1>6. Difference(r, p) \in Int
    BY <1>4, <1>5 DEF Difference
  <1>7. Only("available", Difference(r, p)) \in Delta
    BY <1>6, OnlyType DEF Bucket
  <1> QED BY <1>2, <1>3, <1>4, <1>6, <1>7 DEF Move

\* The next line is compared, and its movement waits to be posted.
LEMMA CompareLineStock ==
  ASSUME CInv, CInv', StockInv, NEW r \in Request, CompareLine(r)
  PROVE  StockInv'
  <1> DEFINE p == job[r].todo[1]
             move == [item  |-> <<p, counts[job[r].id].warehouse>>,
                      delta |-> Only("available", Difference(r, p))]
             todo == IF Difference(r, p) = 0 THEN <<>> ELSE <<move>>
             u == [tx[r] EXCEPT !.todo = todo]
  <1>1. /\ job[r].step = "reconcile" /\ job[r].todo # <<>>
        /\ tx' = [tx EXCEPT ![r] = u] /\ job' = [job EXCEPT ![r].todo = Tail(@)]
        /\ UNCHANGED <<rows, ledger, alerts, req, stocked>>
    BY DEF CompareLine
  <1>2. move \in Move
    BY <1>1, ComparedMove
  <1> HIDE DEF move
  <1>3. todo \in Seq(Move)
    BY <1>2
  <1> HIDE DEF todo
  <1>4. tx[r] \in TxType /\ OpenFor(r) /\ \A i \in tx[r].held : Fits(tx[r].after[i])
    BY DEF StockInv, StockTypeOK, RangeInv
  <1>5. /\ u \in TxType /\ u.open = tx[r].open
        /\ \A i \in u.held : Fits(u.after[i])
    BY <1>3, <1>4 DEF TxType
  <1> HIDE DEF u
  <1>6. StockTypeOK' /\ RangeInv'
    BY <1>1, <1>5, TablesStay
  <1>7. tx'[r] = u /\ \A s \in Request : s # r => tx'[s] = tx[s]
    BY <1>1, TxSet DEF StockInv
  <1>8. job'[r].step = "reconcile" /\ \A s \in Request : s # r => job'[s] = job[s]
    BY <1>1 DEF CInv, Typed, JobOK, JobType
  <1>9. OpenFor(r)' /\ stocked' \subseteq Item
    BY <1>1, <1>4, <1>5, <1>7, <1>8 DEF OpenFor, StockInv, Busy
  <1> QED BY <1>1, <1>6, <1>7, <1>8, <1>9, OpenStep

\* The read and the write of a movement leave the transaction open.
LEMMA PostsStock ==
  ASSUME CInv, StockInv, NEW r \in Request, ReadItem(r) \/ WriteItem(r),
         UNCHANGED <<job, stocked>>
  PROVE  StockInv'
  <1>1. StockTypeOK' /\ RangeInv'
    BY ReadItemSafe, WriteItemSafe DEF StockInv
  <1>2. PICK u : tx' = [tx EXCEPT ![r] = u] /\ u.open = tx[r].open
    <2>1. tx[r] \in TxType
      BY DEF StockInv, StockTypeOK
    <2>2. \A row : Loaded(tx[r], row).open = tx[r].open
      BY <2>1 DEF Loaded, TxType
    <2>3. \A i, row : Written(tx[r], i, row).open = tx[r].open
      BY <2>1 DEF Written, TxType
    <2> QED BY <2>2, <2>3 DEF ReadItem, WriteItem
  <1>3. tx'[r] = u /\ \A s \in Request : s # r => tx'[s] = tx[s]
    BY <1>2, TxSet DEF StockInv
  <1>4. UNCHANGED req /\ tx[r].open
    BY DEF ReadItem, WriteItem, Ready
  <1>5. OpenFor(r)' /\ stocked' \subseteq Item
    BY <1>2, <1>3, <1>4 DEF OpenFor, StockInv, Busy
  <1> QED BY <1>1, <1>3, <1>4, <1>5, OpenStep

\* A transaction that ends.
LEMMA EndsStock ==
  ASSUME CInv, StockInv, StockTypeOK', RangeInv', NEW r \in Request,
         tx' = [tx EXCEPT ![r] = NoTx], stocked' \subseteq Item, job'[r].step # "reconcile",
         \A s \in Request : s # r => job'[s] = job[s] /\ req'[s] = req[s]
  PROVE  StockInv'
  <1>1. tx'[r] = NoTx /\ \A s \in Request : s # r => tx'[s] = tx[s]
    BY TxSet DEF StockInv
  <1>2. OpenFor(r)'
    BY <1>1 DEF OpenFor, NoTx
  <1> QED BY <1>1, <1>2, OpenStep

\* The rows a transaction has written are items.
LEMMA HeldType ==
  ASSUME StockInv, NEW r \in Request
  PROVE  tx[r].held \subseteq Item
  BY DEF StockInv, StockTypeOK, TxType

\* The lines of a reconciliation.
LEMMA PostLineStock ==
  ASSUME CInv, StockInv, NEW r \in Request, PostLine(r)
  PROVE  StockInv'
  <1>1. CASE (ReadItem(r) \/ WriteItem(r)) /\ UNCHANGED job
    BY <1>1, PostsStock DEF PostLine
  <1>2. CASE Refuse(r) /\ job' = [job EXCEPT ![r] = NoJob]
    <2>1. StockTypeOK' /\ RangeInv' /\ tx' = [tx EXCEPT ![r] = NoTx] /\ Answer(r, "refused")
      BY <1>2, RefuseSafe DEF StockInv, Refuse
    <2>2. /\ job'[r].step = "none"
          /\ \A s \in Request : s # r => job'[s] = job[s] /\ req'[s] = req[s]
      BY <1>2, <2>1, OthersStay, NoJobType
    <2> QED BY <2>1, <2>2, EndsStock DEF PostLine, StockInv
  <1> QED BY <1>1, <1>2 DEF PostLine

\* The commit of a reconciliation.
LEMMA ReconcileStock ==
  ASSUME CInv, StockInv, NEW r \in Request, Reconcile(r)
  PROVE  StockInv'
  <1>1. /\ Install(r) /\ UNCHANGED req /\ stocked' = stocked \cup tx[r].held
        /\ job' = [job EXCEPT ![r] = [@ EXCEPT !.step = "log"]]
    BY DEF Reconcile
  <1>2. StockTypeOK' /\ RangeInv' /\ tx' = [tx EXCEPT ![r] = NoTx]
    BY <1>1, InstallSafe DEF StockInv, Install
  <1>3. stocked' \subseteq Item
    BY <1>1, HeldType DEF StockInv
  <1>4. job'[r].step = "log" /\ \A s \in Request : s # r => job'[s] = job[s]
    BY <1>1 DEF CInv, Typed, JobOK, JobType
  <1> QED BY <1>1, <1>2, <1>3, <1>4, EndsStock

\* The transactions of InventoryService.
LEMMA MovementStock ==
  ASSUME CInv, CInv', StockInv, NEW r \in Request, Movement(r)
  PROVE  StockInv'
  <1>1. job[r].step = "none" /\ UNCHANGED <<counts, job>>
    BY MovementSteps
  <1>2. CASE (\E op \in Movements, m \in Move : Posts(r, op, m)) /\ UNCHANGED stocked
    <2>1. PICK op \in Movements, m \in Move : Posts(r, op, m)
      BY <1>2
    <2>2. Busy(r)' /\ \A s \in Request : s # r => req'[s] = req[s]
      BY <2>1, OthersStay DEF Posts, Movements, Op, Busy
    <2>3. <<m>> \in Seq(Move)
      OBVIOUS
    <2> QED BY <1>1, <1>2, <2>1, <2>2, <2>3, OpensStock DEF Posts
  <1>3. CASE (ReadItem(r) \/ WriteItem(r)) /\ UNCHANGED stocked
    BY <1>1, <1>3, PostsStock
  <1>4. CASE Refuse(r) /\ UNCHANGED stocked
    <2>1. StockTypeOK' /\ RangeInv' /\ tx' = [tx EXCEPT ![r] = NoTx] /\ Answer(r, "refused")
      BY <1>4, RefuseSafe DEF StockInv, Refuse
    <2>2. \A s \in Request : s # r => req'[s] = req[s]
      BY <2>1, OthersStay
    <2> QED BY <1>1, <1>4, <2>1, <2>2, EndsStock DEF StockInv
  <1>5. CASE Install(r) /\ UNCHANGED req /\ stocked' = stocked \cup tx[r].held
    <2>1. StockTypeOK' /\ RangeInv' /\ tx' = [tx EXCEPT ![r] = NoTx]
      BY <1>5, InstallSafe DEF StockInv, Install
    <2>2. stocked' \subseteq Item
      BY <1>5, HeldType DEF StockInv
    <2> QED BY <1>1, <1>5, <2>1, <2>2, EndsStock
  <1>6. CASE Replies(r)
    <2>1. \A s \in Request : s # r => req'[s] = req[s]
      BY <1>6, OthersStay DEF Replies
    <2>2. tx[r] = NoTx /\ ~tx[r].open
      BY <1>6, RepliesClosed DEF Replies
    <2> QED BY <1>1, <1>6, <2>1, <2>2, ClosedStays DEF Replies
  <1> QED BY <1>2, <1>3, <1>4, <1>5, <1>6, MovementSteps

\* The rollback of a request that fails.
LEMMA FailStock ==
  ASSUME CInv, StockInv, NEW r \in Request, Fail(r)
  PROVE  StockInv'
  <1>1. /\ Abort(r) /\ Answer(r, "failed") /\ tx' = [tx EXCEPT ![r] = NoTx]
        /\ job' = [job EXCEPT ![r] = NoJob] /\ UNCHANGED stocked
    BY DEF Fail, Abort
  <1>2. StockTypeOK' /\ RangeInv'
    BY <1>1, AbortSafe DEF StockInv
  <1>3. /\ job'[r].step = "none"
        /\ \A s \in Request : s # r => job'[s] = job[s] /\ req'[s] = req[s]
    BY <1>1, OthersStay, NoJobType
  <1> QED BY <1>1, <1>2, <1>3, EndsStock DEF StockInv

\* Nobody has a transaction.
LEMMA InitStock == Init => StockInv
  <1> SUFFICES ASSUME Init PROVE StockInv
    OBVIOUS
  <1>1. StockTypeOK /\ RangeInv
    BY InitType DEF Init
  <1>2. \A r \in Request : tx[r] = NoTx /\ job[r].step = "none"
    BY NoJobType DEF Init, StockInit
  <1>3. stocked \subseteq Item
    BY CountsAssumption DEF Init
  <1>4. ~NoTx.open
    BY DEF NoTx
  <1> QED BY <1>1, <1>2, <1>3, <1>4 DEF StockInv, OpenFor

\* One case for every action of Next.
LEMMA NextStock ==
  ASSUME CInv, CInv', StockInv, [Next]_vars
  PROVE  StockInv'
  <1>1. CASE UNCHANGED vars
    BY <1>1 DEF vars, StockInv, StockTypeOK, RangeInv, StockInRange, OpenFor, Busy
  <1>2. ASSUME NEW r \in Request, Outside(r)
        PROVE  StockInv'
    BY <1>2, OutsideStock
  <1>3. ASSUME NEW r \in Request, LoadReconcile(r) \/ CompareLine(r) \/ PostLine(r)
        PROVE  StockInv'
    BY <1>3, LoadReconcileStock, CompareLineStock, PostLineStock
  <1>4. ASSUME NEW r \in Request, Reconcile(r) \/ Movement(r) \/ Fail(r)
        PROVE  StockInv'
    BY <1>4, ReconcileStock, MovementStock, FailStock
  <1> QED BY <1>1, <1>2, <1>3, <1>4 DEF Next, Serve, Quiet, Outside

CountInv == CInv /\ StockInv

\* It is an invariant.
LEMMA CountsInductive ==
  ASSUME OnlyEntries
  PROVE  Spec => []CountInv
  <1>1. Init => CountInv
    BY InitHolds, InitStock DEF CountInv
  <1>2. CountInv /\ [Next]_vars => CountInv'
    <2> SUFFICES ASSUME CountInv, [Next]_vars PROVE CountInv'
      OBVIOUS
    <2>1. CInv'
      BY NextKeeps DEF CountInv, StockInv
    <2> QED BY <2>1, NextStock DEF CountInv
  <1> QED BY <1>1, <1>2, PTL DEF Spec

(***************************************************************************)
(* TypeOK for any stock, counts and number of requests: tables and counts  *)
(* keep their types, the counted lines of a count are among its recorded   *)
(* ones, and a handler between two statements has a caller that waits.     *)
(***************************************************************************)
THEOREM TypeCorrect ==
  ASSUME OnlyEntries
  PROVE  Spec => []TypeOK
  <1>1. CountInv => TypeOK
    BY DEF CountInv, CInv, StockInv, Typed, Attended, TypeOK
  <1> QED BY <1>1, CountsInductive, PTL

\* Who writes a count, and what of it.
LEMMA CountWrites ==
  ASSUME CountInv, [Next]_vars, NEW c \in Count, counts'[c] # counts[c]
  PROVE  \E r \in Request :
            /\ job[r].id = c
            /\ \/ Create(r) /\ counts[c].status = "NONE" /\ counts'[c].status = "OPEN"
               \/ /\ Enter(r) /\ counts[c].status = "OPEN"
                  /\ counts'[c].status = counts[c].status
               \/ /\ Reconcile(r) /\ counts[c].status = "OPEN"
                  /\ counts'[c].status = "RECONCILED"
                  /\ counts'[c].counted = counts[c].counted
  <1> USE DEF CountInv, CInv
  <1>1. PICK r \in Request : Create(r) \/ Enter(r) \/ Reconcile(r)
    <2>1. \A r \in Request : Snapshot(r) \/ LoadEnter(r) \/ EnterLine(r) => UNCHANGED counts
      BY DEF Snapshot, LoadEnter, EnterLine
    <2>2. \A r \in Request : LoadReconcile(r) \/ CompareLine(r) \/ PostLine(r)
                                => UNCHANGED counts
      BY DEF LoadReconcile, CompareLine, PostLine
    <2>3. \A r \in Request : Reload(r) \/ Log(r) \/ Reject(r) \/ Movement(r) \/ Fail(r)
                                => UNCHANGED counts
      BY DEF Reload, Log, Reject, Movement, Fail
    <2>4. UNCHANGED vars => UNCHANGED counts
      BY DEF vars
    <2>5. ~UNCHANGED counts
      OBVIOUS
    <2> QED BY <2>1, <2>2, <2>3, <2>4, <2>5 DEF Next, Quiet, Serve
  <1>2. CASE Create(r)
    <2>1. /\ job[r].step = "create"
          /\ counts' = [counts EXCEPT ![job[r].id] =
                          [status |-> "OPEN", warehouse |-> job[r].at,
                           recorded |-> job[r].lines, counted |-> NoLines]]
      BY <1>2 DEF Create
    <2>2. job[r].id = c /\ counts'[c].status = "OPEN"
      BY <2>1 DEF Typed
    <2>3. counts[c].status = "NONE"
      BY <2>1, <2>2 DEF Guarded, Holds
    <2> QED BY <1>2, <2>2, <2>3
  <1>3. CASE Enter(r)
    <2>1. /\ job[r].step = "enter"
          /\ counts' = [counts EXCEPT ![job[r].id] =
                          [@ EXCEPT !.counted = Over(job[r].lines, counts[job[r].id].counted)]]
      BY <1>3 DEF Enter
    <2>2. job[r].id = c /\ IsCount(counts[c])
      BY <2>1 DEF Typed
    <2>3. counts'[c] = [counts[c] EXCEPT !.counted = Over(job[r].lines, counts[c].counted)]
      BY <2>1, <2>2 DEF Typed
    <2>4. counts'[c].status = counts[c].status
      BY <2>2, <2>3 DEF IsCount
    <2>5. counts[c].status = "OPEN"
      BY <2>1, <2>2 DEF Guarded, Holds
    <2> QED BY <1>3, <2>2, <2>4, <2>5
  <1>4. CASE Reconcile(r)
    <2>1. /\ job[r].step = "reconcile"
          /\ counts' = [counts EXCEPT ![job[r].id] = [@ EXCEPT !.status = "RECONCILED"]]
      BY <1>4 DEF Reconcile
    <2>2. job[r].id = c /\ IsCount(counts[c])
      BY <2>1 DEF Typed
    <2>3. counts'[c] = [counts[c] EXCEPT !.status = "RECONCILED"]
      BY <2>1, <2>2 DEF Typed
    <2>4. counts'[c].status = "RECONCILED" /\ counts'[c].counted = counts[c].counted
      BY <2>2, <2>3 DEF IsCount
    <2>5. counts[c].status = "OPEN"
      BY <2>1, <2>2 DEF Guarded, Holds
    <2> QED BY <1>4, <2>2, <2>4, <2>5
  <1> QED BY <1>1, <1>2, <1>3, <1>4

(***************************************************************************)
(* The quantities of a reconciled count never change again                 *)
(* (stock-counts.service.ts:243-248), for any counts, entries and requests *)
(* as long as reconciliations do not overlap with others on their count.   *)
(***************************************************************************)
THEOREM CountedStaysFrozen ==
  ASSUME OnlyEntries
  PROVE  Spec => CountedFrozen
  <1>1. CountInv /\ [Next]_vars =>
          [\A c \in Count : counts[c].status = "RECONCILED" =>
             counts'[c].counted = counts[c].counted]_vars
    BY CountWrites
  <1> QED BY <1>1, CountsInductive, PTL DEF Spec, CountedFrozen

-----------------------------------------------------------------------------
\* The alignment, when moreover no two requests race on the stock of an item.
\* A reconciliation takes its counted lines from those ahead, through at most
\* one that is being posted, to those that it has settled.

NoRaces == OnlyEntries /\ StockRacing = {}

Ahead(j) == {j.todo[n] : n \in DOMAIN j.todo}

Counted(row, q) == [row EXCEPT !["available"] = q]

\* What transaction t sees of item i over the committed rows.
Seen(t, base, i) == IF i \in t.held THEN t.after[i] ELSE base[i]

Settled(t, j, w, base, p) ==
    Seen(t, base, <<p, w>>) = Counted(base[<<p, w>>], j.lines[p])

Correction(i, q, base) ==
    [item |-> i, delta |-> Only("available", q - base[i]["available"])]

Posting(t, j, w, base, p) ==
    /\ p \notin Ahead(j) /\ <<p, w>> \notin t.held
    /\ t.todo = <<Correction(<<p, w>>, j.lines[p], base)>>
    /\ j.lines[p] # base[<<p, w>>]["available"]
    /\ t.fresh => t.before = base[<<p, w>>]

Aligning(t, j, w, stock, base) ==
    /\ \A p \in DOMAIN j.lines : <<p, w>> \in Item \cap stock
    /\ t.held \subseteq {<<p, w>> : p \in DOMAIN j.lines \ Ahead(j)}
    /\ \A i \in t.held : t.after[i] # base[i]
    /\ \/ /\ t.todo = <<>> /\ ~t.fresh
          /\ \A p \in DOMAIN j.lines \ Ahead(j) : Settled(t, j, w, base, p)
       \/ \E q \in DOMAIN j.lines :
             /\ Posting(t, j, w, base, q)
             /\ \A p \in DOMAIN j.lines \ (Ahead(j) \cup {q}) : Settled(t, j, w, base, p)

Inside(r) == /\ tx[r].held \subseteq req[r].stock
             /\ \A n \in DOMAIN tx[r].todo : tx[r].todo[n].item \in req[r].stock

Apart == \A r, s \in Request :
            r # s /\ Busy(r) /\ Busy(s) => req[r].stock \cap req[s].stock = {}

Aligns(r) == job[r].step = "reconcile" =>
                Aligning(tx[r], job[r], counts[job[r].id].warehouse, req[r].stock, rows)

AlignInv == Apart /\ \A r \in Request : Inside(r) /\ Aligns(r)

\* The delta of a line makes the counted quantity available, and a line
\* without a difference has it already.
LEMMA Corrected ==
  ASSUME NEW row \in Row, NEW q \in Nat
  PROVE  /\ Plus(row, Only("available", q - row["available"])) = Counted(row, q)
         /\ q - row["available"] = 0 => Counted(row, q) = row
         /\ row["available"] \in Int
  <1>1. \A k \in Bucket : row[k] \in Int
    BY StockAssumption DEF Row
  <1>2. "available" \in Bucket /\ row = [k \in Bucket |-> row[k]]
    BY DEF Bucket, Row
  <1> DEFINE d == q - row["available"]
  <1>3. d \in Int /\ row["available"] + d = q
    BY <1>1, <1>2
  <1> HIDE DEF d
  <1>4. Only("available", d) = [k \in Bucket |-> IF k = "available" THEN d ELSE 0]
    BY <1>2 DEF Only, Zero
  <1>5. Plus(row, Only("available", d))
          = [k \in Bucket |-> IF k = "available" THEN q ELSE row[k]]
    BY <1>1, <1>3, <1>4 DEF Plus
  <1>6. Counted(row, q) = [k \in Bucket |-> IF k = "available" THEN q ELSE row[k]]
    BY <1>2 DEF Counted
  <1>7. d = 0 => Counted(row, q) = row
    BY <1>1, <1>2, <1>3, <1>6
  <1> QED BY <1>1, <1>2, <1>5, <1>6, <1>7 DEF d

\* Commits elsewhere do not disturb it.
LEMMA AligningFrame ==
  ASSUME NEW t, NEW j, NEW w, NEW stock, NEW f, NEW g, Aligning(t, j, w, stock, f),
         \A i \in Item \cap stock : g[i] = f[i]
  PROVE  Aligning(t, j, w, stock, g)
  <1>1. \A p \in DOMAIN j.lines : g[<<p, w>>] = f[<<p, w>>]
    BY DEF Aligning
  <1>2. \A p \in DOMAIN j.lines : /\ Settled(t, j, w, f, p) => Settled(t, j, w, g, p)
                                  /\ Posting(t, j, w, f, p) => Posting(t, j, w, g, p)
    BY <1>1 DEF Settled, Seen, Posting, Correction
  <1> QED BY <1>2 DEF Aligning

\* The next line is compared: nothing has touched its row.
LEMMA AligningCompare ==
  ASSUME NEW t, NEW j, NEW w, NEW stock, NEW base \in [Item -> Row],
         Aligning(t, j, w, stock, base), t.todo = <<>>,
         j.todo \in Seq(Product), j.todo # <<>>, IsInjective(j.todo),
         NEW p, p = j.todo[1], p \in DOMAIN j.lines, j.lines[p] \in Nat,
         NEW k, k.lines = j.lines, k.todo = Tail(j.todo),
         NEW d, d = j.lines[p] - Seen(t, base, <<p, w>>)["available"],
         NEW u, u.held = t.held, u.after = t.after, u.fresh = t.fresh,
         u.todo = IF d = 0 THEN <<>>
                  ELSE <<[item |-> <<p, w>>, delta |-> Only("available", d)]>>
  PROVE  Aligning(u, k, w, stock, base)
  <1> DEFINE i == <<p, w>>
  <1>1. Ahead(k) = Ahead(j) \ {p} /\ p \in Ahead(j)
    <2> DEFINE q == j.todo
    <2>1. /\ 1 \in DOMAIN q /\ p = q[1]
          /\ \A n \in DOMAIN Tail(q) : n + 1 \in DOMAIN q /\ Tail(q)[n] = q[n + 1]
          /\ \A n \in DOMAIN Tail(q) : Tail(q)[n] # p
          /\ \A n \in DOMAIN q : n = 1 \/ n - 1 \in DOMAIN Tail(q)
      BY TailFacts
    <2>2. DOMAIN q = 1 .. Len(q) /\ Len(q) \in Nat
      BY LenProperties
    <2> HIDE DEF q
    <2>3. Ahead(k) = {Tail(q)[n] : n \in DOMAIN Tail(q)} /\ Ahead(j) = {q[n] : n \in DOMAIN q}
      BY DEF Ahead, q
    <2>4. \A n \in DOMAIN q : q[n] = p \/ \E m \in DOMAIN Tail(q) : q[n] = Tail(q)[m]
      <3> SUFFICES ASSUME NEW n \in DOMAIN q, n # 1
                   PROVE  \E m \in DOMAIN Tail(q) : q[n] = Tail(q)[m]
        BY <2>1
      <3>1. n - 1 \in DOMAIN Tail(q) /\ (n - 1) + 1 = n
        BY <2>1, <2>2
      <3> QED BY <2>1, <3>1
    <2>5. Ahead(k) \subseteq Ahead(j) \ {p}
      BY <2>1, <2>3
    <2>6. Ahead(j) \ {p} \subseteq Ahead(k) /\ p \in Ahead(j)
      BY <2>1, <2>3, <2>4
    <2> QED BY <2>5, <2>6
  <1>2. i \in Item /\ i \notin t.held
    BY <1>1 DEF Aligning
  <1>3. d = j.lines[p] - base[i]["available"]
    BY <1>2 DEF Seen
  <1>4. \A q \in DOMAIN j.lines \ Ahead(j) : Settled(u, k, w, base, q)
    BY <1>1 DEF Aligning, Posting, Settled, Seen
  <1>5. ~t.fresh
    BY DEF Aligning, Posting
  <1>6. u.held \subseteq {<<q, w>> : q \in DOMAIN k.lines \ Ahead(k)}
    BY <1>1 DEF Aligning
  <1>7. CASE d = 0
    <2>1. base[i] \in Row /\ Counted(base[i], j.lines[p]) = base[i]
      BY <1>2, <1>3, <1>7, Corrected
    <2>2. Settled(u, k, w, base, p)
      BY <1>2, <2>1 DEF Settled, Seen
    <2> QED BY <1>1, <1>4, <1>5, <1>6, <1>7, <2>2 DEF Aligning
  <1>8. CASE d # 0
    <2>1. j.lines[p] # base[i]["available"]
      BY <1>2, <1>3, <1>8, Corrected
    <2>2. Posting(u, k, w, base, p)
      BY <1>1, <1>2, <1>3, <1>5, <1>8, <2>1 DEF Posting, Correction
    <2> QED BY <1>1, <1>4, <1>6, <2>2 DEF Aligning
  <1> QED BY <1>7, <1>8

\* Its row is read again, and is still what it was.
LEMMA AligningRead ==
  ASSUME NEW t, NEW j, NEW w, NEW stock, NEW base, Aligning(t, j, w, stock, base),
         t.todo # <<>>,
         NEW u, u.held = t.held, u.after = t.after, u.todo = t.todo,
         u.before = Seen(t, base, t.todo[1].item)
  PROVE  Aligning(u, j, w, stock, base)
  <1>1. PICK q \in DOMAIN j.lines :
          /\ Posting(t, j, w, base, q)
          /\ \A p \in DOMAIN j.lines \ (Ahead(j) \cup {q}) : Settled(t, j, w, base, p)
    BY DEF Aligning
  <1>2. t.todo[1].item = <<q, w>>
    BY <1>1 DEF Posting, Correction
  <1>3. Posting(u, j, w, base, q)
    BY <1>1, <1>2 DEF Posting, Seen
  <1>4. \A p \in DOMAIN j.lines \ (Ahead(j) \cup {q}) : Settled(u, j, w, base, p)
    BY <1>1 DEF Settled, Seen
  <1> QED BY <1>1, <1>3, <1>4 DEF Aligning

\* The correction is written, and settles the line.
LEMMA AligningWrite ==
  ASSUME NEW t, NEW j, NEW w, NEW stock, NEW base \in [Item -> Row],
         Aligning(t, j, w, stock, base), t.todo # <<>>, t.fresh,
         \A p \in DOMAIN j.lines : j.lines[p] \in Nat,
         NEW u, u.held = t.held \cup {t.todo[1].item}, u.todo = Tail(t.todo), ~u.fresh,
         u.after[t.todo[1].item] = Plus(t.before, t.todo[1].delta),
         \A i \in t.held \ {t.todo[1].item} : u.after[i] = t.after[i]
  PROVE  Aligning(u, j, w, stock, base)
  <1>1. PICK q \in DOMAIN j.lines :
          /\ Posting(t, j, w, base, q)
          /\ \A p \in DOMAIN j.lines \ (Ahead(j) \cup {q}) : Settled(t, j, w, base, p)
    BY DEF Aligning
  <1> DEFINE i == <<q, w>>
  <1>2. /\ t.todo = <<Correction(i, j.lines[q], base)>> /\ t.before = base[i]
        /\ q \notin Ahead(j) /\ i \notin t.held /\ i \in Item
        /\ j.lines[q] # base[i]["available"] /\ \A k \in t.held : t.after[k] # base[k]
    BY <1>1 DEF Posting, Aligning
  <1>3. /\ t.todo[1].item = i
        /\ t.todo[1].delta = Only("available", j.lines[q] - base[i]["available"])
        /\ Tail(t.todo) = <<>>
    BY <1>2 DEF Correction
  <1>4. u.after[i] = Counted(base[i], j.lines[q])
    <2>1. base[i] \in Row /\ j.lines[q] \in Nat
      BY <1>2
    <2>2. Plus(base[i], Only("available", j.lines[q] - base[i]["available"]))
            = Counted(base[i], j.lines[q])
      BY <2>1, Corrected
    <2> QED BY <1>2, <1>3, <2>2
  <1>5. Settled(u, j, w, base, q)
    BY <1>3, <1>4 DEF Settled, Seen
  <1>6. ASSUME NEW p \in DOMAIN j.lines \ (Ahead(j) \cup {q}) PROVE Settled(u, j, w, base, p)
    <2>1. Settled(t, j, w, base, p) /\ <<p, w>> # i
      BY <1>1
    <2> QED BY <1>3, <2>1 DEF Settled, Seen
  <1>7. u.held \subseteq {<<p, w>> : p \in DOMAIN j.lines \ Ahead(j)}
    BY <1>2, <1>3 DEF Aligning
  <1>8. \A k \in u.held : u.after[k] # base[k]
    <2>1. Counted(base[i], j.lines[q])["available"] = j.lines[q]
      BY <1>2 DEF Counted, Row, Bucket
    <2>2. u.after[i] # base[i]
      BY <1>2, <1>4, <2>1
    <2> QED BY <1>2, <1>3, <2>2
  <1> QED BY <1>3, <1>5, <1>6, <1>7, <1>8 DEF Aligning

\* A request that starts touches stock that nobody under way touches.
LEMMA StartApart ==
  ASSUME NoRaces, CInv, NEW r \in Request, NEW op \in Op \ {"none"}, NEW doc, NEW stock,
         op = "enter" => stock = {}, Start(r, op, doc, stock)
  PROVE  /\ req'[r].stock = stock
         /\ \A s \in Request : Busy(s) => stock \cap req[s].stock = {}
  <1>1. ReqsOK
    BY DEF CInv, Typed
  <1>2. /\ req'[r].stock = stock
        /\ \A s \in Request : Busy(s) => IF req[s].doc = doc
                                         THEN {op, req[s].op} \subseteq DocRacing
                                         ELSE req[s].stock \cap stock # {} =>
                                                {op, req[s].op} \subseteq StockRacing
    BY <1>1, StartFacts
  <1>3. ASSUME NEW s \in Request, Busy(s) PROVE stock \cap req[s].stock = {}
    <2>1. CASE req[s].doc = doc
      <3>1. op = "enter"
        BY <1>2, <1>3, <2>1 DEF NoRaces, OnlyEntries
      <3> QED BY <3>1
    <2>2. CASE req[s].doc # doc
      BY <1>2, <1>3, <2>2 DEF NoRaces
    <2> QED BY <2>1, <2>2
  <1> QED BY <1>2, <1>3

\* A step of r that leaves the other requests, handlers and transactions, the
\* counts of the reconciliations among them, and the rows of their stock.
LEMMA AlignStep ==
  ASSUME CInv, AlignInv, NEW r \in Request, Inside(r)', Aligns(r)',
         \A s \in Request : s # r => job'[s] = job[s] /\ req'[s] = req[s] /\ tx'[s] = tx[s],
         \A s \in Request : s # r /\ job[s].step = "reconcile" =>
            counts'[job[s].id] = counts[job[s].id],
         \/ UNCHANGED rows
         \/ Busy(r) /\ \A i \in Item \ req[r].stock : rows'[i] = rows[i],
         \/ ~Busy(r)'
         \/ Busy(r) /\ req'[r].stock = req[r].stock
         \/ \A s \in Request : Busy(s) => req'[r].stock \cap req[s].stock = {}
  PROVE  AlignInv'
  <1>1. Apart'
    BY DEF AlignInv, Apart, Busy
  <1>2. ASSUME NEW s \in Request, s # r PROVE Inside(s)'
    BY <1>2 DEF AlignInv, Inside
  <1>3. ASSUME NEW s \in Request, s # r PROVE Aligns(s)'
    <2> SUFFICES ASSUME job[s].step = "reconcile"
                 PROVE  Aligning(tx[s], job[s], counts[job[s].id].warehouse,
                                 req[s].stock, rows')
      BY <1>3 DEF Aligns
    <2>1. Busy(s)
      BY DEF CInv, Attended
    <2>2. \A i \in Item \cap req[s].stock : rows'[i] = rows[i]
      BY <1>3, <2>1 DEF AlignInv, Apart
    <2>3. Aligning(tx[s], job[s], counts[job[s].id].warehouse, req[s].stock, rows)
      BY DEF AlignInv, Aligns
    <2> QED BY <2>2, <2>3, AligningFrame
  <1> QED BY <1>1, <1>2, <1>3 DEF AlignInv

\* Its rows change with a commit, in its own stock.
LEMMA InstallFrame ==
  ASSUME AlignInv, NEW r \in Request, Install(r)
  PROVE  \A i \in Item \ req[r].stock : rows'[i] = rows[i]
  <1>1. tx[r].held \subseteq req[r].stock
    BY DEF AlignInv, Inside
  <1> QED BY <1>1 DEF Install, View

\* The count of a reconciliation is written by nobody else.
LEMMA CountsStay ==
  ASSUME CInv, OnlyEntries, NEW r \in Request, Create(r) \/ Enter(r) \/ Reconcile(r),
         NEW s \in Request, s # r, job[s].step = "reconcile"
  PROVE  counts'[job[s].id] = counts[job[s].id]
  <1>1. job[r].step # "none" /\ job[s].id \in Count
    BY DEF Create, Enter, Reconcile, CInv, Attended
  <1>2. job[s].id # job[r].id
    BY <1>1, Alone
  <1> QED BY <1>1, <1>2 DEF Create, Enter, Reconcile, CInv, Typed

\* A closed transaction, and one with nothing to post, touch no stock.
LEMMA ClosedInside ==
  /\ NoTx.held = {} /\ \A n \in DOMAIN NoTx.todo : FALSE
  /\ Pending(<<>>).held = {} /\ Pending(<<>>).todo = <<>> /\ ~Pending(<<>>).fresh
  BY DEF NoTx, Pending

\* The statements about the tables of the counts.
LEMMA OutsideAligns ==
  ASSUME NoRaces, CInv, StockInv, AlignInv, NEW r \in Request, Outside(r)
  PROVE  AlignInv'
  <1>1. /\ UNCHANGED <<rows, tx>> /\ tx[r] = NoTx /\ job'[r].step # "reconcile"
        /\ \A s \in Request : s # r => job'[s] = job[s] /\ req'[s] = req[s]
    BY OutsideSteps
  <1>2. Inside(r)' /\ Aligns(r)'
    BY <1>1, ClosedInside DEF Inside, Aligns
  <1>3. \/ ~Busy(r)'
        \/ Busy(r) /\ req'[r].stock = req[r].stock
        \/ \A s \in Request : Busy(s) => req'[r].stock \cap req[s].stock = {}
    <2>1. CASE ~Busy(r)' \/ (Busy(r) /\ UNCHANGED req)
      BY <2>1
    <2>2. CASE \E op \in Op \ {"none"} : \E doc, stock :
                  Start(r, op, doc, stock) /\ (op = "enter" => stock = {})
      BY <2>2, StartApart
    <2> QED BY <2>1, <2>2, OutsideSteps
  <1>4. ASSUME NEW s \in Request, s # r, job[s].step = "reconcile"
        PROVE  counts'[job[s].id] = counts[job[s].id]
    <2>1. CASE Create(r) \/ Enter(r)
      BY <1>4, <2>1, CountsStay DEF NoRaces
    <2>2. CASE UNCHANGED counts
      BY <2>2
    <2> QED BY <2>1, <2>2 DEF Outside, Snapshot, LoadEnter, EnterLine, Reload, Log, Reject
  <1> QED BY <1>1, <1>2, <1>3, <1>4, AlignStep

\* A movement starts.
LEMMA PostAligns ==
  ASSUME NoRaces, CInv, StockInv, AlignInv, NEW r \in Request, NEW op \in Movements,
         NEW m \in Move, Posts(r, op, m), job[r].step = "none", UNCHANGED <<counts, job>>
  PROVE  AlignInv'
  <1>1. /\ Start(r, op, r, {m.item}) /\ tx' = [tx EXCEPT ![r] = Pending(<<m>>)]
        /\ UNCHANGED rows /\ op \in Op \ {"none"} /\ op # "enter"
    BY DEF Posts, Op, Movements
  <1>2. /\ req'[r].stock = {m.item}
        /\ \A s \in Request : Busy(s) => req'[r].stock \cap req[s].stock = {}
    BY <1>1, StartApart
  <1>3. \A s \in Request : s # r => job'[s] = job[s] /\ req'[s] = req[s]
    BY <1>1, OthersStay
  <1>4. tx'[r] = Pending(<<m>>) /\ \A s \in Request : s # r => tx'[s] = tx[s]
    BY <1>1, TxSet DEF StockInv
  <1>5. Pending(<<m>>).held = {} /\ Pending(<<m>>).todo = <<m>>
    BY DEF Pending, NoTx
  <1>6. Inside(r)'
    BY <1>2, <1>4, <1>5 DEF Inside
  <1>7. Aligns(r)'
    BY DEF Aligns
  <1> QED BY <1>1, <1>2, <1>3, <1>4, <1>6, <1>7, AlignStep

\* A reconciliation starts, with all its lines ahead.
LEMMA LoadReconcileAligns ==
  ASSUME NoRaces, CInv, StockInv, AlignInv, NEW r \in Request, LoadReconcile(r)
  PROVE  AlignInv'
  <1>1. PICK c \in Count :
          /\ Start(r, "reconcile", c, Items(c))
          /\ job' = [job EXCEPT ![r] = [@ EXCEPT
                       !.step = "reconcile", !.id = c, !.lines = counts[c].counted,
                       !.todo = ByName[DOMAIN counts[c].counted]]]
          /\ tx' = [tx EXCEPT ![r] = Pending(<<>>)]
          /\ UNCHANGED <<rows, counts>>
    BY DEF LoadReconcile
  <1> DEFINE f == counts[c].counted
             w == counts[c].warehouse
             q == ByName[DOMAIN f]
             x == [job[r] EXCEPT !.step = "reconcile", !.id = c, !.lines = f, !.todo = q]
  <1>2. /\ req'[r].stock = Items(c)
        /\ \A s \in Request : Busy(s) => req'[r].stock \cap req[s].stock = {}
    BY <1>1, StartApart DEF Op
  <1>3. \A s \in Request : s # r => job'[s] = job[s] /\ req'[s] = req[s]
    BY <1>1, OthersStay DEF Op
  <1>4. tx'[r] = Pending(<<>>) /\ \A s \in Request : s # r => tx'[s] = tx[s]
    BY <1>1, TxSet DEF StockInv
  <1>5. Inside(r)'
    BY <1>4, ClosedInside DEF Inside
  <1>6. IsCount(counts[c]) /\ JobOK(job[r])
    BY DEF CInv, Typed
  <1>7. job'[r] = x /\ x.lines = f /\ x.id = c /\ x.todo = q
    <2>1. job'[r] = x
      BY <1>1, OthersStay
    <2> QED BY <1>6, <2>1 DEF JobOK, JobType
  <1>8. DOMAIN f \in SUBSET Product /\ DOMAIN f \subseteq DOMAIN counts[c].recorded
    BY <1>6 DEF IsCount, IsLines
  <1>9. \A p \in DOMAIN f : \E n \in DOMAIN q : q[n] = p
    BY <1>8, CountsAssumption
  <1>10. \A p \in DOMAIN f : <<p, w>> \in Item \cap Items(c)
    BY <1>6, <1>8 DEF Item, Items, IsCount
  <1> HIDE DEF f, q, x
  <1>11. DOMAIN x.lines \ Ahead(x) = {}
    BY <1>7, <1>9 DEF Ahead
  <1>12. Aligning(Pending(<<>>), x, w, Items(c), rows)
    BY <1>7, <1>10, <1>11, ClosedInside DEF Aligning
  <1>13. Aligns(r)'
    BY <1>1, <1>2, <1>4, <1>7, <1>12 DEF Aligns
  <1> QED BY <1>1, <1>2, <1>3, <1>4, <1>5, <1>13, AlignStep

\* The next line of a reconciliation is compared.
LEMMA CompareLineAligns ==
  ASSUME CInv, StockInv, AlignInv, NEW r \in Request, CompareLine(r)
  PROVE  AlignInv'
  <1> DEFINE j == job[r]
             p == j.todo[1]
             w == counts[j.id].warehouse
             d == Difference(r, p)
             move == [item |-> <<p, w>>, delta |-> Only("available", d)]
             todo == IF d = 0 THEN <<>> ELSE <<move>>
             u == [tx[r] EXCEPT !.todo = todo]
             x == [j EXCEPT !.todo = Tail(@)]
  <1>1. /\ j.step = "reconcile" /\ tx[r].todo = <<>> /\ j.todo # <<>>
        /\ tx' = [tx EXCEPT ![r] = u] /\ job' = [job EXCEPT ![r] = x]
        /\ UNCHANGED <<rows, req, counts>>
    BY DEF CompareLine
  <1>2. /\ JobOK(j) /\ j.todo \in Seq(Product) /\ IsInjective(j.todo) /\ Busy(r)
    BY <1>1 DEF CInv, Typed, JobOK, Attended
  <1>3. /\ p \in DOMAIN j.lines /\ j.lines[p] \in Nat
    BY <1>1, ComparedMove
  <1>4. d = j.lines[p] - Seen(tx[r], rows, <<p, w>>)["available"]
    BY DEF Difference, View, Seen
  <1>5. tx[r] \in TxType /\ rows \in [Item -> Row]
    BY DEF StockInv, StockTypeOK
  <1>6. x.lines = j.lines /\ x.todo = Tail(j.todo) /\ x.id = j.id
    BY <1>2 DEF JobOK, JobType
  <1> HIDE DEF d
  <1>7. u.todo = todo /\ u.held = tx[r].held /\ u.after = tx[r].after /\ u.fresh = tx[r].fresh
    BY <1>5 DEF TxType
  <1>8. /\ tx'[r] = u /\ job'[r] = x
        /\ \A s \in Request : s # r => tx'[s] = tx[s] /\ job'[s] = job[s] /\ req'[s] = req[s]
    <2> HIDE DEF u, x
    <2>1. tx'[r] = u /\ \A s \in Request : s # r => tx'[s] = tx[s]
      BY <1>1, TxSet DEF StockInv
    <2>2. job'[r] = x /\ \A s \in Request : s # r => job'[s] = job[s]
      BY <1>1, OthersStay
    <2> QED BY <1>1, <2>1, <2>2
  <1>9. Aligning(tx[r], j, w, req[r].stock, rows)
    BY <1>1 DEF AlignInv, Aligns
  <1>10. <<p, w>> \in req[r].stock /\ tx[r].held \subseteq req[r].stock
    BY <1>3, <1>9 DEF Aligning, AlignInv, Inside
  <1> HIDE DEF j, p, w, u, x
  <1>11. Aligning(u, x, w, req[r].stock, rows)
    <2>1. p = j.todo[1] /\ tx[r].todo = <<>> /\ j.todo # <<>>
      BY <1>1 DEF p
    <2>2. u.todo = IF d = 0 THEN <<>>
                   ELSE <<[item |-> <<p, w>>, delta |-> Only("available", d)]>>
      BY <1>7
    <2> QED BY <1>2, <1>3, <1>4, <1>5, <1>6, <1>7, <1>9, <2>1, <2>2, AligningCompare
  <1>12. Inside(r)'
    <2>1. \A n \in DOMAIN todo : todo[n].item = <<p, w>>
      OBVIOUS
    <2> QED BY <1>1, <1>7, <1>8, <1>10, <2>1 DEF Inside
  <1>13. Aligns(r)'
    BY <1>1, <1>6, <1>8, <1>11 DEF Aligns, w
  <1> QED BY <1>1, <1>2, <1>8, <1>12, <1>13, AlignStep

\* The row of a movement is read.
LEMMA ReadAligns ==
  ASSUME CInv, StockInv, AlignInv, NEW r \in Request, ReadItem(r), UNCHANGED <<counts, job>>
  PROVE  AlignInv'
  <1> DEFINE i == Target(r)
             u == Loaded(tx[r], View(r, i))
  <1>1. /\ tx[r].open /\ tx[r].todo # <<>> /\ tx' = [tx EXCEPT ![r] = u]
        /\ UNCHANGED <<rows, req>>
    BY DEF ReadItem
  <1>2. tx[r] \in TxType
    BY DEF StockInv, StockTypeOK
  <1>3. /\ u.held = tx[r].held /\ u.after = tx[r].after /\ u.todo = tx[r].todo
        /\ u.before = Seen(tx[r], rows, tx[r].todo[1].item)
    BY <1>2 DEF Loaded, TxType, View, Seen, Target
  <1> HIDE DEF u
  <1>4. tx'[r] = u /\ \A s \in Request : s # r => tx'[s] = tx[s]
    BY <1>1, TxSet DEF StockInv
  <1>5. Inside(r)'
    BY <1>1, <1>3, <1>4 DEF Inside, AlignInv
  <1>6. Aligns(r)'
    <2> SUFFICES ASSUME job[r].step = "reconcile"
                 PROVE  Aligning(u, job[r], counts[job[r].id].warehouse, req[r].stock, rows)
      BY <1>1, <1>4 DEF Aligns
    <2>1. Aligning(tx[r], job[r], counts[job[r].id].warehouse, req[r].stock, rows)
      BY DEF AlignInv, Aligns
    <2> QED BY <1>1, <1>3, <2>1, AligningRead
  <1>7. Busy(r)
    BY <1>1 DEF StockInv, OpenFor
  <1> QED BY <1>1, <1>4, <1>5, <1>6, <1>7, AlignStep

\* The row of a movement is written.
LEMMA WriteAligns ==
  ASSUME CInv, StockInv, AlignInv, NEW r \in Request, WriteItem(r), UNCHANGED <<counts, job>>
  PROVE  AlignInv'
  <1> DEFINE t == tx[r]
             i == t.todo[1].item
             u == Written(t, i, Result(r))
  <1>1. /\ t.open /\ t.todo # <<>> /\ t.fresh /\ tx' = [tx EXCEPT ![r] = u]
        /\ UNCHANGED <<rows, req>>
    BY DEF WriteItem, Ready, Target
  <1>2. t \in TxType /\ i \in Item /\ rows \in [Item -> Row] /\ t.todo \in Seq(Move)
    BY <1>1, TargetType DEF StockInv, StockTypeOK, Target, TxType
  <1>3. /\ u.held = t.held \cup {i} /\ u.todo = Tail(t.todo) /\ ~u.fresh
        /\ u.after[i] = Plus(t.before, t.todo[1].delta)
        /\ \A k \in t.held \ {i} : u.after[k] = t.after[k]
    <2>1. u.after = [t.after EXCEPT ![i] = Result(r)]
      BY <1>2 DEF Written, TxType
    <2>2. t.after \in [Item -> Row] /\ t.held \subseteq Item
      BY <1>2 DEF TxType
    <2>3. u.held = t.held \cup {i} /\ u.todo = Tail(t.todo) /\ ~u.fresh
      BY <1>2 DEF Written, TxType
    <2> QED BY <1>2, <2>1, <2>2, <2>3 DEF Result
  <1>4. tx'[r] = u /\ \A s \in Request : s # r => tx'[s] = tx[s]
    BY <1>1, TxSet DEF StockInv
  <1> HIDE DEF u
  <1>5. Inside(r)'
    <2>1. i \in req[r].stock /\ t.held \subseteq req[r].stock
      BY <1>1, <1>2, TailFacts DEF AlignInv, Inside
    <2>2. \A n \in DOMAIN Tail(t.todo) :
            n + 1 \in DOMAIN t.todo /\ Tail(t.todo)[n] = t.todo[n + 1]
      BY <1>1, <1>2, TailFacts
    <2>3. \A n \in DOMAIN Tail(t.todo) : Tail(t.todo)[n].item \in req[r].stock
      BY <2>2 DEF AlignInv, Inside
    <2> QED BY <1>1, <1>3, <1>4, <2>1, <2>3 DEF Inside
  <1>6. Aligns(r)'
    <2> SUFFICES ASSUME job[r].step = "reconcile"
                 PROVE  Aligning(u, job[r], counts[job[r].id].warehouse, req[r].stock, rows)
      BY <1>1, <1>4 DEF Aligns
    <2>1. Aligning(t, job[r], counts[job[r].id].warehouse, req[r].stock, rows)
      BY DEF AlignInv, Aligns
    <2>2. \A p \in DOMAIN job[r].lines : job[r].lines[p] \in Nat
      <3>1. IsLines(job[r].lines)
        BY LinesType DEF CInv, Typed, JobOK, JobType
      <3> QED BY <3>1 DEF IsLines
    <2> HIDE DEF t
    <2> QED BY <1>1, <1>2, <1>3, <2>1, <2>2, AligningWrite
  <1>7. Busy(r)
    BY <1>1 DEF StockInv, OpenFor
  <1> QED BY <1>1, <1>4, <1>5, <1>6, <1>7, AlignStep

\* A transaction ends, with or without its rows.
LEMMA EndAligns ==
  ASSUME CInv, StockInv, AlignInv, NEW r \in Request, tx' = [tx EXCEPT ![r] = NoTx],
         job'[r].step # "reconcile",
         \A s \in Request : s # r => job'[s] = job[s] /\ req'[s] = req[s],
         \A s \in Request : s # r /\ job[s].step = "reconcile" =>
            counts'[job[s].id] = counts[job[s].id],
         UNCHANGED rows \/ Install(r),
         ~Busy(r)' \/ (Busy(r) /\ UNCHANGED req)
  PROVE  AlignInv'
  <1>1. tx'[r] = NoTx /\ \A s \in Request : s # r => tx'[s] = tx[s]
    BY TxSet DEF StockInv
  <1>2. Inside(r)' /\ Aligns(r)'
    BY <1>1, ClosedInside DEF Inside, Aligns
  <1>3. UNCHANGED rows \/ (Busy(r) /\ \A i \in Item \ req[r].stock : rows'[i] = rows[i])
    BY InstallFrame DEF Install, StockInv, OpenFor
  <1> QED BY <1>1, <1>2, <1>3, AlignStep

\* The movements of InventoryService.
LEMMA MovementAligns ==
  ASSUME NoRaces, CInv, StockInv, AlignInv, NEW r \in Request, Movement(r)
  PROVE  AlignInv'
  <1>1. job[r].step = "none" /\ UNCHANGED <<counts, job>>
    BY MovementSteps
  <1>2. CASE \E op \in Movements, m \in Move : Posts(r, op, m)
    BY <1>1, <1>2, PostAligns
  <1>3. CASE ReadItem(r) \/ WriteItem(r)
    BY <1>1, <1>3, ReadAligns, WriteAligns
  <1>4. CASE Refuse(r)
    <2>1. Answer(r, "refused") /\ tx' = [tx EXCEPT ![r] = NoTx] /\ UNCHANGED rows
      BY <1>4 DEF Refuse
    <2>2. ~Busy(r)' /\ \A s \in Request : s # r => req'[s] = req[s]
      BY <2>1, OthersStay DEF Busy
    <2> QED BY <1>1, <2>1, <2>2, EndAligns
  <1>5. CASE Install(r) /\ UNCHANGED req
    <2>1. tx' = [tx EXCEPT ![r] = NoTx] /\ Busy(r)
      BY <1>5 DEF Install, StockInv, OpenFor
    <2> QED BY <1>1, <1>5, <2>1, EndAligns
  <1>6. CASE Replies(r)
    <2>1. ~Busy(r)' /\ \A s \in Request : s # r => req'[s] = req[s]
      BY <1>6, OthersStay DEF Busy, Replies
    <2> QED BY <1>1, <1>6, <2>1, RepliesClosed, EndAligns
  <1> QED BY <1>2, <1>3, <1>4, <1>5, <1>6, MovementSteps

\* The lines of a reconciliation.
LEMMA PostLineAligns ==
  ASSUME CInv, StockInv, AlignInv, NEW r \in Request, PostLine(r)
  PROVE  AlignInv'
  <1>1. CASE (ReadItem(r) \/ WriteItem(r)) /\ UNCHANGED job
    BY <1>1, ReadAligns, WriteAligns DEF PostLine
  <1>2. CASE Refuse(r) /\ job' = [job EXCEPT ![r] = NoJob]
    <2>1. /\ Answer(r, "refused") /\ tx' = [tx EXCEPT ![r] = NoTx]
          /\ UNCHANGED <<rows, counts>>
      BY <1>2 DEF Refuse, PostLine
    <2>2. /\ job'[r].step = "none" /\ ~Busy(r)'
          /\ \A s \in Request : s # r => job'[s] = job[s] /\ req'[s] = req[s]
      BY <1>2, <2>1, OthersStay, NoJobType DEF Busy
    <2> QED BY <2>1, <2>2, EndAligns
  <1> QED BY <1>1, <1>2 DEF PostLine

\* The commit of a reconciliation, and the rollback of what fails.
LEMMA LastAligns ==
  ASSUME NoRaces, CInv, StockInv, AlignInv, NEW r \in Request, Reconcile(r) \/ Fail(r)
  PROVE  AlignInv'
  <1>1. CASE Reconcile(r)
    <2>1. /\ Install(r) /\ UNCHANGED req /\ job[r].step = "reconcile"
          /\ tx' = [tx EXCEPT ![r] = NoTx]
          /\ job' = [job EXCEPT ![r] = [@ EXCEPT !.step = "log"]]
      BY <1>1 DEF Reconcile, Install
    <2>2. job'[r].step = "log" /\ \A s \in Request : s # r => job'[s] = job[s]
      BY <2>1 DEF CInv, Typed, JobOK, JobType
    <2>3. Busy(r)
      BY <2>1 DEF CInv, Attended
    <2>4. \A s \in Request : s # r /\ job[s].step = "reconcile" =>
            counts'[job[s].id] = counts[job[s].id]
      BY <1>1, CountsStay DEF NoRaces
    <2> QED BY <2>1, <2>2, <2>3, <2>4, EndAligns
  <1>2. CASE Fail(r)
    <2>1. /\ Answer(r, "failed") /\ tx' = [tx EXCEPT ![r] = NoTx]
          /\ job' = [job EXCEPT ![r] = NoJob] /\ UNCHANGED <<rows, counts>>
      BY <1>2 DEF Fail, Abort
    <2>2. /\ job'[r].step = "none" /\ ~Busy(r)'
          /\ \A s \in Request : s # r => job'[s] = job[s] /\ req'[s] = req[s]
      BY <2>1, OthersStay, NoJobType DEF Busy
    <2> QED BY <2>1, <2>2, EndAligns
  <1> QED BY <1>1, <1>2

\* It holds at the start, and one case for every action of Next.
LEMMA AlignInductive ==
  ASSUME NoRaces
  PROVE  Spec => [](CountInv /\ AlignInv)
  <1>1. Init => AlignInv
    <2> SUFFICES ASSUME Init PROVE AlignInv
      OBVIOUS
    <2>1. \A r \in Request : tx[r] = NoTx /\ job[r] = NoJob /\ req[r] = NewRequest
      BY DEF Init, StockInit
    <2>2. NewRequest.status # "busy" /\ NoJob.step = "none"
      BY NoJobType DEF NewRequest
    <2> QED BY <2>1, <2>2, ClosedInside DEF AlignInv, Apart, Inside, Aligns, Busy
  <1>2. ASSUME CInv, StockInv, AlignInv, [Next]_vars PROVE AlignInv'
    <2>1. CASE UNCHANGED vars
      BY <1>2, <2>1 DEF vars, AlignInv, Apart, Inside, Aligns, Busy
    <2>2. ASSUME NEW r \in Request, Outside(r)
          PROVE  AlignInv'
      BY <1>2, <2>2, OutsideAligns
    <2>3. ASSUME NEW r \in Request, LoadReconcile(r) \/ CompareLine(r) \/ PostLine(r)
          PROVE  AlignInv'
      BY <1>2, <2>3, LoadReconcileAligns, CompareLineAligns, PostLineAligns
    <2>4. ASSUME NEW r \in Request, Reconcile(r) \/ Movement(r) \/ Fail(r)
          PROVE  AlignInv'
      BY <1>2, <2>4, MovementAligns, LastAligns
    <2> QED BY <1>2, <2>1, <2>2, <2>3, <2>4 DEF Next, Serve, Quiet, Outside
  <1>3. CountInv => CInv /\ StockInv
    BY DEF CountInv
  <1>4. Spec => []CountInv
    BY CountsInductive DEF NoRaces
  <1> QED BY <1>1, <1>2, <1>3, <1>4, PTL DEF Spec

-----------------------------------------------------------------------------
\* What a request says of its lines in the end, in the words of AtomicCounts.

\* The last entry about a product that is named exists.
LEMMA LatestExists ==
  ASSUME NEW e \in Seq(Entry), NEW p \in Atomic!Named(e)
  PROVE  /\ Atomic!Latest(e, p) \in DOMAIN e /\ e[Atomic!Latest(e, p)].product = p
         /\ \A m \in DOMAIN e : e[m].product = p => m <= Atomic!Latest(e, p)
  <1> DEFINE T == {Len(e) - n : n \in {k \in DOMAIN e : e[k].product = p}}
  <1>1. DOMAIN e = 1 .. Len(e) /\ Len(e) \in Nat
    BY LenProperties
  <1>2. T \subseteq Nat /\ T # {}
    BY <1>1 DEF Atomic!Named
  <1>3. PICK x \in T : \A y \in T : ~ (<<y, x>> \in OpToRel(<, Nat))
    <2> HIDE DEF T
    <2> QED BY <1>2, NatLessThanWellFounded, WFMin
  <1>4. \A y \in T : ~(y < x)
    BY <1>2, <1>3 DEF OpToRel
  <1>5. PICK n \in DOMAIN e : x = Len(e) - n /\ e[n].product = p
    OBVIOUS
  <1>6. ASSUME NEW m \in DOMAIN e, e[m].product = p PROVE m <= n
    <2>1. ~(Len(e) - m < Len(e) - n)
      BY <1>4, <1>5, <1>6
    <2> QED BY <1>1, <2>1
  <1> QED BY <1>5, <1>6 DEF Atomic!Latest

\* And it is the only one.
LEMMA LatestIs ==
  ASSUME NEW e \in Seq(Entry), NEW n \in DOMAIN e, NEW p, e[n].product = p,
         \A m \in DOMAIN e : e[m].product = p => m <= n
  PROVE  p \in Atomic!Named(e) /\ Atomic!Told(e)[p] = e[n].counted
  <1>1. p \in Atomic!Named(e)
    BY DEF Atomic!Named
  <1> DEFINE k == Atomic!Latest(e, p)
  <1>2. k \in DOMAIN e /\ k <= n /\ n <= k
    BY <1>1, LatestExists
  <1>3. DOMAIN e = 1 .. Len(e) /\ Len(e) \in Nat
    BY LenProperties
  <1> HIDE DEF k
  <1>4. k = n
    BY <1>2, <1>3
  <1> QED BY <1>1, <1>4 DEF Atomic!Told, k

\* The first entry holds of its line until a later one about it.
LEMMA ToldFirst ==
  ASSUME NEW e \in Seq(Entry), e # <<>>
  PROVE  Atomic!Told(e) = Over(Atomic!Told(Tail(e)), [p \in {e[1].product} |-> e[1].counted])
  <1> DEFINE f == Atomic!Told(Tail(e))
             g == [p \in {e[1].product} |-> e[1].counted]
  <1>1. /\ Tail(e) \in Seq(Entry) /\ 1 \in DOMAIN e
        /\ \A n \in DOMAIN Tail(e) : n + 1 \in DOMAIN e /\ Tail(e)[n] = e[n + 1]
        /\ \A n \in DOMAIN e : n = 1 \/ n - 1 \in DOMAIN Tail(e)
    BY TailFacts
  <1>2. DOMAIN e \subseteq Nat /\ DOMAIN Tail(e) \subseteq Nat
    BY <1>1, LenProperties
  <1>3. \A n \in DOMAIN e : n # 1 => Tail(e)[n - 1] = e[n]
    <2> SUFFICES ASSUME NEW n \in DOMAIN e, n # 1 PROVE Tail(e)[n - 1] = e[n]
      OBVIOUS
    <2>1. n - 1 \in DOMAIN Tail(e) /\ (n - 1) + 1 = n
      BY <1>1, <1>2
    <2> QED BY <1>1, <2>1
  <1>4. Atomic!Named(e) = Atomic!Named(Tail(e)) \cup {e[1].product}
    <2>1. \A n \in DOMAIN e : e[n].product \in Atomic!Named(Tail(e)) \cup {e[1].product}
      <3> SUFFICES ASSUME NEW n \in DOMAIN e, n # 1
                   PROVE  e[n].product \in Atomic!Named(Tail(e))
        OBVIOUS
      <3>1. n - 1 \in DOMAIN Tail(e) /\ Tail(e)[n - 1] = e[n]
        BY <1>1, <1>3
      <3> QED BY <3>1 DEF Atomic!Named
    <2>2. \A n \in DOMAIN Tail(e) : Tail(e)[n].product \in Atomic!Named(e)
      BY <1>1 DEF Atomic!Named
    <2>3. e[1].product \in Atomic!Named(e)
      BY <1>1 DEF Atomic!Named
    <2> QED BY <2>1, <2>2, <2>3 DEF Atomic!Named
  <1>5. ASSUME NEW p \in Atomic!Named(Tail(e)) PROVE Atomic!Told(e)[p] = f[p]
    <2> DEFINE n == Atomic!Latest(Tail(e), p)
    <2>1. /\ n \in DOMAIN Tail(e) /\ Tail(e)[n].product = p
          /\ \A m \in DOMAIN Tail(e) : Tail(e)[m].product = p => m <= n
      BY <1>1, <1>5, LatestExists
    <2>2. f[p] = Tail(e)[n].counted
      BY <1>5 DEF Atomic!Told
    <2> HIDE DEF n, f
    <2>3. n + 1 \in DOMAIN e /\ e[n + 1] = Tail(e)[n]
      BY <1>1, <2>1
    <2>4. ASSUME NEW m \in DOMAIN e, e[m].product = p PROVE m <= n + 1
      <3>1. CASE m = 1
        BY <1>2, <2>1, <3>1
      <3>2. CASE m # 1
        <4>1. m - 1 \in DOMAIN Tail(e) /\ Tail(e)[m - 1].product = p
          BY <1>1, <1>3, <2>4, <3>2
        <4>2. m - 1 <= n
          BY <2>1, <4>1
        <4> QED BY <1>2, <2>1, <4>2
      <3> QED BY <3>1, <3>2
    <2>5. Atomic!Told(e)[p] = e[n + 1].counted
      BY <2>1, <2>3, <2>4, LatestIs
    <2> QED BY <2>2, <2>3, <2>5
  <1>6. ASSUME e[1].product \notin Atomic!Named(Tail(e))
        PROVE  Atomic!Told(e)[e[1].product] = e[1].counted
    <2>1. ASSUME NEW m \in DOMAIN e, e[m].product = e[1].product PROVE m <= 1
      <3>1. CASE m # 1
        <4>1. m - 1 \in DOMAIN Tail(e) /\ Tail(e)[m - 1].product = e[1].product
          BY <1>1, <1>3, <2>1, <3>1
        <4> QED BY <1>6, <4>1 DEF Atomic!Named
      <3> QED BY <3>1
    <2> QED BY <1>1, <2>1, LatestIs
  <1>7. /\ DOMAIN f = Atomic!Named(Tail(e)) /\ DOMAIN g = {e[1].product}
        /\ DOMAIN Atomic!Told(e) = Atomic!Named(e)
        /\ Atomic!Told(e) = [p \in Atomic!Named(e) |-> Atomic!Told(e)[p]]
        /\ g[e[1].product] = e[1].counted
    BY DEF Atomic!Told
  <1> HIDE DEF f, g
  <1>8. Over(f, g) = [p \in Atomic!Named(e) |-> IF p \in Atomic!Named(Tail(e)) THEN f[p]
                                                                             ELSE g[p]]
    BY <1>4, <1>7 DEF Over
  <1>9. \A p \in Atomic!Named(e) : Atomic!Told(e)[p] = Over(f, g)[p]
    BY <1>4, <1>5, <1>6, <1>7, <1>8
  <1> QED BY <1>7, <1>8, <1>9 DEF f, g

\* Lines over lines over lines; and lines over none, and none over lines.
LEMMA OverOver ==
  ASSUME NEW f, NEW g, NEW h
  PROVE  Over(f, Over(g, h)) = Over(Over(f, g), h)
  <1>1. /\ DOMAIN Over(g, h) = DOMAIN g \cup DOMAIN h
        /\ \A p \in DOMAIN g \cup DOMAIN h :
              Over(g, h)[p] = IF p \in DOMAIN g THEN g[p] ELSE h[p]
    BY DEF Over
  <1>2. /\ DOMAIN Over(f, g) = DOMAIN f \cup DOMAIN g
        /\ \A p \in DOMAIN f \cup DOMAIN g :
              Over(f, g)[p] = IF p \in DOMAIN f THEN f[p] ELSE g[p]
    BY DEF Over
  <1> DEFINE D == (DOMAIN f \cup DOMAIN g) \cup DOMAIN h
             x == Over(f, Over(g, h))
             y == Over(Over(f, g), h)
  <1>3. x = [p \in D |-> x[p]] /\ y = [p \in D |-> y[p]]
    <2>1. DOMAIN f \cup (DOMAIN g \cup DOMAIN h) = D
      OBVIOUS
    <2> QED BY <1>1, <1>2, <2>1 DEF Over
  <1>4. \A p \in D : x[p] = IF p \in DOMAIN f THEN f[p]
                            ELSE IF p \in DOMAIN g THEN g[p] ELSE h[p]
    BY <1>1 DEF Over
  <1>5. \A p \in D : y[p] = IF p \in DOMAIN f THEN f[p]
                            ELSE IF p \in DOMAIN g THEN g[p] ELSE h[p]
    BY <1>2 DEF Over
  <1> QED BY <1>3, <1>4, <1>5

\* Before its entries, and after them, a request has said all there is to say.
LEMMA ToldEnds ==
  ASSUME NEW f, f = [p \in DOMAIN f |-> f[p]]
  PROVE  Over(f, NoLines) = f /\ Over(Atomic!Told(<<>>), f) = f
  <1>1. DOMAIN NoLines = {}
    BY DEF NoLines
  <1>2. Over(f, NoLines) = [p \in DOMAIN f |-> f[p]]
    BY <1>1 DEF Over
  <1>3. DOMAIN Atomic!Told(<<>>) = {}
    <2>1. DOMAIN <<>> = {}
      OBVIOUS
    <2> QED BY <2>1 DEF Atomic!Told, Atomic!Named
  <1>4. Over(Atomic!Told(<<>>), f) = [p \in DOMAIN f |-> f[p]]
    BY <1>3 DEF Over
  <1> QED BY <1>2, <1>4

-----------------------------------------------------------------------------
\* The handlers as one step each.  A snapshot is still what its count will
\* record, the entries still to write complete what the request says, and a
\* movement is about to book its delta, or has booked it, on the committed row.
Recorded(r) == job[r].step = "create" =>
    /\ req[r].stock = {<<p, job[r].at>> : p \in Product}
    /\ job[r].lines = [p \in Lined(job[r].at) |-> rows[<<p, job[r].at>>]["available"]]

Entering(r) == job[r].step = "enter" =>
    \E e \in Entries : Over(Atomic!Told(job[r].todo), job[r].lines) = Atomic!Told(e)

Booked(t, i, d, base) ==
    \/ /\ t.held = {} /\ t.todo = <<[item |-> i, delta |-> d]>>
       /\ t.fresh => t.before = base[i]
    \/ t.held = {i} /\ t.todo = <<>> /\ t.after[i] = Plus(base[i], d)

Moving(r) == Busy(r) /\ tx[r].open /\ job[r].step = "none" =>
    \E i \in Item, d \in Delta :
        i \in req[r].stock /\ Atomic!Booking(d) /\ Booked(tx[r], i, d, rows)

StepInv == \A r \in Request : Recorded(r) /\ Entering(r) /\ Moving(r)

\* A step of r that leaves the other requests, handlers and transactions, and
\* the rows of their stock.
LEMMA SoloStep ==
  ASSUME CInv, AlignInv, StepInv, NEW r \in Request,
         Recorded(r)', Entering(r)', Moving(r)',
         \A s \in Request : s # r => job'[s] = job[s] /\ req'[s] = req[s] /\ tx'[s] = tx[s],
         \/ UNCHANGED <<rows, stocked>>
         \/ /\ Busy(r)
            /\ \A i \in Item \ req[r].stock :
                  rows'[i] = rows[i] /\ (i \in stocked' <=> i \in stocked)
  PROVE  StepInv'
  <1> SUFFICES ASSUME NEW s \in Request, s # r
               PROVE  Recorded(s)' /\ Entering(s)' /\ Moving(s)'
    BY DEF StepInv
  <1>1. Recorded(s) /\ Entering(s) /\ Moving(s)
    BY DEF StepInv
  <1>2. Busy(s) => \A i \in Item \cap req[s].stock :
                      rows'[i] = rows[i] /\ (i \in stocked' <=> i \in stocked)
    BY DEF AlignInv, Apart
  <1>3. Recorded(s)'
    <2> SUFFICES ASSUME job[s].step = "create" PROVE Recorded(s)'
      BY DEF Recorded
    <2> DEFINE w == job[s].at
    <2>1. Busy(s) /\ w \in Warehouse
      <3>1. JobOK(job[s])
        BY DEF CInv, Typed
      <3> QED BY <3>1 DEF CInv, Attended, JobOK
    <2>2. /\ req[s].stock = {<<p, w>> : p \in Product}
          /\ job[s].lines = [p \in Lined(w) |-> rows[<<p, w>>]["available"]]
      BY <1>1 DEF Recorded
    <2>3. \A p \in Product : <<p, w>> \in Item \cap req[s].stock
      BY <2>1, <2>2 DEF Item
    <2>4. \A p \in Product : /\ rows'[<<p, w>>] = rows[<<p, w>>]
                             /\ <<p, w>> \in stocked' <=> <<p, w>> \in stocked
      BY <1>2, <2>1, <2>3
    <2> DEFINE now  == {p \in Product : <<p, w>> \in stocked}
               then == {p \in Product : <<p, w>> \in stocked'}
    <2>5. then = now /\ Lined(w) = now
      BY <2>4 DEF Lined
    <2>6. [p \in then |-> rows'[<<p, w>>]["available"]]
            = [p \in now |-> rows[<<p, w>>]["available"]]
      BY <2>4, <2>5
    <2>7. job'[s] = job[s] /\ req'[s] = req[s]
      OBVIOUS
    <2>8. job'[s].lines = [p \in then |-> rows'[<<p, w>>]["available"]]
      BY <2>2, <2>5, <2>6, <2>7
    <2> QED BY <2>2, <2>7, <2>8 DEF Recorded, Lined
  <1>4. Entering(s)'
    BY <1>1 DEF Entering
  <1>5. Moving(s)'
    <2> SUFFICES ASSUME Busy(s), tx[s].open, job[s].step = "none" PROVE Moving(s)'
      BY DEF Moving, Busy
    <2>1. PICK i \in Item, d \in Delta :
            i \in req[s].stock /\ Atomic!Booking(d) /\ Booked(tx[s], i, d, rows)
      BY <1>1 DEF Moving
    <2>2. rows'[i] = rows[i]
      BY <1>2, <2>1
    <2>3. Booked(tx[s], i, d, rows')
      BY <2>1, <2>2 DEF Booked
    <2> QED BY <2>1, <2>3 DEF Moving
  <1> QED BY <1>3, <1>4, <1>5

\* The snapshot is of this moment, and of the stock that its request names.
LEMMA SnapshotRecords ==
  ASSUME CInv, NEW r \in Request, Snapshot(r)
  PROVE  Recorded(r)' /\ job'[r].step = "create"
  <1>1. PICK c \in Count, w \in Warehouse :
          /\ Start(r, "create", c, {<<p, w>> : p \in Product})
          /\ job' = [job EXCEPT ![r] = [@ EXCEPT
                       !.step = "create", !.id = c, !.at = w,
                       !.lines = [p \in Lined(w) |-> rows[<<p, w>>]["available"]]]]
          /\ UNCHANGED <<rows, stocked>>
    BY DEF Snapshot
  <1> DEFINE f == [p \in Lined(w) |-> rows[<<p, w>>]["available"]]
             x == [job[r] EXCEPT !.step = "create", !.id = c, !.at = w, !.lines = f]
  <1>2. req'[r].stock = {<<p, w>> : p \in Product}
    BY <1>1, StartFacts DEF CInv, Typed, Op
  <1>3. JobOK(job[r]) /\ job' = [job EXCEPT ![r] = x]
    BY <1>1 DEF CInv, Typed
  <1> HIDE DEF f
  <1>4. x.step = "create" /\ x.at = w /\ x.lines = f
    BY <1>3 DEF JobOK, JobType
  <1> HIDE DEF x
  <1>5. job'[r].step = "create" /\ job'[r].at = w /\ job'[r].lines = f
    BY <1>3, <1>4, OthersStay
  <1>6. f = [p \in Lined(w)' |-> rows'[<<p, w>>]["available"]]
    BY <1>1 DEF f, Lined
  <1> QED BY <1>2, <1>5, <1>6 DEF Recorded

\* The whole of the entries is still to be written.
LEMMA LoadEnterTells ==
  ASSUME CInv, NEW r \in Request, LoadEnter(r)
  PROVE  Entering(r)' /\ job'[r].step = "enter"
  <1>1. PICK c \in Count, e \in Entries :
          /\ Start(r, "enter", c, {})
          /\ job' = [job EXCEPT ![r] = [@ EXCEPT !.step = "enter", !.id = c, !.todo = e]]
    BY DEF LoadEnter
  <1> DEFINE x == [job[r] EXCEPT !.step = "enter", !.id = c, !.todo = e]
  <1>2. JobOK(job[r]) /\ job[r] = NoJob
    BY <1>1 DEF Start, MayStart, CInv, Typed, Attended, Busy, JobOK
  <1>3. x.step = "enter" /\ x.todo = e /\ x.lines = NoLines
    BY <1>2 DEF NoJob
  <1>4. job' = [job EXCEPT ![r] = x]
    BY <1>1
  <1> HIDE DEF x
  <1>5. job'[r] = x
    BY <1>4, OthersStay
  <1>6. Over(Atomic!Told(e), NoLines) = Atomic!Told(e)
    BY ToldEnds DEF Atomic!Told
  <1> QED BY <1>3, <1>5, <1>6 DEF Entering

\* What is written of an entry is no longer to be written.
LEMMA EnterLineTells ==
  ASSUME CInv, StepInv, NEW r \in Request, EnterLine(r)
  PROVE  Entering(r)' /\ job'[r].step = "enter"
  <1> DEFINE q == job[r].todo
             f == [p \in {q[1].product} |-> q[1].counted]
             g == Over(f, job[r].lines)
             x == [job[r] EXCEPT !.todo = Tail(q), !.lines = g]
  <1>1. job[r].step = "enter" /\ q # <<>> /\ job' = [job EXCEPT ![r] = x]
    BY DEF EnterLine
  <1>2. JobOK(job[r]) /\ q \in Seq(Entry)
    BY <1>1 DEF CInv, Typed, JobOK
  <1>3. PICK e \in Entries : Over(Atomic!Told(q), job[r].lines) = Atomic!Told(e)
    BY <1>1 DEF StepInv, Entering
  <1>4. Over(Atomic!Told(Tail(q)), g) = Atomic!Told(e)
    <2> HIDE DEF f
    <2>1. Over(Atomic!Told(Tail(q)), g)
            = Over(Over(Atomic!Told(Tail(q)), f), job[r].lines)
      BY OverOver
    <2>2. Over(Atomic!Told(Tail(q)), f) = Atomic!Told(q)
      BY <1>1, <1>2, ToldFirst DEF f
    <2> QED BY <1>3, <2>1, <2>2
  <1> HIDE DEF g
  <1>5. x.step = "enter" /\ x.todo = Tail(q) /\ x.lines = g
    BY <1>1, <1>2 DEF JobOK, JobType
  <1> HIDE DEF x
  <1>6. job'[r] = x
    BY <1>1, OthersStay
  <1> QED BY <1>4, <1>5, <1>6 DEF Entering

\* The statements about the tables of the counts.
LEMMA OutsideSolo ==
  ASSUME CInv, StockInv, AlignInv, StepInv, NEW r \in Request, Outside(r)
  PROVE  StepInv'
  <1>1. /\ UNCHANGED <<rows, tx, stocked>>
        /\ \A s \in Request : s # r => job'[s] = job[s] /\ req'[s] = req[s] /\ tx'[s] = tx[s]
    BY OutsideSteps
  <1>2. Recorded(r)' /\ Entering(r)' /\ Moving(r)'
    <2>1. CASE Snapshot(r)
      BY <2>1, SnapshotRecords DEF Entering, Moving
    <2>2. CASE LoadEnter(r)
      BY <2>2, LoadEnterTells DEF Recorded, Moving
    <2>3. CASE EnterLine(r)
      BY <2>3, EnterLineTells DEF Recorded, Moving
    <2>4. CASE Create(r) \/ Enter(r)
      <3>1. \E step \in {"reload", "log"} :
               job' = [job EXCEPT ![r] = [job[r] EXCEPT !.step = step]]
        BY <2>4 DEF Create, Enter
      <3>2. PICK step \in {"reload", "log"} :
               job' = [job EXCEPT ![r] = [job[r] EXCEPT !.step = step]]
        BY <3>1
      <3>3. [job[r] EXCEPT !.step = step].step = step
        BY LogType DEF CInv, Typed
      <3>4. job'[r].step = step
        BY <3>2, <3>3, OthersStay
      <3> QED BY <3>4 DEF Recorded, Entering, Moving
    <2>5. CASE Reload(r) \/ Log(r) \/ Reject(r)
      <3>1. \E how \in {"ok", "refused"} : Answer(r, how)
        BY <2>5 DEF Reload, Log, Reject
      <3>2. ~Busy(r)'
        BY <3>1, OthersStay DEF Busy
      <3>3. job'[r].step = "none"
        <4>1. CASE Reject(r)
          <5>1. req[r].status = "new" /\ UNCHANGED job
            BY <4>1 DEF Reject
          <5> QED BY <5>1 DEF CInv, Attended, Busy
        <4>2. CASE Reload(r) \/ Log(r)
          <5>1. job' = [job EXCEPT ![r] = NoJob]
            BY <4>2 DEF Reload, Log
          <5> QED BY <5>1, OthersStay, NoJobType
        <4> QED BY <2>5, <4>1, <4>2
      <3> QED BY <3>2, <3>3 DEF Recorded, Entering, Moving
    <2> QED BY <2>1, <2>2, <2>3, <2>4, <2>5 DEF Outside
  <1> QED BY <1>1, <1>2, SoloStep

\* The types of a transaction, as the actions of its owner find them.
LEMMA MineType ==
  ASSUME StockInv, NEW r \in Request
  PROVE  /\ tx[r] \in TxType /\ rows \in [Item -> Row]
         /\ tx[r].held \subseteq Item /\ tx[r].after \in [Item -> Row]
  BY DEF StockInv, StockTypeOK, TxType

\* A step of a transaction that goes on.
LEMMA MovingOn ==
  ASSUME CInv, StockInv, AlignInv, StepInv, NEW r \in Request, ReadItem(r) \/ WriteItem(r),
         job[r].step \in {"none", "reconcile"}, UNCHANGED <<stocked, job>>
  PROVE  StepInv'
  <1>1. PICK u : tx' = [tx EXCEPT ![r] = u]
    BY DEF ReadItem, WriteItem
  <1>2. UNCHANGED <<rows, req>> /\ tx[r].open
    BY DEF ReadItem, WriteItem, Ready
  <1>3. \A s \in Request : s # r => tx'[s] = tx[s]
    BY <1>1, TxSet DEF StockInv
  <1>4. Moving(r)'
    <2> SUFFICES ASSUME Busy(r), job[r].step = "none" PROVE Moving(r)'
      BY <1>2 DEF Moving, Busy
    <2>1. PICK i \in Item, d \in Delta :
            i \in req[r].stock /\ Atomic!Booking(d) /\ Booked(tx[r], i, d, rows)
      BY <1>2 DEF StepInv, Moving
    <2>2. tx[r].todo # <<>>
      BY DEF ReadItem, WriteItem, Ready
    <2> DEFINE m == [item |-> i, delta |-> d]
    <2>3. tx[r].held = {} /\ tx[r].todo = <<m>> /\ (tx[r].fresh => tx[r].before = rows[i])
      BY <2>1, <2>2 DEF Booked
    <2>4. tx[r].todo[1] = m /\ m.item = i /\ m.delta = d /\ Tail(tx[r].todo) = <<>>
      BY <2>3
    <2>5. Booked(tx'[r], i, d, rows)
      <3>1. CASE ReadItem(r)
        <4>1. tx'[r] = Loaded(tx[r], View(r, i))
          BY <2>4, <3>1, TxSet DEF ReadItem, Target, StockInv
        <4>2. View(r, i) = rows[i]
          BY <2>3 DEF View
        <4>3. tx'[r].held = {} /\ tx'[r].todo = <<m>> /\ tx'[r].before = rows[i]
          BY <2>3, <4>1, <4>2, MineType DEF Loaded, TxType
        <4> QED BY <4>3 DEF Booked
      <3>2. CASE WriteItem(r)
        <4> DEFINE t == tx[r]
                   row == Plus(rows[i], d)
        <4>1. Result(r) = row
          BY <2>3, <2>4, <3>2 DEF WriteItem, Ready, Result
        <4>2. tx'[r] = Written(t, i, row)
          BY <2>4, <3>2, <4>1, TxSet DEF WriteItem, Target, StockInv
        <4>3. t \in TxType
          BY MineType
        <4> HIDE DEF row
        <4>4. Written(t, i, row).held = t.held \cup {i} /\ Written(t, i, row).after[i] = row
              /\ Written(t, i, row).todo = Tail(t.todo)
          BY <4>3 DEF Written, TxType
        <4> QED BY <2>3, <2>4, <4>2, <4>4 DEF Booked, row
      <3> QED BY <3>1, <3>2
    <2> QED BY <1>2, <2>1, <2>5 DEF Moving
  <1>5. Recorded(r)' /\ Entering(r)'
    BY DEF Recorded, Entering
  <1> QED BY <1>2, <1>3, <1>4, <1>5, SoloStep

\* A request that gives up, or is done, with a commit or without.
LEMMA EndSolo ==
  ASSUME CInv, StockInv, AlignInv, StepInv, NEW r \in Request,
         tx' = [tx EXCEPT ![r] = NoTx],
         \A s \in Request : s # r => job'[s] = job[s] /\ req'[s] = req[s],
         job'[r].step \in {"none", "log"},
         \/ UNCHANGED <<rows, stocked>>
         \/ Install(r) /\ stocked' = stocked \cup tx[r].held
  PROVE  StepInv'
  <1>1. tx'[r] = NoTx /\ \A s \in Request : s # r => tx'[s] = tx[s]
    BY TxSet DEF StockInv
  <1>2. Recorded(r)' /\ Entering(r)' /\ Moving(r)'
    BY <1>1 DEF Recorded, Entering, Moving, NoTx
  <1>3. CASE Install(r) /\ stocked' = stocked \cup tx[r].held
    <2>1. Busy(r)
      BY <1>3 DEF Install, StockInv, OpenFor
    <2>2. \A i \in Item \ req[r].stock : rows'[i] = rows[i] /\ i \notin tx[r].held
      BY <1>3, InstallFrame DEF AlignInv, Inside
    <2> QED BY <1>1, <1>2, <1>3, <2>1, <2>2, SoloStep
  <1> QED BY <1>1, <1>2, <1>3, SoloStep

\* The transaction of a movement.
LEMMA MovementSolo ==
  ASSUME CInv, StockInv, AlignInv, StepInv, NEW r \in Request, Movement(r)
  PROVE  StepInv'
  <1>1. job[r].step = "none" /\ UNCHANGED <<counts, job>>
    BY MovementSteps
  <1>2. CASE /\ \E op \in Movements, m \in Move : Posts(r, op, m) /\ Atomic!Booking(m.delta)
             /\ UNCHANGED stocked
    <2>1. PICK op \in Movements, m \in Move : Posts(r, op, m) /\ Atomic!Booking(m.delta)
      BY <1>2
    <2>2. /\ Start(r, op, r, {m.item}) /\ op \in Op \ {"none"} /\ op # "enter"
          /\ tx' = [tx EXCEPT ![r] = Pending(<<m>>)] /\ UNCHANGED rows
      BY <2>1 DEF Posts, Movements, Op
    <2>3. req'[r].stock = {m.item} /\ \A s \in Request : s # r => req'[s] = req[s]
      BY <2>2, StartFacts DEF CInv, Typed
    <2>4. tx'[r] = Pending(<<m>>) /\ \A s \in Request : s # r => tx'[s] = tx[s]
      BY <2>2, TxSet DEF StockInv
    <2>5. m = [item |-> m.item, delta |-> m.delta] /\ m.item \in Item /\ m.delta \in Delta
      BY DEF Move
    <2>6. tx'[r].held = {} /\ tx'[r].todo = <<m>> /\ ~tx'[r].fresh
      BY <2>4 DEF Pending, NoTx
    <2>7. Booked(tx'[r], m.item, m.delta, rows')
      BY <2>5, <2>6 DEF Booked
    <2>8. Moving(r)'
      BY <2>1, <2>3, <2>5, <2>7 DEF Moving
    <2>9. Recorded(r)' /\ Entering(r)'
      BY <1>1 DEF Recorded, Entering
    <2> QED BY <1>1, <1>2, <2>2, <2>3, <2>4, <2>8, <2>9, SoloStep
  <1>3. CASE (ReadItem(r) \/ WriteItem(r)) /\ UNCHANGED stocked
    BY <1>1, <1>3, MovingOn
  <1>4. CASE Refuse(r) /\ UNCHANGED stocked
    <2>1. tx' = [tx EXCEPT ![r] = NoTx] /\ Answer(r, "refused") /\ UNCHANGED rows
      BY <1>4 DEF Refuse
    <2>2. \A s \in Request : s # r => req'[s] = req[s]
      BY <2>1, OthersStay
    <2> QED BY <1>1, <1>4, <2>1, <2>2, EndSolo
  <1>5. CASE Install(r) /\ UNCHANGED req /\ stocked' = stocked \cup tx[r].held
    <2>1. tx' = [tx EXCEPT ![r] = NoTx]
      BY <1>5 DEF Install
    <2> QED BY <1>1, <1>5, <2>1, EndSolo
  <1>6. CASE Replies(r)
    <2>1. \A s \in Request : s # r => req'[s] = req[s]
      BY <1>6, OthersStay DEF Replies
    <2> QED BY <1>1, <1>6, <2>1, RepliesClosed, EndSolo
  <1> QED BY <1>2, <1>3, <1>4, <1>5, <1>6, MovementSteps

\* The statements of a reconciliation, and what fails.
LEMMA ReconcileSolo ==
  ASSUME CInv, StockInv, AlignInv, StepInv, NEW r \in Request,
         \/ LoadReconcile(r) \/ CompareLine(r) \/ PostLine(r) \/ Reconcile(r) \/ Fail(r)
  PROVE  StepInv'
  <1>1. CASE LoadReconcile(r)
    <2>1. PICK c \in Count :
            /\ Start(r, "reconcile", c, Items(c))
            /\ job' = [job EXCEPT ![r] = [@ EXCEPT
                         !.step = "reconcile", !.id = c, !.lines = counts[c].counted,
                         !.todo = ByName[DOMAIN counts[c].counted]]]
            /\ tx' = [tx EXCEPT ![r] = Pending(<<>>)]
            /\ UNCHANGED <<rows, stocked>>
      BY <1>1 DEF LoadReconcile
    <2>2. job'[r].step = "reconcile" /\ \A s \in Request : s # r => job'[s] = job[s]
      BY <2>1 DEF CInv, Typed, JobOK, JobType
    <2>3. \A s \in Request : s # r => req'[s] = req[s] /\ tx'[s] = tx[s]
      <3>1. \A s \in Request : s # r => req'[s] = req[s]
        BY <2>1, OthersStay DEF Op
      <3>2. \A s \in Request : s # r => tx'[s] = tx[s]
        BY <2>1, TxSet DEF StockInv
      <3> QED BY <3>1, <3>2
    <2>4. Recorded(r)' /\ Entering(r)' /\ Moving(r)'
      BY <2>2 DEF Recorded, Entering, Moving
    <2> QED BY <2>1, <2>2, <2>3, <2>4, SoloStep
  <1>2. CASE CompareLine(r)
    <2>1. /\ job[r].step = "reconcile" /\ job' = [job EXCEPT ![r].todo = Tail(@)]
          /\ UNCHANGED <<rows, req, stocked>>
      BY <1>2 DEF CompareLine
    <2>2. job'[r].step = "reconcile" /\ \A s \in Request : s # r => job'[s] = job[s]
      BY <2>1 DEF CInv, Typed, JobOK, JobType
    <2>3. PICK u : tx' = [tx EXCEPT ![r] = u]
      BY <1>2 DEF CompareLine
    <2>4. \A s \in Request : s # r => tx'[s] = tx[s]
      BY <2>3, TxSet DEF StockInv
    <2>5. Recorded(r)' /\ Entering(r)' /\ Moving(r)'
      BY <2>2 DEF Recorded, Entering, Moving
    <2> QED BY <2>1, <2>2, <2>4, <2>5, SoloStep
  <1>3. CASE PostLine(r)
    <2>1. CASE (ReadItem(r) \/ WriteItem(r)) /\ UNCHANGED job
      BY <1>3, <2>1, MovingOn DEF PostLine
    <2>2. CASE Refuse(r) /\ job' = [job EXCEPT ![r] = NoJob]
      <3>1. /\ tx' = [tx EXCEPT ![r] = NoTx] /\ Answer(r, "refused")
            /\ UNCHANGED <<rows, stocked>>
        BY <1>3, <2>2 DEF Refuse, PostLine
      <3>2. /\ job'[r].step = "none" /\ ~Busy(r)'
            /\ \A s \in Request : s # r => job'[s] = job[s] /\ req'[s] = req[s]
        BY <2>2, <3>1, OthersStay, NoJobType DEF Busy
      <3> QED BY <3>1, <3>2, EndSolo
    <2> QED BY <1>3, <2>1, <2>2 DEF PostLine
  <1>4. CASE Reconcile(r)
    <2>1. /\ Install(r) /\ UNCHANGED req /\ stocked' = stocked \cup tx[r].held
          /\ tx' = [tx EXCEPT ![r] = NoTx]
          /\ job' = [job EXCEPT ![r] = [@ EXCEPT !.step = "log"]]
      BY <1>4 DEF Reconcile, Install
    <2>2. job'[r].step = "log" /\ \A s \in Request : s # r => job'[s] = job[s]
      BY <2>1 DEF CInv, Typed, JobOK, JobType
    <2> QED BY <2>1, <2>2, EndSolo
  <1>5. CASE Fail(r)
    <2>1. /\ Answer(r, "failed") /\ tx' = [tx EXCEPT ![r] = NoTx]
          /\ job' = [job EXCEPT ![r] = NoJob] /\ UNCHANGED <<rows, stocked>>
      BY <1>5 DEF Fail, Abort
    <2>2. /\ job'[r].step = "none" /\ ~Busy(r)'
          /\ \A s \in Request : s # r => job'[s] = job[s] /\ req'[s] = req[s]
      BY <2>1, OthersStay, NoJobType DEF Busy
    <2> QED BY <2>1, <2>2, EndSolo
  <1> QED BY <1>1, <1>2, <1>3, <1>4, <1>5

\* It holds at the start, and one case for every action of Next.
LEMMA StepInductive ==
  ASSUME NoRaces
  PROVE  Spec => [](CountInv /\ AlignInv /\ StepInv)
  <1>1. Init => StepInv
    <2> SUFFICES ASSUME Init PROVE StepInv
      OBVIOUS
    <2>1. \A r \in Request : job[r] = NoJob /\ req[r] = NewRequest
      BY DEF Init, StockInit
    <2>2. NewRequest.status # "busy" /\ NoJob.step = "none"
      BY NoJobType DEF NewRequest
    <2> QED BY <2>1, <2>2 DEF StepInv, Recorded, Entering, Moving, Busy
  <1>2. ASSUME CountInv, AlignInv, StepInv, [Next]_vars PROVE StepInv'
    <2>1. CInv /\ StockInv
      BY <1>2 DEF CountInv
    <2>2. CASE UNCHANGED vars
      BY <1>2, <2>2 DEF vars, StepInv, Recorded, Entering, Moving, Busy, Lined
    <2>3. ASSUME NEW r \in Request, Outside(r)
          PROVE  StepInv'
      BY <1>2, <2>1, <2>3, OutsideSolo
    <2>4. ASSUME NEW r \in Request,
                 \/ LoadReconcile(r) \/ CompareLine(r) \/ PostLine(r)
                 \/ Reconcile(r) \/ Fail(r)
          PROVE  StepInv'
      BY <1>2, <2>1, <2>4, ReconcileSolo
    <2>5. ASSUME NEW r \in Request, Movement(r)
          PROVE  StepInv'
      BY <1>2, <2>1, <2>5, MovementSolo
    <2> QED BY <1>2, <2>2, <2>3, <2>4, <2>5 DEF Next, Serve, Quiet, Outside
  <1> QED BY <1>1, <1>2, AlignInductive, PTL DEF Spec

\* A count opens with the stock of that moment.
LEMMA CreateIsAtomic ==
  ASSUME CInv, StepInv, NEW r \in Request, Create(r)
  PROVE  \E c \in Count : Atomic!Opened(c)
  <1>1. PICK c \in Count : c = job[r].id
    BY DEF Create, CInv, Attended
  <1> DEFINE w == job[r].at
  <1>2. /\ job[r].step = "create" /\ UNCHANGED <<rows, stocked>>
        /\ counts' = [counts EXCEPT ![c] =
                        [status |-> "OPEN", warehouse |-> w,
                         recorded |-> job[r].lines, counted |-> NoLines]]
    BY <1>1 DEF Create
  <1>3. w \in Warehouse /\ counts[c].status = "NONE"
    <2>1. JobOK(job[r]) /\ Holds(job[r], counts[c])
      BY <1>1, <1>2 DEF CInv, Typed, Guarded
    <2> QED BY <1>2, <2>1 DEF JobOK, Holds
  <1>4. job[r].lines = [p \in {q \in Product : <<q, w>> \in stocked}
                                |-> rows[<<p, w>>]["available"]]
    BY <1>2 DEF StepInv, Recorded, Lined
  <1> HIDE DEF w
  <1> QED BY <1>2, <1>3, <1>4, SameWords DEF Atomic!Opened

\* The quantities of a request are entered together.
LEMMA EnterIsAtomic ==
  ASSUME CInv, StepInv, NEW r \in Request, Enter(r)
  PROVE  \E c \in Count, e \in Entries : Atomic!Entered(c, e)
  <1>1. PICK c \in Count : c = job[r].id
    BY DEF Enter, CInv, Attended
  <1> DEFINE f == job[r].lines
             old == counts[c].counted
  <1>2. /\ job[r].step = "enter" /\ job[r].todo = <<>> /\ UNCHANGED <<rows, stocked>>
        /\ counts' = [counts EXCEPT ![c].counted = Over(f, @)]
    BY <1>1 DEF Enter
  <1>3. JobOK(job[r]) /\ Holds(job[r], counts[c])
    BY <1>1, <1>2 DEF CInv, Typed, Guarded
  <1>4. /\ IsLines(f) /\ DOMAIN f \subseteq DOMAIN counts[c].recorded
        /\ counts[c].status = "OPEN"
    BY <1>2, <1>3, LinesType DEF JobOK, JobType, Holds
  <1>5. PICK e \in Entries : Over(Atomic!Told(job[r].todo), f) = Atomic!Told(e)
    BY <1>2 DEF StepInv, Entering
  <1>6. f = Atomic!Told(e)
    <2>1. f = [p \in DOMAIN f |-> f[p]]
      BY <1>4 DEF IsLines
    <2> QED BY <1>2, <1>5, <2>1, ToldEnds
  <1>7. DOMAIN f = Atomic!Named(e)
    BY <1>6 DEF Atomic!Told
  <1>8. Over(f, old) = [p \in Atomic!Named(e) \cup DOMAIN old |->
                          IF p \in Atomic!Named(e) THEN Atomic!Told(e)[p] ELSE old[p]]
    BY <1>6, <1>7 DEF Over
  <1>9. counts' = [counts EXCEPT ![c] = [counts[c] EXCEPT !.counted = Over(f, old)]]
    BY <1>2
  <1> HIDE DEF f
  <1> QED BY <1>2, <1>4, <1>7, <1>8, <1>9 DEF Atomic!Entered

\* What was counted is available, and every row that changes exists.
LEMMA ReconcileIsAtomic ==
  ASSUME CInv, StockInv, AlignInv, NEW r \in Request, Reconcile(r)
  PROVE  \E c \in Count : Atomic!Reconciled(c)
  <1>1. PICK c \in Count : c = job[r].id
    BY DEF Reconcile, CInv, Attended
  <1> DEFINE j == job[r]
             w == counts[c].warehouse
             counted == counts[c].counted
             Made(i) == IF i[2] = w /\ i[1] \in DOMAIN counted
                        THEN [rows[i] EXCEPT !["available"] = counted[i[1]]]
                        ELSE rows[i]
  <1>2. /\ j.step = "reconcile" /\ j.todo = <<>> /\ tx[r].todo = <<>>
        /\ rows' = [i \in Item |-> View(r, i)] /\ stocked' = stocked \cup tx[r].held
        /\ counts' = [counts EXCEPT ![c].status = "RECONCILED"]
    BY <1>1 DEF Reconcile, Install
  <1>3. /\ j.lines = counted /\ counts[c].status = "OPEN"
        /\ Aligning(tx[r], j, w, req[r].stock, rows)
    BY <1>1, <1>2 DEF CInv, Guarded, Holds, AlignInv, Aligns
  <1>4. Ahead(j) = {}
    BY <1>2 DEF Ahead
  <1>5. /\ tx[r].held \subseteq {<<p, w>> : p \in DOMAIN j.lines}
        /\ \A i \in tx[r].held : tx[r].after[i] # rows[i]
        /\ \A p \in DOMAIN j.lines : Settled(tx[r], j, w, rows, p)
    BY <1>2, <1>3, <1>4 DEF Aligning, Posting
  <1>6. ASSUME NEW i \in Item PROVE View(r, i) = Made(i)
    <2>1. i = <<i[1], i[2]>>
      BY DEF Item
    <2>2. CASE i[2] = w /\ i[1] \in DOMAIN j.lines
      BY <1>3, <1>5, <2>1, <2>2 DEF Settled, Seen, Counted, View
    <2>3. CASE ~(i[2] = w /\ i[1] \in DOMAIN j.lines)
      <3>1. i \notin tx[r].held
        BY <1>5, <2>1, <2>3
      <3> QED BY <1>3, <2>3, <3>1 DEF View
    <2> QED BY <2>2, <2>3
  <1>7. rows' = [i \in Item |-> Made(i)]
    BY <1>2, <1>6
  <1>8. stocked' = stocked \cup {i \in Item : rows'[i] # rows[i]}
    <2>1. \A i \in Item : i \in tx[r].held <=> rows'[i] # rows[i]
      BY <1>2, <1>5 DEF View
    <2>2. tx[r].held \subseteq Item
      BY HeldType
    <2> QED BY <1>2, <2>1, <2>2
  <1> QED BY <1>2, <1>3, <1>7, <1>8, SameWords DEF Atomic!Reconciled

\* A movement changes one item by what it books.
LEMMA MovementIsAtomic ==
  ASSUME CInv, StockInv, StepInv, NEW r \in Request, Movement(r)
  PROVE  \/ UNCHANGED <<rows, stocked, counts>>
         \/ \E i \in Item : Atomic!Moved(i)
  <1>1. job[r].step = "none" /\ UNCHANGED counts
    BY MovementSteps
  <1>2. CASE Install(r) /\ stocked' = stocked \cup tx[r].held
    <2>1. /\ Busy(r) /\ tx[r].open /\ tx[r].todo = <<>>
          /\ rows' = [i \in Item |-> View(r, i)]
      BY <1>2 DEF Install, StockInv, OpenFor
    <2>2. PICK i \in Item, d \in Delta : Atomic!Booking(d) /\ Booked(tx[r], i, d, rows)
      BY <1>1, <2>1 DEF StepInv, Moving
    <2>3. tx[r].held = {i} /\ tx[r].after[i] = Plus(rows[i], d)
      BY <2>1, <2>2 DEF Booked
    <2>4. rows \in [Item -> Row] /\ rows[i] \in Delta
      BY MineType, RowIsDelta
    <2>5. rows'[i] = Plus(rows[i], d) /\ \A k \in Item : k # i => rows'[k] = rows[k]
      BY <2>1, <2>3 DEF View
    <2>6. Minus(Plus(rows[i], d), rows[i]) = d
      BY <2>4 DEF Minus, Plus, Delta
    <2>7. rows' = [rows EXCEPT ![i] = rows'[i]]
      BY <2>1, <2>4, <2>5
    <2> QED BY <1>1, <1>2, <2>2, <2>3, <2>5, <2>6, <2>7, SameWords DEF Atomic!Moved
  <1>3. CASE UNCHANGED <<rows, stocked>>
    BY <1>1, <1>3
  <1> QED BY <1>2, <1>3, MovementSteps DEF Posts, ReadItem, WriteItem, Refuse, Replies

(***************************************************************************)
(* While no two requests race on an item and only entries overlap on one   *)
(* count, the handlers of StockCountsService do what AtomicCounts says,    *)
(* for any stock, counts and entries and whichever requests are aborted: a *)
(* count records the stock of the moment it opens, quantities are entered  *)
(* together, and a reconciliation aligns the stock with the count          *)
(* (stock-counts.service.ts:164-168, schema.prisma:394) and closes it.     *)
(***************************************************************************)
THEOREM CountsAreAtomic ==
  ASSUME NoRaces
  PROVE  Spec => ImplementsAtomicCounts
  <1>1. ASSUME CountInv, CountInv', AlignInv, StepInv, [Next]_vars
        PROVE  [Atomic!AtomicStep]_<<rows, stocked, counts>>
    <2>1. CInv /\ StockInv /\ StockInv'
      BY <1>1 DEF CountInv
    <2>2. \A i \in Atomic!Item : Atomic!Fits(rows'[i])
      <3>1. \A i \in Item : Fits(rows'[i])
        BY <2>1 DEF StockInv, RangeInv, StockInRange
      <3> QED BY <3>1, SameWords
    <2>3. ASSUME NEW r \in Request, Create(r) \/ Enter(r) \/ Reconcile(r)
          PROVE  Atomic!AtomicStep
      <3>1. CASE Create(r)
        BY <1>1, <2>1, <2>2, <3>1, CreateIsAtomic DEF Atomic!AtomicStep
      <3>2. CASE Enter(r)
        BY <1>1, <2>1, <2>2, <3>2, EnterIsAtomic DEF Atomic!AtomicStep
      <3>3. CASE Reconcile(r)
        BY <1>1, <2>1, <2>2, <3>3, ReconcileIsAtomic DEF Atomic!AtomicStep
      <3> QED BY <2>3, <3>1, <3>2, <3>3
    <2>4. ASSUME NEW r \in Request, Movement(r)
          PROVE  [Atomic!AtomicStep]_<<rows, stocked, counts>>
      <3>1. CASE \E i \in Item : Atomic!Moved(i)
        BY <2>2, <3>1, SameWords DEF Atomic!AtomicStep
      <3> QED BY <1>1, <2>1, <2>4, <3>1, MovementIsAtomic
    <2>5. ASSUME NEW r \in Request,
                 \/ Snapshot(r) \/ LoadEnter(r) \/ EnterLine(r) \/ LoadReconcile(r)
                 \/ CompareLine(r) \/ PostLine(r) \/ Reload(r) \/ Log(r) \/ Reject(r)
                 \/ Fail(r)
          PROVE  UNCHANGED <<rows, stocked, counts>>
      BY <2>5 DEF Snapshot, LoadEnter, EnterLine, LoadReconcile, CompareLine, PostLine,
                  ReadItem, WriteItem, Refuse, Reload, Log, Reject, Fail, Abort
    <2>6. CASE UNCHANGED vars
      BY <2>6 DEF vars
    <2> QED BY <1>1, <2>3, <2>4, <2>5, <2>6 DEF Next, Serve, Quiet
  <1>2. Init => rows = OpeningStock /\ stocked = Stocked /\ counts = OpeningCounts
    BY DEF Init, StockInit
  <1> QED BY <1>1, <1>2, StepInductive, PTL
          DEF Spec, ImplementsAtomicCounts, Atomic!AtomicCountsSpec, Atomic!atomicVars
-----------------------------------------------------------------------------
\* What is counted is what a reconciliation commits.
LEMMA CommitAligns ==
  ASSUME CInv, StockInv, AlignInv, NEW r \in Request, Reconcile(r), NEW p \in DOMAIN job[r].lines
  PROVE  rows'[<<p, counts[job[r].id].warehouse>>]["available"] = job[r].lines[p]
  <1> DEFINE j == job[r]
             i == <<p, counts[j.id].warehouse>>
  <1>1. /\ j.step = "reconcile" /\ j.todo = <<>> /\ tx[r].todo = <<>>
        /\ rows' = [k \in Item |-> View(r, k)]
    BY DEF Reconcile, Install
  <1>2. Aligning(tx[r], j, counts[j.id].warehouse, req[r].stock, rows) /\ Ahead(j) = {}
    BY <1>1 DEF AlignInv, Aligns, Ahead
  <1>3. i \in Item /\ Settled(tx[r], j, counts[j.id].warehouse, rows, p)
    BY <1>1, <1>2 DEF Aligning, Posting
  <1>4. rows'[i] = Counted(rows[i], j.lines[p])
    BY <1>1, <1>3 DEF Settled, Seen, View
  <1>5. rows[i] \in Row
    BY <1>3, MineType
  <1> QED BY <1>4, <1>5 DEF Counted, Row, Bucket

\* Only its commit takes a reconciliation to its activity row.
LEMMA CommitsReconcile ==
  ASSUME CInv, StockInv, [Next]_vars, NEW r \in Request,
         job[r].step = "reconcile", job'[r].step = "log"
  PROVE  Reconcile(r)
  <1>1. job'[r] # job[r] /\ tx[r].open /\ Busy(r) /\ NoJob.step = "none" /\ JobOK(job[r])
    BY NoJobType DEF StockInv, OpenFor, CInv, Attended, Typed
  <1>2. ASSUME NEW s \in Request, Outside(s) PROVE FALSE
    BY <1>1, <1>2, OutsideSteps
  <1>3. ASSUME NEW s \in Request, LoadReconcile(s) PROVE FALSE
    <2>1. req[s].status = "new" /\ \E x : job' = [job EXCEPT ![s] = x]
      BY <1>3 DEF LoadReconcile, Start, MayStart
    <2> QED BY <1>1, <2>1, OthersStay DEF Busy
  <1>4. ASSUME NEW s \in Request, CompareLine(s) PROVE FALSE
    <2>1. job' = [job EXCEPT ![s] = [job[s] EXCEPT !.todo = Tail(@)]]
      BY <1>4 DEF CompareLine
    <2>2. [job[r] EXCEPT !.todo = Tail(@)].step = job[r].step
      BY <1>1 DEF JobOK, JobType
    <2> QED BY <1>1, <2>1, <2>2, OthersStay
  <1>5. ASSUME NEW s \in Request, PostLine(s) \/ Fail(s) \/ Movement(s) PROVE FALSE
    <2>1. UNCHANGED job \/ job' = [job EXCEPT ![s] = NoJob]
      BY <1>5 DEF PostLine, Fail, Movement
    <2> QED BY <1>1, <2>1, OthersStay
  <1>6. ASSUME NEW s \in Request, Reconcile(s) PROVE s = r
    <2>1. \E x : job' = [job EXCEPT ![s] = x]
      BY <1>6 DEF Reconcile
    <2> QED BY <1>1, <2>1, OthersStay
  <1>7. ~UNCHANGED vars
    BY <1>1 DEF vars
  <1> QED BY <1>2, <1>3, <1>4, <1>5, <1>6, <1>7 DEF Next, Serve, Quiet, Outside

(***************************************************************************)
(* The commit of a reconciliation leaves of every counted product the       *)
(* quantity that was counted (stock-counts.service.ts:164-168), for counts  *)
(* of any length, while reconciliations and movements of its items take     *)
(* turns.                                                                   *)
(***************************************************************************)
THEOREM CountsAlign ==
  ASSUME NoRaces
  PROVE  Spec => ReconcilesToCounted
  <1>1. CountInv /\ AlignInv /\ [Next]_vars =>
          [\A r \in Request : job[r].step = "reconcile" /\ job'[r].step = "log" =>
             \A p \in DOMAIN job[r].lines :
                rows'[<<p, counts[job[r].id].warehouse>>]["available"]
                  = job[r].lines[p]]_vars
    BY CommitsReconcile, CommitAligns DEF CountInv
  <1> QED BY <1>1, AlignInductive, PTL DEF Spec, ReconcilesToCounted
-----------------------------------------------------------------------------
\* A commit writes rows of the stock that its request named, and no other
\* transaction depends on those.
LEMMA InstallLedger ==
  ASSUME StockInv, AlignInv, LedgerInv, NEW r \in Request, Install(r)
  PROVE  LedgerInv'
  <1>1. StockTypeOK /\ tx[r].open /\ Busy(r) /\ Inside(r)
    BY DEF StockInv, Install, OpenFor, AlignInv
  <1>2. ASSUME NEW s \in Request, NEW i \in Item, s # r, Depends(tx[s], i)
        PROVE  i \notin tx[r].held
    <2>1. Even(tx[s], rows) /\ tx[s] \in TxType
      BY <1>1 DEF LedgerInv, StockTypeOK
    <2>2. tx[s].open
      BY <1>2, <2>1 DEF Even, Depends, NoTx
    <2>3. Busy(s) /\ Inside(s)
      BY <2>2 DEF StockInv, OpenFor, AlignInv
    <2>4. i \in req[s].stock
      <3>1. CASE i \in tx[s].held
        BY <2>3, <3>1 DEF Inside
      <3>2. CASE tx[s].fresh /\ i = tx[s].todo[1].item
        <4>1. 1 \in DOMAIN tx[s].todo
          BY <2>1, <3>2, TailFacts DEF Even, TxType
        <4> QED BY <2>3, <3>2, <4>1 DEF Inside
      <3> QED BY <1>2, <3>1, <3>2 DEF Depends
    <2>5. req[r].stock \cap req[s].stock = {}
      BY <1>1, <1>2, <2>3 DEF AlignInv, Apart
    <2> QED BY <1>1, <2>4, <2>5 DEF Inside
  <1> QED BY <1>1, <1>2, LedgerCommit

\* The movement of the next counted line begins when those before it are written.
LEMMA CompareLineLedger ==
  ASSUME CInv, StockInv, LedgerInv, NEW r \in Request, CompareLine(r)
  PROVE  LedgerInv'
  <1>1. /\ job[r].step = "reconcile" /\ tx[r].todo = <<>> /\ UNCHANGED <<rows, ledger>>
        /\ \E moves : tx' = [tx EXCEPT ![r].todo = moves]
    BY DEF CompareLine
  <1>2. PICK moves : tx' = [tx EXCEPT ![r].todo = moves]
    BY <1>1
  <1>3. tx[r] \in TxType /\ tx[r].open = TRUE /\ Even(tx[r], rows)
    BY <1>1 DEF StockInv, StockTypeOK, TxType, OpenFor, LedgerInv
  <1>4. tx'[r] = [tx[r] EXCEPT !.todo = moves] /\ \A s \in Request : s # r => tx'[s] = tx[s]
    BY <1>2 DEF StockInv, StockTypeOK
  <1> DEFINE t == tx[r]
  <1>5. t \in TxType /\ t.open = TRUE /\ t.todo = <<>> /\ Even(t, rows)
    BY <1>1, <1>3
  <1> HIDE DEF t
  <1>6. Even([t EXCEPT !.todo = moves], rows)
    BY <1>5, EvenMore
  <1>7. Even(tx'[r], rows)
    BY <1>4, <1>6 DEF t
  <1> QED BY <1>1, <1>4, <1>7, LedgerOwn

\* No other step disturbs the ledger.
LEMMA NextLedger ==
  ASSUME CInv, StockInv, AlignInv, LedgerInv, [Next]_vars
  PROVE  LedgerInv'
  <1>0. StockTypeOK
    BY DEF StockInv
  <1>1. ASSUME NEW r \in Request, Outside(r)
        PROVE  LedgerInv'
    <2>1. UNCHANGED <<rows, ledger, tx>>
      BY <1>1, OutsideSteps
    <2> QED BY <1>0, <2>1, LedgerStep
  <1>2. ASSUME NEW r \in Request, LoadReconcile(r)
        PROVE  LedgerInv'
    <2>1. UNCHANGED <<rows, ledger>> /\ \E moves : tx' = [tx EXCEPT ![r] = Pending(moves)]
      BY <1>2 DEF LoadReconcile
    <2> QED BY <1>0, <2>1, LedgerStep
  <1>3. ASSUME NEW r \in Request, PostLine(r) \/ Fail(r)
        PROVE  LedgerInv'
    <2>1. \/ ReadItem(r) \/ WriteItem(r)
          \/ UNCHANGED <<rows, ledger>> /\ tx' = [tx EXCEPT ![r] = NoTx]
      BY <1>3 DEF PostLine, Refuse, Fail, Abort
    <2> QED BY <1>0, <2>1, LedgerStep
  <1>4. ASSUME NEW r \in Request, Movement(r)
        PROVE  LedgerInv'
    <2>1. CASE \E op \in Movements, m \in Move : Posts(r, op, m)
      <3>1. UNCHANGED <<rows, ledger>> /\ \E moves : tx' = [tx EXCEPT ![r] = Pending(moves)]
        BY <2>1 DEF Posts
      <3> QED BY <1>0, <3>1, LedgerStep
    <2>2. CASE ReadItem(r) \/ WriteItem(r)
      BY <1>0, <2>2, LedgerStep
    <2>3. CASE Refuse(r)
      <3>1. UNCHANGED <<rows, ledger>> /\ tx' = [tx EXCEPT ![r] = NoTx]
        BY <2>3 DEF Refuse
      <3> QED BY <1>0, <3>1, LedgerStep
    <2>4. CASE Install(r)
      BY <2>4, InstallLedger
    <2>5. CASE Replies(r)
      <3>1. UNCHANGED <<rows, ledger, tx>>
        BY <2>5 DEF Replies
      <3> QED BY <1>0, <3>1, LedgerStep
    <2> QED BY <1>4, <2>1, <2>2, <2>3, <2>4, <2>5, MovementSteps
  <1>5. ASSUME NEW r \in Request, Reconcile(r)
        PROVE  LedgerInv'
    BY <1>5, InstallLedger DEF Reconcile
  <1>6. CASE UNCHANGED vars
    BY <1>6 DEF vars, LedgerInv, LedgerReconciles
  <1> QED BY <1>1, <1>2, <1>3, <1>4, <1>5, <1>6, CompareLineLedger
          DEF Next, Serve, Quiet, Outside

(***************************************************************************)
(* The ledger reconciles (schema.prisma:220) over every stock row that      *)
(* adjustments, reservations and reconciliations change, whichever of them  *)
(* is refused or fails half-way through its lines.                          *)
(***************************************************************************)
THEOREM CountsReconcile ==
  ASSUME NoRaces
  PROVE  Spec => []LedgerReconciles
  <1>1. Init => LedgerInv
    BY LedgerInit DEF Init
  <1>2. CountInv /\ AlignInv /\ LedgerInv /\ [Next]_vars => LedgerInv'
    BY NextLedger DEF CountInv
  <1>3. LedgerInv => LedgerReconciles
    BY DEF LedgerInv
  <1> QED BY <1>1, <1>2, <1>3, AlignInductive, PTL DEF Spec
-----------------------------------------------------------------------------
\* The alarms of a transaction are those of the rows it has written, by the
\* committed rows they change.
Warned(t, base) ==
    /\ t.alarms \subseteq t.held
    /\ \A i \in t.held : i \in t.alarms <=> Crosses(i, base[i], t.after[i])

AlarmInv == \A r \in Request : Warned(tx[r], rows)

\* A transaction that has written nothing has no alarms.
LEMMA WarnedNone ==
  /\ \A base : Warned(NoTx, base)
  /\ \A moves, base : Warned(Pending(moves), base)
  BY DEF Warned, NoTx, Pending

\* A step of r that leaves the committed rows and the other transactions.
LEMMA AlarmOwn ==
  ASSUME AlarmInv, StockTypeOK, NEW r \in Request, UNCHANGED rows,
         NEW u, Warned(u, rows), tx' = [tx EXCEPT ![r] = u]
  PROVE  AlarmInv'
  <1>1. tx'[r] = u /\ \A s \in Request : s # r => tx'[s] = tx[s]
    BY DEF StockTypeOK
  <1> QED BY <1>1 DEF AlarmInv

\* What is written was computed from the committed row, which the transaction
\* had not written before.
LEMMA FirstWrite ==
  ASSUME CInv, StockInv, AlignInv, StepInv, NEW r \in Request, Ready(r)
  PROVE  Target(r) \notin tx[r].held /\ tx[r].before = rows[Target(r)]
  <1>1. /\ tx[r].open /\ tx[r].todo # <<>> /\ tx[r].fresh
        /\ Busy(r) /\ job[r].step \in {"none", "reconcile"}
    BY DEF Ready, StockInv, OpenFor
  <1>2. CASE job[r].step = "reconcile"
    <2> DEFINE w == counts[job[r].id].warehouse
    <2>1. Aligning(tx[r], job[r], w, req[r].stock, rows)
      BY <1>2 DEF AlignInv, Aligns
    <2>2. PICK q \in DOMAIN job[r].lines : Posting(tx[r], job[r], w, rows, q)
      BY <1>1, <2>1 DEF Aligning
    <2>3. Target(r) = <<q, w>>
      BY <2>2 DEF Posting, Correction, Target
    <2> QED BY <1>1, <2>2, <2>3 DEF Posting
  <1>3. CASE job[r].step = "none"
    <2>1. PICK i \in Item, d \in Delta : Booked(tx[r], i, d, rows)
      BY <1>1, <1>3 DEF StepInv, Moving
    <2>2. tx[r].held = {} /\ tx[r].todo = <<[item |-> i, delta |-> d]>> /\ tx[r].before = rows[i]
      BY <1>1, <2>1 DEF Booked
    <2> QED BY <2>2 DEF Target
  <1> QED BY <1>1, <1>2, <1>3

\* A first write of a row raises its alarm as the row it changes says.
LEMMA WrittenWarns ==
  ASSUME NEW t \in TxType, NEW i \in Item, NEW row \in Delta, NEW base,
         Warned(t, base), i \notin t.held, t.before = base[i]
  PROVE  Warned(Written(t, i, row), base)
  <1> DEFINE u == Written(t, i, row)
  <1>1. /\ u.held = t.held \cup {i} /\ t.held \subseteq Item
        /\ u.after[i] = row /\ \A k \in Item : k # i => u.after[k] = t.after[k]
    BY WrittenHeld, WrittenAfter DEF Written, TxType
  <1>2. u.alarms = IF Crosses(i, base[i], row) THEN t.alarms \cup {i} ELSE t.alarms
    BY WrittenAlarms DEF Alarms
  <1> HIDE DEF u
  <1>3. Warned(u, base)
    BY <1>1, <1>2 DEF Warned
  <1> QED BY <1>3 DEF u

\* And it is a first write.
LEMMA WriteWarns ==
  ASSUME CInv, StockInv, AlignInv, StepInv, AlarmInv, NEW r \in Request, WriteItem(r)
  PROVE  AlarmInv'
  <1>1. /\ tx' = [tx EXCEPT ![r] = Written(tx[r], Target(r), Result(r))]
        /\ UNCHANGED rows /\ Ready(r) /\ StockTypeOK
    BY DEF WriteItem, StockInv, StockTypeOK
  <1>2. /\ tx[r] \in TxType /\ Target(r) \in Item
        /\ tx[r].todo[1].delta \in Delta /\ tx[r].before \in Delta
    BY <1>1, TargetType, RowIsDelta DEF Ready, StockTypeOK, TxType
  <1>3. Result(r) \in Delta
    BY <1>2, PlusType DEF Result
  <1>4. Target(r) \notin tx[r].held /\ tx[r].before = rows[Target(r)]
    BY <1>1, FirstWrite
  <1>5. Warned(tx[r], rows)
    BY DEF AlarmInv
  <1>6. Warned(Written(tx[r], Target(r), Result(r)), rows)
    BY <1>2, <1>3, <1>4, <1>5, WrittenWarns
  <1> QED BY <1>1, <1>6, AlarmOwn

\* A commit leaves the rows that the other transactions have written.
LEMMA InstallWarns ==
  ASSUME StockInv, AlignInv, AlarmInv, NEW r \in Request, Install(r)
  PROVE  AlarmInv'
  <1>1. StockTypeOK /\ tx[r].open /\ Busy(r) /\ tx' = [tx EXCEPT ![r] = NoTx]
    BY DEF StockInv, Install, OpenFor
  <1>2. tx'[r] = NoTx /\ \A s \in Request : s # r => tx'[s] = tx[s]
    BY <1>1 DEF StockTypeOK
  <1>3. ASSUME NEW s \in Request, s # r PROVE Warned(tx[s], rows')
    <2>1. CASE tx[s].open
      <3>1. req[r].stock \cap req[s].stock = {} /\ tx[s].held \subseteq Item \cap req[s].stock
        BY <1>1, <1>3, <2>1, HeldType DEF StockInv, OpenFor, AlignInv, Apart, Inside
      <3>2. \A i \in tx[s].held : rows'[i] = rows[i]
        BY <3>1, InstallFrame
      <3> QED BY <3>2 DEF AlarmInv, Warned
    <2>2. CASE ~tx[s].open
      BY <2>2, WarnedNone DEF StockInv, OpenFor
    <2> QED BY <2>1, <2>2
  <1> QED BY <1>2, <1>3, WarnedNone DEF AlarmInv

\* No other step disturbs the alarms.
LEMMA NextWarns ==
  ASSUME CInv, StockInv, AlignInv, StepInv, AlarmInv, [Next]_vars
  PROVE  AlarmInv'
  <1>0. StockTypeOK
    BY DEF StockInv
  <1>1. ASSUME NEW r \in Request, UNCHANGED rows, NEW u, tx' = [tx EXCEPT ![r] = u],
               \/ u = NoTx \/ \E moves : u = Pending(moves)
               \/ u.held = tx[r].held /\ u.after = tx[r].after /\ u.alarms = tx[r].alarms
        PROVE  AlarmInv'
    <2>1. Warned(u, rows)
      BY <1>1, WarnedNone DEF AlarmInv, Warned
    <2> QED BY <1>0, <1>1, <2>1, AlarmOwn
  <1>2. ASSUME NEW r \in Request, ReadItem(r) PROVE AlarmInv'
    <2> DEFINE u == Loaded(tx[r], View(r, Target(r)))
    <2>1. tx' = [tx EXCEPT ![r] = u] /\ UNCHANGED rows
      BY <1>2, <1>0 DEF ReadItem, StockTypeOK
    <2>2. u.held = tx[r].held /\ u.after = tx[r].after /\ u.alarms = tx[r].alarms
      BY MineType DEF Loaded, TxType
    <2> HIDE DEF u
    <2> QED BY <1>1, <2>1, <2>2
  <1>3. ASSUME NEW r \in Request, Refuse(r) PROVE AlarmInv'
    BY <1>1, <1>3 DEF Refuse
  <1>4. ASSUME NEW r \in Request, Outside(r) PROVE AlarmInv'
    <2>1. UNCHANGED <<rows, tx>>
      BY <1>4, OutsideSteps
    <2> QED BY <2>1 DEF AlarmInv
  <1>5. ASSUME NEW r \in Request, LoadReconcile(r) \/ Fail(r) PROVE AlarmInv'
    <2>1. LoadReconcile(r) => UNCHANGED rows /\ tx' = [tx EXCEPT ![r] = Pending(<<>>)]
      BY DEF LoadReconcile
    <2>2. Fail(r) => UNCHANGED rows /\ tx' = [tx EXCEPT ![r] = NoTx]
      BY DEF Fail, Abort
    <2> QED BY <1>1, <1>5, <2>1, <2>2
  <1>6. ASSUME NEW r \in Request, CompareLine(r) PROVE AlarmInv'
    <2>1. UNCHANGED rows /\ \E moves : tx' = [tx EXCEPT ![r].todo = moves]
      BY <1>6 DEF CompareLine
    <2>2. PICK moves : tx' = [tx EXCEPT ![r].todo = moves]
      BY <2>1
    <2> DEFINE u == [tx[r] EXCEPT !.todo = moves]
    <2>3. tx' = [tx EXCEPT ![r] = u]
      BY <2>2
    <2>4. u.held = tx[r].held /\ u.after = tx[r].after /\ u.alarms = tx[r].alarms
      BY MineType DEF TxType
    <2> HIDE DEF u
    <2> QED BY <1>1, <2>1, <2>3, <2>4
  <1>7. ASSUME NEW r \in Request, PostLine(r) PROVE AlarmInv'
    BY <1>2, <1>3, <1>7, WriteWarns DEF PostLine
  <1>8. ASSUME NEW r \in Request, Reconcile(r) PROVE AlarmInv'
    BY <1>8, InstallWarns DEF Reconcile
  <1>9. ASSUME NEW r \in Request, Movement(r) PROVE AlarmInv'
    <2>1. CASE \E op \in Movements, m \in Move : Posts(r, op, m)
      BY <1>1, <2>1 DEF Posts
    <2>2. CASE Replies(r)
      BY <2>2 DEF Replies, AlarmInv
    <2> QED BY <1>2, <1>3, <1>9, <2>1, <2>2, WriteWarns, InstallWarns, MovementSteps
  <1>10. CASE UNCHANGED vars
    BY <1>10 DEF vars, AlarmInv
  <1> QED BY <1>4, <1>5, <1>6, <1>7, <1>8, <1>9, <1>10 DEF Next, Serve, Quiet, Outside

\* A commit raises the alerts of the rows it takes below their level.
LEMMA InstallAlerts ==
  ASSUME StockInv, AlarmInv, NEW r \in Request, Install(r), NEW i \in Item
  PROVE  alerts'[i] = alerts[i] + (IF Crosses(i, rows[i], rows'[i]) THEN 1 ELSE 0)
  <1>1. /\ rows'[i] = View(r, i)
        /\ alerts'[i] = IF i \in tx[r].alarms THEN alerts[i] + 1 ELSE alerts[i]
    BY DEF Install
  <1>2. Warned(tx[r], rows) /\ alerts[i] \in Nat /\ rows[i]["available"] \in Int
    BY DEF AlarmInv, StockInv, StockTypeOK, Row, Bucket
  <1>3. ReorderLevel[i[1]] \in Int
    BY StockAssumption DEF Item
  <1>4. i \in tx[r].alarms <=> Crosses(i, rows[i], rows'[i])
    <2>1. CASE i \in tx[r].held
      BY <1>1, <1>2, <2>1 DEF View, Warned
    <2>2. CASE i \notin tx[r].held
      BY <1>1, <1>2, <1>3, <2>2 DEF View, Warned, Crosses
    <2> QED BY <2>1, <2>2
  <1> QED BY <1>1, <1>2, <1>4

(***************************************************************************)
(* While no two requests race on an item and only entries overlap on one   *)
(* count, a LOW_STOCK alert is committed with exactly the commits that take *)
(* the available stock of an item down across its reorder level             *)
(* (inventory.service.ts:182): also when a reconciliation of many lines     *)
(* takes several down at once, or rolls back after it has computed them.    *)
(***************************************************************************)
THEOREM CountsAlert ==
  ASSUME NoRaces
  PROVE  Spec => AlertOnCrossing
  <1>1. Init => AlarmInv
    <2> SUFFICES ASSUME Init PROVE AlarmInv
      OBVIOUS
    <2> QED BY WarnedNone DEF Init, StockInit, AlarmInv
  <1>2. CountInv /\ AlignInv /\ StepInv /\ AlarmInv /\ [Next]_vars => AlarmInv'
    BY NextWarns DEF CountInv
  <1>3. ASSUME CountInv, AlarmInv, [Next]_vars
        PROVE  [\A i \in Item : alerts'[i] = alerts[i] + (IF Crosses(i, rows[i], rows'[i])
                                                          THEN 1 ELSE 0)]_<<rows, alerts>>
    <2>1. CInv /\ StockInv
      BY <1>3 DEF CountInv
    <2>2. ASSUME NEW r \in Request, Install(r)
          PROVE  \A i \in Item : alerts'[i] = alerts[i] + (IF Crosses(i, rows[i], rows'[i])
                                                           THEN 1 ELSE 0)
      BY <1>3, <2>1, <2>2, InstallAlerts
    <2>3. ASSUME NEW r \in Request, Outside(r) PROVE UNCHANGED <<rows, alerts>>
      BY <2>1, <2>3, OutsideSteps
    <2>4. ASSUME NEW r \in Request,
                 LoadReconcile(r) \/ CompareLine(r) \/ PostLine(r) \/ Fail(r)
          PROVE  UNCHANGED <<rows, alerts>>
      <3>1. LoadReconcile(r) => UNCHANGED <<rows, alerts>>
        BY DEF LoadReconcile
      <3>2. CompareLine(r) => UNCHANGED <<rows, alerts>>
        BY DEF CompareLine
      <3>3. PostLine(r) \/ Fail(r) => UNCHANGED <<rows, alerts>>
        BY DEF PostLine, ReadItem, WriteItem, Refuse, Fail, Abort
      <3> QED BY <2>4, <3>1, <3>2, <3>3
    <2>5. ASSUME NEW r \in Request, Movement(r)
          PROVE  Install(r) \/ UNCHANGED <<rows, alerts>>
      BY <2>5, MovementSteps DEF Posts, ReadItem, WriteItem, Refuse, Replies
    <2>6. \A r \in Request : Reconcile(r) => Install(r)
      BY DEF Reconcile
    <2>7. CASE UNCHANGED vars
      BY <2>7 DEF vars
    <2> QED BY <1>3, <2>2, <2>3, <2>4, <2>5, <2>6, <2>7 DEF Next, Serve, Quiet, Outside
  <1> QED BY <1>1, <1>2, <1>3, StepInductive, PTL DEF Spec, AlertOnCrossing
=============================================================================
