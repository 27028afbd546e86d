# Formal models of the Inventory and Warehouse System

TLA+ models of the parts of this repository that keep state (stock, its documents, the catalogue
and the sessions), the TLC configurations that check them and the TLAPS proofs about them. Short
names for the files cited often:

| short | file |
|---|---|
| INV | `src/apps/api/src/inventory/inventory.service.ts` |
| TR | `src/apps/api/src/transfers/transfers.service.ts` |
| PO | `src/apps/api/src/purchase-orders/purchase-orders.service.ts` |
| SC | `src/apps/api/src/stock-counts/stock-counts.service.ts` |
| CAT | `src/apps/api/src/categories/categories.service.ts` |
| PR, VAR | `src/apps/api/src/products/products.service.ts`, `.../variants/variants.service.ts` |
| AU, US | `src/apps/api/src/auth/auth.service.ts`, `.../users/users.service.ts` |
| AX, CTX | `src/packages/api-client/src/axios.ts`, `src/packages/auth/src/auth-context.tsx` |
| SCH | `src/apps/api/prisma/schema.prisma` |

## 1. The system

The repository is an npm monorepo: a NestJS API (`src/apps/api`) over PostgreSQL through Prisma, an
admin and a staff front end in Next.js (`src/apps/admin`, `src/apps/staff`), and packages shared by
the front ends (`src/packages`). All business state is in PostgreSQL, image files are on the API's
disk, tokens in the browser. A request is one `async` handler; between two `await`s any other request
of the process, or of a second API process, may run. There are no queues, timers or background jobs:
concurrency is between requests, and between the callbacks and tabs of a browser.

| component | state it keeps | operations | hard behaviour | what makes it correct | module |
|---|---|---|---|---|---|
| inventory | stock rows with four buckets; append-only movements | adjust, reserve, `applyMovement` for the others | read-compute-upsert at READ COMMITTED; rollback; low-stock crossing | no negative bucket; ledger sums to the row; one atomic step per movement | `Inventory` |
| transfers | transfers and lines; the hold in `inTransit` | create, approve, cancel, receive | status checked before the transaction and gated inside it (except approve); several rows locked in request order | the hold equals the open transfers; settled once; stock conserved | `Transfers` |
| purchase orders | orders, lines, receipts | create, update, send, approve, cancel, receive, close | status checked before an update by id; receipts overlap; delete-and-recreate of lines | cap per line; lifecycle; receipts = lines = stock | `PurchaseOrders` |
| stock counts | counts and lines | create, enterCounts, reconcile | difference computed from one read, applied to a second; no gate on the status | a reconciliation aligns the stock with the count, all or nothing | `StockCounts` |
| categories | parent tree | create, update, remove | cycle check in one read per level; counts before a delete | the tree stays a forest; a removal detaches nothing | `Catalog` |
| products, variants, images | SKUs in two tables, image files | create, update, archive, image upload and delete | uniqueness over two tables; file against row | SKU unique over both; no row names a missing file | `Catalog` |
| authentication | one refresh hash per user | login, refresh, logout | the row is read in one statement and the hash stored in a later one | a refresh never opens a closed session again | `Sessions` |
| users | status, stored hash | register, create, update, activate, deactivate | changes what running requests may do | tokens go to ACTIVE accounts | `Sessions` |
| client session | tokens per tab, localStorage, `hasToken` | interceptors, shared refresh, one retry, login, logout, reload | concurrent 401s, late and lost answers, several tabs | each call settles; a retry carries the new token; tabs do not evict each other | `ClientSession` |
| notifications, activity log | alerts per user; append-only rows | fan-out, markRead, log | inside the movement's transaction, or after the commit | one alert per crossing, a row per action | in `StockDb` and the documents |
| scope and roles | warehouse assignments | ScopeService, ScopeGuard, RolesGuard | read once per request | no effect outside the caller's warehouses | `StockDb` |
| warehouses, suppliers | single rows | create, update, archive | single updates by id | – | – |
| AI drafts | none of its own | generatePo | several creates in a loop without a transaction | no half-made draft set | – |
| movements, dashboard, reports, barcodes, HTTP platform, front ends, UI kit, generated client | none, or configuration | reads, rendering, validation | – | – | – |

How they interact: controllers check the role, `ScopeGuard` or `loadInScope` the warehouse; the
document services call `InventoryService.applyMovement` inside *their own* interactive transaction,
so the status of a document and the stock it moves commit together; `applyMovement` writes the
movement, the activity row and the low-stock alerts in that same transaction. The documents' own
activity rows, and the alert of a sent order, are separate statements after the commit. The
catalogue runs no transaction at all: every statement is atomic by itself. The access guard reads a
signature and no table; login and refresh meet the users table in two statements; the client refreshes
when a call is answered 401. `PROJECT.json` lists every component with its files, and under
`hazards` each place where the code is hard to test.

## 2. Modules

```
Stock ── StockDb ─┬─ Inventory ────── MCInventory
                  ├─ Transfers ────── MCTransfers        AtomicTransfers  (Transfers implements it)
                  ├─ PurchaseOrders ─ MCPurchaseOrders   AtomicOrders     (PurchaseOrders implements it)
                  └─ StockCounts ──── MCStockCounts      AtomicCounts     (StockCounts implements it; INSTANCEs Inventory)

Catalog ──────────── MCCatalog                           Forest           (Catalog implements it)
Sessions ── ClientSession ── MCSessions                  Accounts         (ClientSession implements it)

StockDbProofs ─┬─ InventoryProofs (Inventory)            SessionProofs (ClientSession)
               ├─ TransferProofs (Transfers) ──┬─ SumProofs   CatalogProofs (Catalog)
               ├─ OrderProofs (PurchaseOrders) ┘
               └─ CountProofs (StockCounts)
```

**`Stock`** is the data: an item is a product in a warehouse, a row has four buckets, a delta changes
some of them (INV 12-18, SCH 198-216). `Fits` is what the columns hold: every bucket and the total
(`beforeQty`, `afterQty`) in `0 .. MaxInt`, where `MaxInt` stands for the largest `int4`. `Crosses` is the downward
crossing of the reorder level (INV 182-193).

**`StockDb`** is the database as the services use it, and `applyMovementInTx` (INV 95-247). A request
has a record `req[r]` (operation, document, items, answer) and a record `tx[r]` for its open
transaction: movements still to post, the row it has read, the rows it has written and locks. The
statements are the actions: `ReadItem` (the SELECT, 107-109), `Refuse` (a bucket would go below
zero, 124-137: throw and roll back), `WriteItem` (the upsert of *absolute* values computed from the
earlier read, the movement, the activity row, the alert, 140-246), `Install` (COMMIT). `Abort` is any
end that the code does not choose: crash, lost connection, Prisma's transaction timeout, a number
that does not fit, a first insert lost to another, a deadlock victim. READ COMMITTED is modelled as
PostgreSQL defines it: a SELECT sees what is committed at that moment and its own transaction's writes; a
write waits for the row lock; nobody reads uncommitted data. A row that does not exist yet reads as
zeros, as in the code; two concurrent first inserts behave like the update of one row, or abort.
`ledger[i]` is the sum of the deltas of the committed movements of an item: the history is
append-only and only its sum matters to the properties.

**`Inventory`** adds `POST /inventory/adjust` and `/reserve` (INV 249-329): scope check, one movement. The handler awaits the
COMMIT (`Commit`, INV 96-99) and answers later (`Reply`, 302-310, 319-327). In between the process may stop or the
acknowledgement get lost: `Abort` then fails the request, and its movement stays.

**`Transfers`** has the four handlers of TransfersService. `job[r]` is what a handler remembers
between its statements: "loaded" (status and scope checked, nothing locked), "posting" (inside the
transaction, transfer row written), "log" (committed, activity row to write). `LockStatus` is the
`updateMany` gated on the expected status (TR 216-224, 269-277), `Conflict` its `count === 0`,
`Approve` the update by id alone (TR 185-189). `Hold`, `Release`, `Land` are the movements of create,
cancel and receive in the order the code posts them: create in the order of the request, the others
in the order of the product names. `ByName` gives that order for any set of products; nothing else of
the names matters.

**`PurchaseOrders`** has the lifecycle (`Load` then `Decide`: update by id, whatever the status is by
then), `LoadUpdate`/`DeleteLines`/`Replace` (the delete of the lines sees the lines that existed when it started:
`rev` tells versions of the line set apart; `Reply` answers after the commit), and receive (PO 311-470). `Meaningful` is the set of the
positions of a delivery that carry units. The handler remembers in `left` the positions it has not
come to and in `at` the one it is at: `Recheck` takes the lowest of `left` (SELECT and cap),
`Increment` writes the line and holds its lock, `ReadItem` and `WriteItem` post the movement; when
`left` is empty `Tally` reads all lines and `Commit` sets the status. The rows of the receipt are `ReceiptRows`, made
from the delivery as the code makes them before the loop (PO 354-370); the lines carry what the loop has incremented. `receipts` sums the
committed receipt rows. `Possible` says which orders a run may start with: those that earlier requests can have left.

**`StockCounts`** has `Snapshot`/`Create`, `LoadEnter`/`EnterLine`/`Enter`/`Reload` (the commit, then the load for the answer), `LoadReconcile`, per line
`CompareLine` (reads available, computes the difference, SC 183-193) and the movement, `Reconcile`
(marks the count by id), next to adjust and reserve. `stocked` is the set of items whose row exists:
it decides which lines a count gets.

**`AtomicTransfers`**, **`AtomicOrders`** and **`AtomicCounts`** say what the three promise: an
operation on a transfer, an order or a count, or a movement beside the counts, is one atomic step. The modules implement them through `INSTANCE` with the variables of
the same names; transactions, locks and jobs are not visible there. `AtomicOrders` speaks of a delivery as a whole: `Brought` is what
it says of a product, and `Received` books all of it, on the lines and in the stock, and completes the order exactly when
nothing is outstanding. Nothing in it follows the loop of the handler. In `AtomicCounts` a count opens with the stock of that moment, `Told` is what a
request says of each product in the end (the last entry about it counts: the DTO allows several), and `Reconciled` makes the available stock what
was counted.

**`Catalog`** is CategoriesService, ProductsService, VariantsService and the file store. A request is
its arguments and `todo`, the statements it still has to run; `At(r, s)` is true when `s` is next, and
any other request may run in between. Statements that only look something up (`LookUp`) go on or
refuse. `Walk` is one round of `assertNoCycle` (CAT 134-151): compare the cursor, read its parent.
`StoreCategory`, `StoreProduct`, `StoreVariant` write with the unique index and the foreign keys of
the schema, `DeleteCategory` with the foreign keys that are set to null. An upload saves its file, stores the key in the row
and deletes the file the row named when the handler read it (PR 195-236); `RollBack` is the `catch`
around the store: the update may have been committed although its answer was lost, and the handler
deletes the file it saved, or fails to. A deletion unlinks the file, then clears the row (PR 238-260). Two overlapping
uploads can leave a file that no row names, which the code accepts and the model does. Products and variants are one
kind of item, since their handlers differ in the table and in the product of the path. Names, prices,
attributes and the status in an update's body are left out: nothing reads them to decide a write.

**`Forest`** is what the category tree promises: a move never closes a cycle, and a category leaves
only when nothing hangs from it. `Catalog` implements it under the conditions of the next section.

**`Sessions`** is the API's side of a session. A pair of tokens is its index in `issued`, with its
user, what granted it and its age (1: the access token has expired, 2: the refresh token too); the
hash in the users table, `stored`, is the pair it was made from. `req` has one record per wire: each
call of a tab, and one slot per tab for the refresh that its calls share (AX 55-84). `CheckLogin` and
`CheckRefresh` read the row, `StoreAndIssue` writes the hash in a later statement (AU 107);
`Logout`, `UseApi` and the statements of UsersService (`Register`, `Create`, `Activate`, `Update`,
`Deactivate`) are single. `Matches` is what `bcrypt.compare` does with two refresh tokens: bcrypt reads
the first 72 bytes of its input, and those of a JWT of this API are the header and the beginning of
the subject, so the comparison tells users apart and not the tokens of one user.

**`ClientSession`** composes them with the browser: `Send` and the request interceptor, `AwaitRefresh`
(a first 401 starts the refresh of its tab or waits for the one in flight, AX 93-112), `Rotate` and
`GiveUp` (the shared promise resolves: tokens stored and every waiting call sent again, or signed out and
all rejected), `Settle` (the caller's callbacks, CTX 40-76), `Reload` (hydration from localStorage,
once the calls of the tab are over). A callback runs to its next `await` in one step, as JavaScript
does. Messages may be lost (`Fail`) and tokens expire (`Expire`, but not during the one round trip that
first uses a token: access tokens live for minutes).

**`Accounts`** is the promise of the two services: a pair goes to an ACTIVE account only, and a refresh
grants one only to a session that a login opened and nothing has closed since.

Definitions whose comment begins "A bug" are plausible mistakes in the definition they stand before (a dropped gate, a forgotten
bucket, an early answer). No specification uses them; they are substituted to show that each property can fail.

### Requests that may overlap

The code takes no lock between the load of a document and its transaction, between the
read of a stock row and its write, between the checks of the catalogue and its writes, or between the
two statements of a refresh. Some guarantees that the code states hold only while certain
requests do not overlap; others hold always. Constants say which requests a run lets overlap:

- stock and documents: two requests on one document overlap only if both run a `DocRacing` operation,
  two on different documents that touch a common item only if both run a `StockRacing` one (`MayStart`);
- `Catalog`: two requests overlap unless their operations are a set of `Exclusive`;
- `Sessions`: `Between` says whether a logout, or a change of the account, may come between the two statements
  of a login or refresh of that user.

All else interleaves freely, and any request may fail anywhere. A run with nothing racing
is the situation of the repository's e2e suites, which send one request at a time, plus
crashes and unrelated traffic. A run with racing operations shows what survives, or, as a violation,
what does not.

## 3. Runs

| run | size | distinct states | what it shows |
|---|---|---|---|
| `MCInventory_race` | 3 requests on one item (one of them may take a second), units of 1, `MaxInt` 3, full overlap | 108k | buckets in range and every request answered, with stale reads, waits for the row lock, overflows and aborts, also after a commit |
| `MCInventory_lost_update` | 3 requests, 1 item, full overlap | violation | the ledger stops reconciling |
| `MCTransfers_settle` | 4 requests (one whose scope is the destination only), 2 warehouses, 2 transfers holding one product, cancels and receives overlap | 64k | hold = open transfers, stock conserved; implements `AtomicTransfers` |
| `MCTransfers_deadlock` | 3 requests, 2 products in opposite line orders, overlap on documents and stock | 31k | one winner per transfer, lifecycle, every request answered although deadlocks occur |
| `MCTransfers_approve_race` | 3 requests, approvals and cancels overlap | violation | a cancelled transfer is cancelled again |
| `MCOrders_serial` | 4 requests (one without scope), a draft, a partial and a free order | 311k | cap, lifecycle, no stuck partial order, update replaces; implements `AtomicOrders` |
| `MCOrders_receive_race` | 3 receipts of one order, overlapping, lines in both orders | 21k | lines = receipts = stock, ledger = rows; every request answered |
| `MCOrders_over_receipt` | the same | violation | more is received than was ordered |
| `MCCounts_enter` | 3 requests, a free and an open count of 2 products, entries to one count overlap in both line orders or name a line twice | 305k | counted quantities frozen, alerts exactly on crossings, every request answered; implements `AtomicCounts` |
| `MCCounts_twice` | the same, a count one unit short, reconciliations overlap | violation | the difference is applied twice |
| `MCCatalog_race` | 3 requests, 3 categories, 2 products, 2 variants, 3 SKUs; see below | 328k | images are there, the variants' SKU check holds, the tree stays a forest, the walk ends; implements `Forest` |
| `MCSessions_tabs` | 2 users, 2 tabs on one login, 2 or 3 calls; see below | 499k | retries carry the new token, the view follows the tokens, tabs do not evict each other, calls settle; implements `Accounts` |

*Bounds of the stock runs.* `MaxInt` 3 to 5 is small enough that overflow is reached. Every anomaly of the code is between
two requests; a third shows its effect on somebody else (the winner of a second settlement, the stock
of a second transfer), and `MCOrders_serial` and `MCTransfers_settle` have four so that an order or a transfer goes through
several steps of its life. Lines of two products are enough for opposite lock orders; quantities
1 and 2 for a partial and a full receipt; an item with nothing in it reaches the refusal.
The opening states give documents in the middle of their life (an open transfer with its hold, a
partially received order, a count with quantities), which the code reaches by earlier requests. Each request is served
once: a retry of the client is another request. `CHECK_DEADLOCK` is on everywhere; `Quiet` is the
state in which every request has its answer. Requests, products and warehouses are model values
without symmetry, since scopes, name orders and opening states tell them apart.

*Bounds of the catalogue.* `MCOpenings` gives three requests about categories, over two trees or over
a chain with a category still to be created, three about images, or two of any kind. Three moves or
removals around three categories are enough for a cycle of length two or three and for a category
that loses its parent. `MCExclusive` keeps moves apart from each other, removals apart from what
attaches to a category, and variant writes apart from product writes; all else overlaps. Taking any
one of the three away breaks `ImplementsForest`, or `VariantsAvoidProducts`.

*Bounds of the sessions.* `MCPlans` gives two calls of any kind (login, logout, anything else) with one
change of an account or one mishap, and three calls around a shared refresh with one mishap or a
logout or login. A mishap is a lost message, a failed handler or a token that grows older; the opening
tokens may be expired from the start, so that the first call already meets a 401. Two tabs that share
a login have two refresh slots, which is what overlaps at the API.

*Fairness.* `WF(Serve(r))`: a handler that can issue its next statement does, because the event loop
resumes every promise and PostgreSQL every waiter whose lock is free; an aborted request stops by
`Abort`, to which no fairness applies by itself. `WF(MustAbort(r) /\ Abort(r))` (with `Fail(r)` in transfers, `Hopeless(r) /\ Fail(r)` in orders and counts): only the
errors that the database itself always reports are certain, namely a deadlock (`OnCycle`, the detector picks any victim), an
out-of-range number, a duplicate key, a line that is gone. A crash is possible, never promised. The order of waiters in a
lock queue is not modelled, and with finitely many requests none can starve. `EveryRequestAnswered`
needs both: without the second, two transfers in opposite line order wait for ever. `Catalog` has no
lock that a statement waits for, so `WF(Serve(r))` is all. `ClientSession` has `WF` of `Answer(w)` and of
`Deliver(w)` for each wire: what reaches the API is answered and a tab runs the callbacks it is due; that a
message is lost is a step like others, after which the call is answered with a failure, as axios does.

## 4. What the runs found

Four statements of the code or schema do not hold. Each is a `violation` run and a finding.

1. *Lost update* (`MCInventory_lost_update`). INV 107-109 reads the row with a plain SELECT and
   140-145 upserts absolute values: two overlapping movements both commit, the second overwrites the
   first, the ledger has both. SCH 220-221 says every bucket reconciles with its history.
2. *Approve over a cancellation* (`MCTransfers_approve_race`). TR 185-189 updates by id after a
   status check at 182-184. A cancellation in between is overwritten by APPROVED, and the next cancel or receive settles a
   second time, out of the hold of other transfers. TR 213-215 says the lock prevents a double release.
3. *Over-receipt* (`MCOrders_over_receipt`). The re-check at PO 376-395 does not lock the line, the
   increment at 396-407 is unconditional. PO 374-375 says two receipts cannot both over-receive.
4. *Double reconciliation* (`MCCounts_twice`). SC 183-193 computes the difference from one read and `applyMovement` adds it to the row
   it reads itself (INV 107-122); the mark at SC 210 asks for no status. When a second reconciliation of the same count commits in between,
   the difference is applied twice, and the stock is not what was counted. SC 165-167 says it is brought to the
   counted quantity by a delta from the current available.

One more does not hold, and needs no overlap and no run: the SKU namespace. VAR 303 says that products and variants share one, and PR 96 and
150 look at no variant, so a product may take a SKU that a variant holds (`StoreProduct` does).

Met while modelling; these hold in the runs that keep the requests apart and have no run of their own under overlap:

- a racing adjustment does to a reconciliation what a second reconciliation does in finding 4;
- two overlapping movements can miss a low-stock alert or raise it twice (INV 184 compares the row it read);
- an order whose last two receipts overlap may stay PARTIALLY_RECEIVED with nothing outstanding (the
  tally of PO 423-438 does not see the other receipt's lines; the comment at 427-428 excludes it);
- an update that loaded a draft can change the lines after the order was sent (PO 186-206), and two
  overlapping updates can merge their lines;
- `enterCounts` can store quantities in a count reconciled meanwhile (SC 137 against 243-248);
- a failure between the commit and the activity row (TR 248, PO and SC alike) leaves the operation
  without one and answers an error; one between the commit and the answer of adjust, reserve, an update of
  an order or `enterCounts` answers an error for what was done. A client that retries a movement repeats it;
- two overlapping moves of categories can close a cycle (CAT 73), after which the walk of any move
  below it does not end; a category removed while something is attached to it leaves that at the top;
- the update behind an upload may be committed although its answer is lost, and the handler then deletes
  the file the row names (PR 220); a deletion that fails half-way leaves a row without its file (PR 248);
- a login or refresh in progress stores its hash after a logout or deactivation cleared it (AU 107): the
  refresh of a deactivated user is still refused by the status, but a later activation finds the session open;
- a refresh whose answer arrives after a logout stores its tokens (AX 84) although the tab shows no
  session; the next load of the page shows one. No line of the code excludes it;
- a network failure during a refresh signs the tab out as a refusal does (AX 86-88, 108-110), and a tab that
  signs out removes the tokens of all tabs from localStorage, which each notices at its next load;
- a wrong password answers 401, so a login sent while the tab holds tokens starts a refresh and is sent again.

## 5. Proofs

All proofs are checked by `tlapm` with Z3, Zenon and LS4; no step is assumed. They hold for any sets of
requests, products, warehouses, documents, categories, users, tabs and calls, under the named assumptions about the
constants: `StockAssumption` (the opening stock fits its columns, reorder levels are naturals),
`RequestAssumption` (a scope is a set of warehouses), `InventoryAssumption` (`MaxQuantity` is a natural),
`TransfersAssumption`, `OrdersAssumption` and `CountsAssumption` (opening rows and request bodies are of the shape that the DTOs and
earlier requests give; the body of a transfer or order names no product twice; every set of products has an order of its names), `SessionsAssumption` and `ClientAssumption`
(someone is ACTIVE, tabs and calls are different wires, the signed-in tabs are tabs), `CatalogAssumption` (ids are not the
words that columns and bodies use beside them, the opening categories are a forest and every opening home exists). TLC evaluates
them in every run.

**Inventory** (`InventoryProofs`).

- `TypeCorrect`: `Spec => []TypeOK`. `StockStaysInRange`: `Spec => []StockInRange`, whatever overlaps. `StockInRange` is not inductive:
  a commit installs rows computed earlier. The strengthening `RangeInv` adds that every row an open
  transaction has written and not yet committed fits. A write is guarded by `Fits`, a commit moves
  written rows into the table, an abort drops them. The lemmas about `ReadItem`, `Refuse`,
  `WriteItem`, `Install` and `Abort` are in `StockDbProofs`, over `StockDb` alone, and the
  document modules cite them.
- `SerialLedger`: `StockRacing = {} /\ Spec => []LedgerReconciles`. The invariant must
  say why a commit does not install a stale row: `Claims` says that a busy request serves one
  movement of its item and that its transaction is in one of three states, the later two computed
  from the row *as it is now*; `Disjoint` says that no two busy requests serve the same item.
  `Disjoint` is what `MayStart` gives when `StockRacing` is empty, and it preserves `Claims` of the
  others when a request commits. Finding 1 is the failure of `Disjoint`.
- `SerialAlerts` is `AlertOnCrossing` under the same condition. From the invariant every commit changes one item by the delta of its
  movement and raises its alarm by that change (`CommitEffect`), and no other step touches rows or alerts.

**Transfers** (`TransferProofs`), under `Apart`: approvals do not overlap with another decision on their
transfer, while cancels and receives may.

- `SettledOnce`, `LifecycleKept`, `TypeCorrect` from `TInv`. `SettledAtMostOnce` alone says nothing of
  the requests that have not won yet. `Guarded` says that the status a posting request was gated on is
  still there, because it holds the row (`OneWriter`: two posting requests are not on one transfer);
  `WonIsSettled` says that a won transfer has a settled status, so no gate lets a second winner pass.
  Finding 2 is the failure of `Guarded` for an approval, which holds no row.
- `StockStaysInRange` adds the stock side (`StockInv`): types and `RangeInv` of `StockDb`, and a transaction is
  open exactly while its handler is posting.
- With `StockRacing = {}` as well (requests on one item come one at a time, unless they are about the same transfer):
  `TransfersAreAtomic`, `InTransitIsHeld`, `NothingIsLost`. The difficulty is that a transaction posts several movements, one row
  after the other. `MoveInv` says of every open transaction, by `Carries` of `StockDbProofs`, that the rows it has written and the movements it has
  still to post add up to *one change of the committed rows as they are now*: the hold, release or landing of its transfer. Reading, writing and
  refusing keep the sum, the commit of another request touches none of its rows, and when the last
  movement is written the commit installs the whole change. This step is the one of `AtomicTransfers`, and the two sums of
  stock are read off it.
- Sums are over arbitrary finite sets. `SumProofs` proves, from the recursive definition of the community modules' fold, what a sum does when one element
  changes or is moved, by taking a smallest subset for which the claim fails (there is no induction over data to cite). `OpeningAssumption`
  (the opening hold is that of the opening transfers) and the finiteness of `Transfer` and `Warehouse` enter here.

**Purchase orders** (`OrderProofs`), in three layers.

- Under `OnlyReceipts` (receipts of one order overlap freely, nothing else on it does): `LinesAreReceipts`,
  `CompletionHasTime`, `TypeCorrect`, `StockStaysInRange`. `OInv` says that an order somebody is receiving is
  APPROVED, PARTIALLY_RECEIVED or COMPLETED, that nobody else works on it, and that no order has units before its
  first receipt. The receipt rows are made from the delivery and the lines grow in the loop, so that they agree needs the loop invariant
  `BookInv`: the units a receipt has incremented are exactly what its delivery says of the positions it has taken. When none is left they are the
  receipt rows (`UnitsAreRows`), because a delivery names no product twice (PO 324).
- Under `Serial` (nothing overlaps on one order): `NeverOverReceived`, `PartialIsOutstanding`, `LifecycleKept`. `SInv`
  adds `Counted`: the units a handler has incremented leave room within the ordered quantities (`Room`), the positions it has
  still to come to have none yet, the line it is about to increment passed its re-check and still would, and what
  `Tally` found is what the commit will leave. Finding 3 is the failure of `Counted`: with two receipts the re-check is stale at the increment.
- The stock. `ReceiptsReachTheStock` (`OnlyReceipts`, `StockRacing = {}`) allows receipts of one order to overlap. `GainInv` says
  that a request busy with an item is the only one, or shares its order (`Separate`), that a handler which has incremented a line
  is the only one that has (`OneHolder`), and, with `Carries`, that what its transaction has written and has still to write is the gain of
  the units it has incremented: the lock of the line is what makes the rows it read the committed ones. It is taken
  before the row is read, so the order of PO 396 and 408 matters (the mutant `IncrementUnlocked`).
- `UpdatesReplace` (`OnlyReceipts`): `UpdateInv` says that no line appears between the delete and the create of an update, and that from
  its commit to its answer the order has the lines of the update.
- `OrdersAreAtomic` (`Serial`, `StockRacing = {}`) needs all of these and `BookInv` again: at the commit all positions are taken, so the
  step is `Received` of `AtomicOrders` with the whole delivery; every decision, update and creation is a step by itself, because its guard still holds.

**Stock counts** (`CountProofs`), in three layers.

- Under `OnlyEntries` (entries to one count overlap freely, nothing else on it does): `TypeCorrect` and `CountedStaysFrozen`,
  whatever races on the stock. `CInv` says that what a handler found when it loaded its count
  still holds (`Holds`: the status, the lines, the counted quantities), because whoever could change it is not beside it
  (`Alone`); `OpenFor` says that a transaction is open only for a movement or a reconciliation that has not committed.
  `CountWrites` lists the steps that can change a count; a step that changes the quantities of one is an `Enter`, whose count is open.
- A reconciliation aligns the stock under `NoRaces` (moreover no two requests on one item). `AlignInv` says that the stock
  of requests under way is disjoint (`Apart`), that a transaction stays in the stock of its request (`Inside`), and that every counted line
  of a reconciliation is ahead, being posted with the difference to the row *as it is now*, or settled: the
  transaction then sees the row with the counted quantity (`Aligning`). A commit of another request changes none of these
  rows (`AligningFrame`), so when the last line is settled the commit installs what `Reconciled` says (`ReconcileIsAtomic`). `CountsAlign` is
  `ReconcilesToCounted`: only its commit ends a reconciliation (`CommitsReconcile`), and it leaves of every settled line what was counted. Finding 4 is the
  failure of `Apart`: the row that a line was compared with is no longer the committed one.
- `CountsAreAtomic` (`NoRaces`) adds `StepInv` for the other handlers: the snapshot of a create is the available stock *as it is now*
  (`Recorded`), what `enterCounts` has written and its entries still to come are together what the request says (`Entering`, by
  `ToldFirst`: the first entry holds of its line until a later one about it), and a movement books its delta on the committed row (`Moving`).
  The last entry about a product exists because `<` is well-founded on the naturals (`LatestExists`).
- `CountsAlert` (`NoRaces`) is `AlertOnCrossing`, with reconciliations that take several items down in one commit. `AlarmInv` says that
  the alarms of an open transaction are those of the rows it has written, by the committed rows as they are now: it writes
  each row once, from the committed one (`FirstWrite`), and nobody else changes that before it commits.

**The ledger beside documents.** `LedgerReconciles` for every module that moves stock: `TransfersReconcile` (`Apart`), `ReceiptsReconcile`
(`OnlyReceipts`) and `CountsReconcile` (`NoRaces`), each with `StockRacing = {}` and over transactions of any number of lines. The argument is that of `StockDbProofs`
and the same for all: `Even` says of an open transaction that each row it has written is the committed one plus what it has posted on it, that it has posted on no other
row, and that what it has read is what it sees. Reads and writes keep that (`EvenRead`, `EvenWrite`), a commit of such a transaction
books what it changes (`EvenCommit`), and it disturbs no other as long as none depends on a row it wrote (`LedgerCommit`). That last
point is where the documents differ, and their invariants give it: the stock of other transfers (`Separate`), the locked lines of
other receipts (`LocksApart`), the stock of other requests (`Apart`).

**Sessions** (`SessionProofs`).

- `SessionsTyped`, `RetriesSucceed`, `ViewFollowsTokens`, `TabsDoNotEvict`, for any `Between`, tabs, users and calls. `IInv` joins
  the types, `WiresOK` (what a wire of each kind carries in each phase), `RotatedFresh` (the token of a settled refresh, and of a call sent again, has not
  aged) and `AccountsOK` (as long as nobody logged out or changed an account, the owner of every pair is ACTIVE with a stored hash).
- `SessionsImplementAccounts`: `Between = {} /\ Spec => ImplementsAccounts`. With `CheckedFits` (what the first
  statement of a login or refresh read still holds) `StoreAndIssue` is a `Grant`, `Logout` a `Close`, each statement
  of UsersService an edit, and every step of a tab a stutter.

**Catalog** (`CatalogProofs`). All four theorems rest on `Typed`, which is `TypeOK` together with, for every operation, the
lists of statements that a request in progress may still have to run, and on lemmas that say of every step what
it changes (`NextIsStep`, `StepFrame`).

- `TypeCorrect` and `ImagesStayPresent` hold for any `Exclusive`, hence whatever overlaps. `ImagesPresent` is not inductive: `ImageInv`
  adds that no two rows name one key (`KeysApart`), that a key in a row or remembered as the old one was stored by a handler
  that is done with it (`KeysSettled`, `OldIsOurs`), that an upload about to delete the old file has replaced it in the row
  (`OldReplaced`), and that the file it is about to name is saved (`NewSaved`). `Excused` is `ImagesPresent` with
  the requests that explain a missing file named.
- `VariantsNeverTakeAProductsSku` under `SkuWritesApart` (a variant is not written while a product is). `ProductsChecked` says that
  what the first SELECT of `assertSkuAvailable` found still holds when the variant is stored.
- `CategoriesStayAForest` under `TreeWritesApart` (moves apart, removals apart from what attaches). "No cycle" is stated without a
  recursive definition: every non-empty set of categories has a member whose parent is outside it. `WalkHolds` says that the
  categories a walk has passed (`Above`) are a set with their parents, up to the one it reads next, and do not contain the moved category; when the walk
  has ended that set is closed under parents, which is why the move closes no cycle. Other requests keep it so: a created category hangs under an
  existing one, and moves and removals do not run beside a walk. `NothingHangs` says that the counts before a deletion still hold.

Only model-checked: the liveness properties (`EveryRequestAnswered`, `EveryCallSettles`), since neither fairness nor ENABLED is within
the prover's reach. Every other property of a passing run is the statement of a theorem, under the same condition on what
may overlap as in the run or a weaker one.

## 6. Not modelled

Reads (lists, details, dashboards, reports, movements, supplier performance, barcodes), formatting, validation messages,
HTTP and configuration, the throttling of the credential endpoints, migrations and the seed, the front ends' pages and generated code:
none decides a write. The generated client is the larger part of the repository's lines, pages and UI components most of the rest. Data that no property reads: notes,
prices, reasons, names, dates, attributes, MIME checks of an image. Recipients of alerts (an alert is counted once per event). Passwords and secrets: a
login of an ACTIVE user may be answered 401 at any time. Isolation levels other than READ COMMITTED are not used by the code.

*Scope and roles.* A scope is fixed when the request starts, as `ScopeGuard` fixes it; assignments are constant in the models, so
an assignment withdrawn while a request runs is not seen. Roles are constant too. *Warehouses and suppliers* are single updates by id whose
fields no other handler reads to decide a write. *generatePo* is a loop of the creates that `PurchaseOrders` models, without a transaction around it: a
failure in the middle leaves the drafts made so far.

The schema's comment on transfers names only
REQUESTED -> CANCELLED; the code, and the model, also cancel an APPROVED transfer.
`StockCountStatus.CANCELLED` is never written by the code and is not in the model.

Six hazards of `PROJECT.json` have no property: the SKU of a product (section 4), and five of which no line of the code claims anything: a movement whose commit is not
acknowledged and that is sent again, the age of a count's snapshot, a late refresh after a logout, localStorage across tabs, the
scope fixed at the start of a request. A few more
are known and not in that list, for the same reason: the activity row written after the commit, the drafts of a half-done `generatePo`, recipients read apart from the alert.

## 7. Plan

What is left, in order of importance:

1. `generatePo` as a loop of creates on `PurchaseOrders`; assignments and recipients as state, with `Scope` read from them.
