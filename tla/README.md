# Coffee traceability backend: a TLA+ verification project

The backend (Express, Prisma, PostgreSQL) records the life of coffee batches
for farmers' cooperatives: deliveries are rolled up into batches, batches are
processed, stored in warehouses, put into lots, sold and exported, and each
step is appended to a hash chain. This directory holds TLA+ modules that model
the parts where requests meet on shared rows, TLC runs that check them on
small instances, and TLAPS proofs for instances of every size.

Paths below are relative to the repository; `service.ts:163` is line 163.

## The system

### Components, their state and their operations

| Component | State | Operations that change it | Correct when |
|---|---|---|---|
| Batch lifecycle (`src/modules/coffeeBatches`) | `coffee_batches.status` | `updateBatchStatus`, `transitionBatchStatus` (called by four modules), `createBatch` | every change is a legal transition; a status that claims a record has it |
| Processing (`src/modules/processing`) | `processing_records` | `POST /processing` | a record and the status it starts appear together |
| Warehouses (`src/modules/warehouses`) | `warehouses`, `warehouse_inventory` | store, remove, create | one open row per batch, no warehouse over capacity, no row over its batch's weight |
| Ownership transfers (`src/modules/ownershipTransfers`) | `ownership_transfers` | initiate, confirm | a sold batch has a confirmed transfer; a transfer is confirmed once |
| Lots (`src/modules/batchGroups`) | `batch_groups`, `batch_group_members` | create, sell, confirm-sale | a lot is sold whole or not at all |
| Deliveries (`src/modules/deliveries`) | `deliveries`, `coffee_batches.total_weight_kg` | create, assign to a batch | totals cover what was delivered; a delivery goes into one batch |
| Ledger (`src/blockchain`) | `blockchain_transactions` | `recordBlockchainEvent` | append-only, verifiable, one predecessor per event |
| Accounts: `auth`, `users`, `farmers` | `users`, `farmers`, tokens in clients' hands | register, login, refresh, change password, log-out, provision, reset, delete, set status | what a session's end ended stays ended; an issued account is linked to its farmer; a lock holds |
| Permission matrix (`permissions`), maintenance mode (`system`) | `role_permissions`, `system_settings`, in-process caches in front of both | edit, invalidate, fill on read | what is withdrawn binds within the time to live; readers reach nothing that writes |
| Tenant scope (`src/repositories`, `scopeHelpers`, migrations) | session settings of each query | `set_config` with every query and transaction | no row of another cooperative, and none of another farmer to a farmer |
| Notifications (`notifications`) | `notifications` | emissions after an operation, reads, deletions | nobody is told twice, or of another cooperative's affairs; who waits for an outcome hears it |
| Reports, public verification | none; they read the tables above | none (a scan inserts a row) | they do not contradict one another |
| Entity codes, audit log, cooperatives, buyers, HTTP shell, scripts | counter rows, plain records, wiring | single statements | see "Not modelled" |

### How they interact

* Four callers change a batch's status and all go through
  `transitionBatchStatus` inside their own transaction: the status endpoint,
  processing, the warehouse's store and the confirmation of a transfer (which
  a lot's confirmation calls member by member). It also closes the batch's
  open inventory rows when the coffee leaves storage.
* The store route trusts `total_weight_kg`, which the deliveries module
  increments at any time.
* Every handler appends to the ledger after its own transaction has
  committed; `recordBlockchainEvent` runs a transaction of its own and settles
  the row later, outside any transaction.
* `authenticate` turns a token into the caller's context; the handlers narrow
  their queries by it, and the row-level policies narrow them again by the
  settings the Prisma extension sends along (only when the server connects as
  the role of `APP_DATABASE_URL`). Behind it stand the gates: password
  change, maintenance, permission. The first trusts the token, the other two
  a cache of their server's process.
* Every handler that notifies does so after its commit, with queries of its
  own; a failure is logged and swallowed.
* The reports read what the other modules write, each from other tables.
* PostgreSQL runs at READ COMMITTED. Handlers rely on one explicit row lock
  (`FOR UPDATE` on a warehouse), one advisory lock (per batch, in the ledger),
  one partial unique index (open row per batch), the row locks of their
  writes, and otherwise on what they read earlier in the request.

### What is hard

Requests overlap freely, so every read is possibly stale when it is used;
updates are by id and do not repeat the condition that was checked; a request
may fail, time out, or lose its server between any two steps, in particular
between its commit and its ledger append. A token or a cache entry outlives the
row it was made from. `PROJECT.json` lists these hazards
line by line with the properties that cover them.

## The modules

| Module | Models | State |
|---|---|---|
| `BatchStatus` | the status enumeration, `ALLOWED_TRANSITIONS` | none |
| `Lifecycle` | the abstract specification of the statuses: REGISTERED first, then legal moves only, several in one commit for a lot | `status` |
| `Custody` | status endpoint, processing, store, check-out, and their ledger events, overlapping | `status`, `total`, `processed`, `inventory`, `ledger`, `whLock`, `req` |
| `Sales` (extends `Custody`) | single transfers and lots, concurrent with all of Custody | adds `transfer`, `lot`, `handovers`, `sale` |
| `Ledger` | `recordBlockchainEvent` and `verifyChain` | `log`, `lock`, `clock`, `writer` |
| `LedgerHistory` | the abstract specification of a ledger: an append-only history, each event settled once | `history` |
| `Intake` | registering deliveries, assigning them to batches | `registered`, `batchOf`, `total`, `graded`, `req` |
| `Accounts` | users and farmers: sessions, lock-out, provisioning, reset, deletion, overlapping | `account`, `farmer`, `access`, `req`, and the histories `era`, `claimed`, `reinstated`, `overtaken` |
| `Gate` | maintenance gate, login's and the permission guard's look-ups through the caches, on several servers | `db`, `cache`, `req`, `clock`, and the histories `since`, `by` |
| `Access` | the permission keys, the seeded matrix, what each route requires, registration's grants | none |
| `Tenancy` (extends `Access`) | contexts and settings of queries, the row-level policies, the rows each route answers with or accepts | none |
| `Notices` (extends `Tenancy`) | emissions of the notification service beside changes of status and the inbox routes | `active`, `event`, `inbox`, `told` |
| `Reports` (extends `Sales`) | dashboard, movement, traceability, public page, inventory, sales ledger, yield over the states of Sales, and over any table of processing records for the batches processed | none of its own |
| `IntakeReports` (extends `Intake`) | received total, grade split, operations summary, farmers' statements over the states of Intake | none of its own |
| `Sums` | the laws of sums over finite sets, and induction over the subsets of one | none |
| `Sales_proof` (extends `Reports`), `Intake_proof` (extends `IntakeReports`), `Tenancy_proof`, `Ledger_proof`, `Accounts_proof`, `Gate_proof`, `Notices_proof` | theorems; `Sales_proof` has those about `Custody`, about `Sales` and about `Reports`, in that order | none |
| `MCCustody`, `MCSales`, `MCLedger`, `MCIntake`, `MCAccounts`, `MCGate`, `MCNotices` | the instances TLC checks | none |

Conventions shared by the modules:

* **A request is a slot.** `req`, `sale` and `writer` hold the local variables
  of the handlers in flight: what was asked, what has been read (`seen`,
  `seenTotal`, `prev`, `todo`) and how far it is (`stage`). The number of
  slots is the number of requests that may overlap.
* **A query whose answer is used later is a step**, because at READ COMMITTED
  it sees what is committed at that moment. Queries whose answer is used at
  once, and that nothing can invalidate before the next step, are folded into
  the neighbouring one.
* **A commit is one step.** The writes of a transaction become visible
  together, and the row locks they take are held until then. In Custody no
  request waits for a lock between two of its own writes with another
  request's effect on it in between, so the whole write phase is one step. In
  Sales a transaction of many writes is spread over steps: its slot records
  the rows it has written (`locked`, `sold`, `closed`), nobody else sees those
  values, and `CustodyStep` and the other sales wait for those rows.
* **Refusals and failures are one action** (`Abort`, `AbortSale`, `Crash`): a
  failed check, a timeout, a deadlock victim and a dying server all end the
  request, undo what is not committed and keep what is. A request that dies
  after its commit leaves the ledger without its event: the code has no
  recovery for it, and neither has the model.
* **Data is abstract.** Weights are small numbers of kilograms; payloads,
  buyers, prices and wording are absent, except that a transfer may or may not
  have a price. Cooperatives are absent: every modelled request is one its
  tenant check lets through.
* **Slips.** A definition commented "a slip" is a plausible bug of the
  definition after it. No specification uses it; it is what the property's
  mutant in `PROJECT.json` puts in the place of the real definition, to see
  that the property notices.

`Custody` and code, action by action:

| Action | Code |
|---|---|
| `StatusRead`, `StatusCommit` | `updateBatchStatus` and the `transitionBatchStatus` it calls, coffeeBatch.service.ts:130-208 |
| `ProcessRead` | the read before the transaction, processing.routes.ts:41 |
| `ProcessKeepStatus`, `ProcessStart`, `ProcessCommit` | its transaction, :57-67 |
| `StoreRead` | the reads before the transaction, warehouse.routes.ts:138-147 |
| `StoreMeasure` | lock and checks, :161-202 |
| `StoreReadStatus`, `StoreCommit` | transition, insert and commit, :206-208 |
| `RemoveRead`, `RemoveCommit` | check-out, :242-264 |
| `AppendEvent` | the ledger call after each commit |
| `AddWeight` | the increment of `assignDeliveriesToBatch`, as the environment of the store route |

In Sales, `Initiate`, `CreateLot*` and `Sell*` are the handlers of
ownershipTransfer.routes.ts and batchGroup.routes.ts;
`ConfirmRead`/`ConfirmLotRead`/`Gather` are what the two confirmations do
before their transaction, `ConfirmTransfer`/`ConfirmLock`/`ConfirmWrite` one
round of `confirmTransferInTx`, `SaleCommit` the commit,
`AppendHandover`/`AppendSale` `recordTransferConfirmedEvents`. In Ledger,
`Acquire`/`ReadPredecessor`/`Insert` are the append transaction,
`Confirm`/`SubmitFails`/`Fail` the settlement, `TimeOrders`/`Verifies`
`verifyChain`.

In Accounts, `LoginWrong`/`FailWrite` and `LoginRight`/`LoginWrite` are the
two ways through `login`, `RefreshRead`/`RefreshWrite`, `ChangeRead`/
`ChangeWrite`, `ProvisionRead`/`ProvisionWrite`, `ResetRead`/`ResetWrite` and
`DeleteRead`/`DeleteWrite` the handlers of those names: their first query, and
the write at their end (a transaction where the code has one). `overtaken` marks
the users and farmers whose row was written between a request's read and its
write; the properties say what holds for the others, and so what overlap may
break. Password hashes are absent: a login is made with the right password or a
wrong one.

In Gate, `Arrive` and `Login` start the two paths, `Hit`/`Miss`/`Query`/`Fill`
are `getStatus`, `isMaintenanceAllowedForUser` and `getMatrix` (one cache
pattern, three rows), `Leave` a refusal, `Write`/`Invalidate` a change and the
invalidation after it, `Restart` a server that loses its caches.

In Notices, an event is one emission: `Resolve`, `TellStaff`, `TellPerson`,
`TellFarmers` are its queries and inserts, `Fail` what `safely` swallows;
operations that only the staff hears of share the kind `work`.

Access and Tenancy hold no state. A route is a record of what it needs and
whether it writes; a route's answer is an operator from the caller's context
and a table's rows to the rows it returns or accepts; a policy is a predicate
over settings and a row.

External to the code and modelled from its use: PostgreSQL's visibility, row
locks, unique index and advisory lock, and the clock. Assumptions: SHA-256
over the joined fields is injective (`BlockHash`, `MCBlockHash`), so is its
truncation to 32 hexadecimal digits; a warehouse's declared capacity does not
change (no endpoint changes it).

## The runs

Each `.cfg` names its instance. All runs check the property on every reachable
state of the instance; symmetry is used only where no liveness property is
checked.

Runs that pass:

| Run | Instance | What it shows |
|---|---|---|
| `custody_race` | 1 batch, 2 warehouses, 2 overlapping requests, 2 inventory rows | `OneOpenRow` (the index decides between two stores in two warehouses); `RowWithinTotal` (the stale total is safe, because totals only grow); `ProcessingBacked`, `StorageBacked`, `EntersWithRow` (no sequence of requests reaches a status without its record); `StoredEventBacked` (the ledger claims no store that did not commit); `LockHeldByStore`, `LockReleased` |
| `custody_capacity` | 2 batches, 1 warehouse with room for one, 2 requests | `CapacityRespected`: measuring and inserting are two queries and the lock suffices |
| `sales_single` | 1 batch from its registration on, 2 transfers, 2 confirmations and 1 custody request overlapping | `SoldBacked`, `HandoverBacked`, `FirstSaleSellsBatch` however they interleave |
| `sales_lot` | 2 stored batches, 1 lot, 2 lot requests, 4 transfers | `LotSoldWhole` as long as no single transfer is mixed in, also when two sales of the lot overlap |
| `sales_serial` | 2 batches of 2 kg, 1 warehouse with room for both, 3 inventory rows, 2 transfers, one request in flight at a time, failures included; up to 2 processing records, each with an output of 1 kg or with none | what the code guarantees when requests do not overlap: `LegalTransitions` (it implements `Lifecycle`), `OpenRowInStorage`, `ConfirmedStaysSold`, `HandoverOnce`; and `BooksAgree`: the reports, each from other tables, do not contradict one another, whatever outputs were recorded; where the Sold figure and the chart do differ, a batch was sold twice |
| `ledger_chain` | 2 batches, 2 overlapping appends, 2 events per batch, clocks lagging by up to 1 ms, crashes, lost answers | `ChainVerifies`, `NoFork`, `TxHashUnique`, `LockReleased`, and `HistoryAppendOnly`: it implements `LedgerHistory` |
| `intake_race` | 3 deliveries, 2 batches, 2 overlapping assignments | `TotalCovers`, `TotalGrows` (on which `RowWithinTotal` relies), `GradeBacked`; `ReceivedAgrees`: dashboard, grade split, summary and statements account for the same coffee |
| `accounts` | 1 farmer, 2 users (one with an email or phone, one whose account is issued and never used), 2 overlapping requests, a lock after 2 failures, 2 endings of sessions per account | `EndedSessionsStayEnded`, `UnclaimedReachesNothing` (the password gate trusts the token, and may), `IssuedIsLinked`, `DeletedIsBarred`, `LockLifted`: each with the overlap that breaks it named in its exemption |
| `gate` | 2 servers, 2 overlapping requests, times to live of 1, a clock up to 2; one server only changes rows, and in a behaviour one row is changed (any number of times) | `WithdrawalBinds`: what was withdrawn a time to live before a request came does not let it through, on any server; `OwnChangeSeen`: the server that made a change serves it at once, unless a look-up it overtook fills the cache late |
| `notices` | 5 users of every role that matters in 2 cooperatives, 1 batch, 2 emissions failing anywhere | `ToldOnce`, `OutcomeHeard`, `StaysInCooperative` |

Runs that end in a violation, each of something the repository's own comments
say; the shortest traces:

| Run | The comment | What happens |
|---|---|---|
| `custody_revived` | a REJECTED batch is not revived (coffeeBatch.service.ts:11-12) | a `POST /processing` reads the batch REGISTERED, before its transaction and in it; another request reads REGISTERED, rejects the batch and commits; the first then writes IN_PROCESSING by id, over REJECTED |
| `sales_twice` | a sale is confirmed only from IN_STORAGE or IN_TRANSIT (ownershipTransfer.service.ts:56) | two pending transfers of one stored batch; the first is confirmed and the batch SOLD; the second is confirmed all the same, the transition from SOLD to SOLD being a no-op, and both are CONFIRMED |

### Bounds, and why they are enough

The races of this code are between two requests: each is a read, another
request's commit, and a write based on the read. Two slots contain every one
of them, and a slot is reused, so any number of requests may precede. Rows
and transfers (`RowIds`, `Transfers`) bound how many are created in a
behaviour: two rows are what a second store needs, two transfers a second
sale, four two overlapping sales of a lot of two. `MaxTotal` and `Weights` of
one kilogram distinguish "enough" from "not enough"; a capacity of one, "room"
from "full". In `sales_serial` a batch weighs two, so that an output of one is
less than what went in; of its two processing records both may be of one batch,
or each of another, with an output and without. `MaxEvents` of two per batch contains every pair of overlapping
appends of a batch. `MaxTime` bounds the clock, `MaxEnds` how often a session is
ended. Two failures to a lock contain "one short of it" and "at it". A time to
live of one and a clock up to two contain an entry that is fresh, one that has
just expired, and a change older than both.

`accounts` and `gate` restrict their specification: `IdlersUnused` keeps the
second account from being used (it is there to be issued or linked wrongly), and
`WriterOnlyWrites` and `OneRowChanges` make one server the writer and let one
kind of row change per behaviour: the properties of Gate are about one row and
one server's copy of it, except the maintenance switch and the access during
maintenance, of which one then keeps its initial value, either of the two.

The Sales runs about lots start from `StoredInit`, a state the custody
actions reach (every batch processed and stored, no request in flight).

`CHECK_DEADLOCK FALSE` stands in the runs whose instance really ends: a single
lot sold, all transfers or deliveries used up.

`ledger_chain` sets `StampsAdvance`: an append reads a later time than any
earlier event of its batch carries. The code does not ensure it (see the known
divergences); it is what holds when two events of a batch are at
least a millisecond apart and the servers' clocks agree to within that.

### Fairness

`Fairness` is weak fairness of `Continue(r)`, the disjunction of all a request
in flight may do next, `Abort` or `Crash` included. It says that a request
does not stay in its stage for ever: Prisma ends an interactive transaction
at its timeout, and a statement that waits for a lock fails with it. It does
not say that a request succeeds, that a waiting store is ever granted its
lock, or that an event is ever confirmed.

## The proofs

Every invariant and action property of a passing run is also a theorem, for
every value of the constants. The provers see no instance: what `accounts` and
`gate` leave out to be finite (`IdlersUnused`, `WriterOnlyWrites`,
`OneRowChanges`), and the states the lot runs start from, the theorems do not.

### Custody

The first part of `Sales_proof` proves, for every set of batches, warehouses
and requests, every capacity and every weight:

* `Invariance`: `Spec => []Inv`, from which `TypeSafe`, `OneOpenRowSafe`,
  `WeightSafe`, `ProcessingSafe`, `StorageSafe`, `StoredEventSafe`, `LockSafe`
  and `CapacitySafe` follow, and `EntersSafe`, an action property, by the same
  invariant.
* `SerialLifecycle` and `SerialStock`: if there is at most one request slot,
  Custody implements `Lifecycle`, and an open row belongs to a stored batch.

The properties are not inductive by themselves, because a commit writes on
the strength of what its request read earlier. `Inv` adds what every slot may
still rely on: that its arguments have their types for its stage (`SlotsOK`);
that the total it compared with is not more than the present one
(`StoreWithinTotal`); that the processing record or inventory row behind the
status it has read is there (`SeenProcessed`, `SeenStored`); that an append of
WAREHOUSE_STORED follows its row (`AppendsStored`). These survive other
requests' steps since processing records and inventory rows are never deleted
and weights never decrease; that is the reason why the stale reads are
harmless for these properties, and exactly what `StaysRejected` lacks: nothing
keeps a status that was read from changing. For the serial theorems the
invariant says that the status a slot has read is the present one (`Fresh`).

Capacity rests on something else: the room a store has measured is still there
(`MeasuredFits`), because only a store's commit raises a load (`LoadRaised`,
`LoadLowered`), and by `LockHeldByStore` nobody else can commit one to the same
warehouse in between.

### Sales

The second part extends it to all of Sales, for any lots, transfers and
overlapping sales: `SalesTypeSafe`; a SOLD or EXPORTED batch has a confirmed
transfer (`SoldSafe`); the ledger names only confirmed transfers
(`HandoverSafe`); and the commit of a batch's first confirmed transfer leaves
it SOLD (`FirstSaleSafe`). Every step of Custody is a step of Sales, so that
the invariant contains Custody's types (`TypeInv`), and each of its actions is
shown to leave what a sale relies on alone. `SalesInv` adds two facts. A sale
between its locks and its commit holds, for every transfer it confirms, either
a pending write of SOLD or another confirmed transfer of the batch (`SaleOK`),
which is what makes the skipped write of an already SOLD batch harmless. And a
request of Custody that has read SOLD read it of a batch with a confirmed
transfer (`SeenSold`), since it may write EXPORTED much later. Both survive
because a transfer keeps its batch and a confirmation is never undone (`Kept`).

`LotSafe`: a lot that is SOLD was sold whole. It assumes `Apart`: no batch is in
two lots, and none that single transfers are opened for is in one. Without it the
property is false (below). With it, all members have transfers as soon as one
has (`OfferedTogether`), so that what a confirmation gathers, with what is
confirmed already, covers the lot and goes on covering it (`InHand`).

`SalesKeepCustody`: what Custody promises it also keeps beside the sales,
whose commits write its tables. The invariant (`BothInv`) adds that whatever a
sale has written, or is about to, was processed and has been in a warehouse
(`SellsStored`): it read a status from which SOLD is legal, and what lies
behind that status is never deleted.

`SerialInvariance` is about `SerialSpec`: any number of slots, of Custody and
of Sales, of which at most one is in use. What a request has read is then so
when it writes: `Fresh` for Custody, and for a sale `AloneOK`: the
transfers it has locked are PENDING, the events it has to append are not there,
it closes every open row of what it sells, and SOLD is legal for it. From it
follow `SalesLifecycle` (Custody and Sales together implement `Lifecycle`),
`StaysSoldSafe`, `HandoverOnceSafe`, and `StockWithSales` (an open row is of a
batch that is IN_STORAGE).

### The reports, and sums

`BooksSafe` proves `BooksAgree` from that same invariant, one lemma for each of
its parts. Rows in store belong to batches IN_STORAGE, one row to a batch, none
heavier than it (`StoredRows`); confirmed transfers belong to batches SOLD or
EXPORTED; so the two sums of the dashboard are over batches apart, and within
any set that has both: all batches (`NoKiloTwiceHolds`), or those processed
(`NothingFromNowhereHolds`). `WarehousesAddUpHolds` regroups the rows by
warehouse and counts them. `OneFigureHolds` picks one confirmed transfer for
each batch that was sold (`OneForEach`): over those the chart's series and the
figure are the same sum, and the transfers left over weigh the difference, which
is nought just when none of them is of a batch that weighs something (`SumZero`).
`NothingFromNowhereHolds` speaks of every table of processing records that
covers the batches processed: record by record, what the chart shows and what
the yield report shows as lost make up the record's input (`InputsAddUp`), and
picking one record for each batch the inputs are no less than what the batches
weigh. Without the loss the chart's processed figure alone may be below what is
sold and stored: TLC finds that at once. `ReceivedSafe` does for Intake's reports
what `BooksSafe` does for these, at any interleaving.

These proofs, and `CapacitySafe`, need to know how sums behave. `Sums` derives
it from the definition of `SumFunctionOnSet`, a recursive function over the
subsets of a set: that it exists (`SumsExist`); that the order of summation does
not matter (`SumRemove`); and the laws that follow: of disjoint sets, parts,
termwise sums and comparison (`SumPlus`, `SumLeq`), sums that are nought
(`SumZero`), terms that are nought outside a part (`SumOfPart`), renaming
(`SumRenamed`) and grouping by a key (`SumByKey`).
Induction is over a set of sets that contains every subset whose proper subsets
it contains (`SubsetInduction`), by well-foundedness of strict inclusion.

### Intake

`Intake_proof` proves, for any deliveries and any number of overlapping
assignments, `TotalCovers`, `TotalGrows` (the fact `WeightSafe` relies on) and
`GradeBacked`; and that with one assignment at a time a delivery
is never moved to another batch (`NeverMoved`). Its invariant adds to the
properties that a slot about to append its grades holds batched deliveries
(`AppendsBatched`), which stays true because no delivery ever leaves the
batches; the serial theorem adds that what a slot has read as un-batched still
is (`ReadsStand`), which is false as soon as two assignments overlap.

### Accounts

`Accounts_proof` proves the five properties of the run for any users, farmers,
limits and number of overlapping requests: `SessionsSafe`, `UnclaimedSafe`,
`LinkSafe`, `DeletionSafe`, and the action property `LockSafe`. A handler decides on
what it read and writes by id. The invariant says of each slot: either another
request has written the row since, then the slot is `stale` and its write will
put the user or farmer into `overtaken`, which the properties exempt; or the row
still says what was read (`ReadStands`). `UnclaimedReachesNothing` has no such
exemption: a token about to be signed carries the flag unless its user has
chosen a password, whatever was overtaken (`SlotOK`).

### Gate

`Gate_proof` proves `WithdrawalSafe` and `OwnChangeSafe` for any number of
servers and requests and any positive times to live. What a cache may still say
against the database has a last moment: an entry that differs from its row
expires within a time to live of the row's last change (`EntryOK`). This holds
since a look-up notes the time before it queries, so that one that got the
old answer noted a time not later than the change, and fills in an expiry
counted from there (`SlotOK`).

### Notices

`Notices_proof` proves `ToldOnceSafe`, `OutcomeSafe` and `CoopSafe` for any
users, cooperatives, batches and emissions. Three parts of an emission write rows,
each from a query of its own moment, with accounts suspended and restored in between.
`EmissionOK` says whom an emission may concern and whom its first query may
have found; `RowOK`, that a row was written by the part it names, in or after that
part's turn; `Delivered`, that a part whose turn is over has written all its
rows. That no two parts name the same person follows: staff and farmers differ
in role, and the person told apart is compared with the staff that was found.

### Tenancy and Access

`Tenancy_proof` needs no invariant: the two modules are operators, and the
theorems are about every caller, table and matrix.

* `ReadersChangeNothing`, `SeededReach`, `GrantsDownward`: by the seeded matrix
  no read-only role passes the guard of a route that writes; who may edit the
  matrix or read the sales ledger; which accounts registration hands out.
  `OwnerNeverLockedOut` and `EditTouchesOneRole` hold for every matrix
  `PUT /permissions` may leave behind, and `MatrixSurvivesStorage` says that
  storing one loses nothing.
* `TransactionsRunAsTheirCaller`: `withTransaction` is modelled as a run of
  statements, each sent through the client's extension; what the connection has
  for settings before the first is arbitrary. Every statement of the callback
  runs under the settings of the request that opened the transaction (by the
  least statement that would not). `MarkBeforeSettings` is why the order in it
  matters, as its comment says (prisma.client.ts:74-83): settings sent in a scope
  not yet marked go to another connection, and the statements that follow run
  under whatever the transaction's own connection had before; and `runAsSystem`
  leaves the scope of a transaction it is called in.
* `HandlersIsolate` and `PoliciesIsolate`: each layer alone keeps a caller who
  is not the platform's owner inside its cooperative, and a farmer to its own
  rows. `NoIdentityNoRows` is about a statement without an identity, be it of
  a request nobody authenticated or of a scope marked as a transaction's whose
  connection has no settings. `NOT app_is_farmer()` is true of it since
  20260808090000_rls_predicates_never_null:19-21, so what keeps it out is the
  comparison of the cooperative, which nothing null passes: it sees and writes
  no row of any table with policies, but may append to the audit log.
* `PoliciesKeepAnswers`: the second layer takes nothing away from what the
  first answers, for the routes of deliveries, batches and the own account;
  `PoliciesNarrowFarmers` and `CooperativeUpdateDiffers` are the two places
  where it does (below).
* `DirectoriesAgree`: for the directory of cooperatives, the creation of rows
  by staff and the list of buyers the layers agree.

### Ledger

`Ledger_proof` proves for every set of batches and writers and every clock that
the chain never forks (`NoForkSafe`), that `verifyChain` accepts it in whatever
order rows might be returned (`ChainSafe`), that no transaction hash repeats
(`TxHashSafe`), that the lock is held by just the writer in its transaction
(`LockSafe`), and that the ledger implements `LedgerHistory` (`HistorySafe`),
whatever appends, crashes, refused submissions and lost answers overlap. The
properties are about the rows; the inductive invariant `Inv` says what they
rest on: each event links to the one committed before it (`Linked`), stamps
increase in the order of the commits (`Advancing`), and a writer that is about
to insert has read the hash of what still is the last event (`SlotsOK`), which
`LockHeldByWriter` keeps true: nobody else is between look-up and insert.
`Advancing` leaves `ORDER BY submitted_at` one order, the identity
(`OnlyTimeOrder`), so that what a reader lists is the commits in their order.
Two assumptions are made of the parameters: hashes do not collide
(`CollisionFree`), and `StampsAdvance`, without which the properties are false
(below).

### What is assumed, and what is not proved

Assumptions: those of the modules (`CustodyAssumption`, `SalesAssumption`,
`ReportsAssumption`, `IntakeAssumption`, `LedgerAssumption`,
`TenancyAssumption`, `AccountsAssumption`, `GateAssumption`,
`NoticesAssumption`): weights, the times to live of the caches and the limit of
failed logins are positive naturals; a table that something is summed over has
finitely many rows; a contributor of a batch is a farmer of its cooperative;
`None` is none of the values. Besides, `CollisionFree` and `StampsAdvance` for
the ledger, and, where a theorem says so, `Serial` and `Apart`. The properties
of `SerialSpec` fail when requests overlap (below).

Only model-checked: `LockReleased` of both Custody and Ledger, which are
liveness, and of the runs that end in a violation what they show.

## Known races without a run of their own

These fail as soon as two requests overlap, and are why the properties named
are checked on `sales_serial` only:

* `OpenRowInStorage`: a check of the status by a store, a transition out of
  storage by another request, then the store's insert
  (coffeeBatch.service.ts:165-175, warehouse.routes.ts:206).
* `HandoverOnce`, `ConfirmedStaysSold`: two confirmations of one transfer both
  read PENDING (ownershipTransfer.service.ts:46); a status change read before
  a sale is written after it.
* `LegalTransitions`: the lost update of `custody_revived`.
* `NeverMoved`: two assignments of one delivery both find it un-batched
  (delivery.service.ts:100-107); its weight counts in both totals.
* Two overlapping sales of a lot leave two pending transfers for a member,
  which batchGroup.routes.ts:287 rules out.

* The count of failed logins: two overlapping failures are counted once, and a
  failure that read the account before it was locked writes `lockedUntil` back
  to null (auth.service.ts:151-160). `LockLifted` exempts such overlap.
* `EndedSessionsStayEnded`: a refresh that read the account before a log-out or
  a reset writes its new token after it (auth.service.ts:231-249).
* `IssuedIsLinked`: two overlapping provisionings of a farmer without email or
  phone both see no account; the later link wins and the first account is left
  with no farmer, which farmer.service.ts:56-58 means to rule out.
* `OwnChangeSeen`: a look-up that queried before a change fills the cache after
  the invalidation, for one time to live (permission.service.ts:40-47).

## Known divergences without a run of their own

Where a comment says one thing and the code, run one request at a time, does
another. The models follow the code.

* Rejecting an unprocessed batch appends PROCESSING_COMPLETED to its ledger:
  `STATUS_EVENT` maps REJECTED to it (coffeeBatch.service.ts:115), and a
  rejection needs no record; :145-149 says the ledger carries no such event for
  processing that was never done.
* `confirm-sale` takes whatever PENDING transfers the members have: with a
  single transfer of one member pending it confirms that one and marks the lot
  SOLD (batchGroup.routes.ts:290; :268-270 and :287-288 say otherwise).
  `LotSoldWhole` fails in an instance that adds one single transfer, which is
  why its theorem assumes `Apart`.
* Two events stamped in one millisecond, or by a server whose clock lags, tie
  for "latest", and the next event may link to the wrong one
  (blockchain.service.ts:77-84; :70-72 promises that the lock prevents forks).
  `NoFork` fails with `StampsAdvance = FALSE`.
* The dashboard's chart sums a batch once per confirmed transfer, its KPI once
  per batch: they differ just when a batch that weighs something is sold twice
  (`OneFigure`; `sales_twice` shows that one may be), though
  dashboard.service.ts:139-147 says they can never tell two stories.
* Several processing records of one batch each count in the chart's Processed
  series, and one without an output with the weight of the whole batch
  (dashboard.service.ts:111-117); one with an output counts less than what is
  later sold or stored of the batch, which stays its whole weight. Neither the
  chart's processed figure nor its sold one bounds the other (`NothingFromNowhere`).
* The activity feed caps each source so that a busy one "can't crowd the others
  out of the window" (dashboard.service.ts:181-184). Each source is capped at the
  feed's own limit, and the merged list is sorted and cut to that limit again
  (:282): as many newest items of one source as the limit are all the feed shows.
* A refresh does not look at the account's status: a deactivated account that
  keeps its refresh token goes on (auth.service.ts:231-235); and with an access
  token still out it may change its password, which hands out a new session.
* The public page's `farmerCount` counts distinct first names
  (coffeeBatch.controller.ts:104-108).
* `PATCH /cooperatives/:id` admits the cooperative's own administrator, the
  policy on cooperatives refuses the write (`CooperativeUpdateDiffers`).
* The routes that read a batch's processing, transfers and reports check the
  cooperative only; that a farmer sees its own batches there is the policies'
  doing (`PoliciesNarrowFarmers`), which act only with `APP_DATABASE_URL`.

## Not modelled, and the plan

Left out for good:

* Entity codes: one upsert each, which PostgreSQL serialises; no step in
  between to interleave.
* Audit log, cooperatives and buyers as records, the row a QR scan inserts:
  single inserts and updates with nothing that depends on their order.
* The HTTP shell (routing, validation of input, rate limits, mapping of errors),
  the PDF layout, parsing of identifiers, generation of passwords, start-up,
  seed (beyond the rows the modules start from) and scripts.
* `assertOwnershipVia` (scopeHelpers.ts:62-73) and `enforceCooperativeScope`
  (authorize.ts:40-51): nothing calls them.
* The dashboard's activity feed, its percentage trends and its chain status: an
  order for display and counts over periods, on which nothing rests.
* Periods, paging and time zones of reports, and the tearing of a report over
  its parallel queries (dashboard.service.ts:331-391).

Next, in this order:

1. The composition of `Intake` with `Custody`, in place of `AddWeight`, with
   `TotalGrows` as the fact the one needs of the other.
2. The edit of a farmer's particulars beside provisioning.
3. Which properties of Sales hold for a lot whose members single transfers may
   touch: what `Apart` could be weakened to.
