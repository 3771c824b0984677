------------------------------ MODULE Custody -------------------------------
(***************************************************************************)
(* The requests that move a coffee batch through its life up to the sale:  *)
(* the status endpoint, the processing route, and the warehouse's store    *)
(* and check-out routes, running concurrently against one PostgreSQL       *)
(* database.                                                               *)
(*                                                                         *)
(* A request is a slot of Requests.  The database runs READ COMMITTED, so  *)
(* every query of a handler sees what is committed at that moment: each    *)
(* query whose answer the handler uses later is a step of its own, and     *)
(* the slot remembers the answer.  The writes of a transaction become      *)
(* visible together, so they are one step, the commit.  The only lock a    *)
(* handler takes before its writes, FOR UPDATE on a warehouse, is whLock.  *)
(* The ledger append runs after the commit, in a step that may never come. *)
(***************************************************************************)
EXTENDS BatchStatus, Integers, FiniteSets, Functions

CONSTANTS
  Batches,      \* the coffee batches, all registered
  Warehouses,
  Requests,     \* the slots: how many requests may be in flight at once
  RowIds,       \* ids of warehouse_inventory rows: how many may be created
  Weights,      \* the weights, in kg, a delivery or a store request carries
  MaxTotal,     \* bound on a batch's total weight
  Capacity,     \* capacity_kg of each warehouse, None where it is null
  None          \* "no value", where the code has null or nothing yet

ASSUME CustodyAssumption ==
  /\ Weights \subseteq Nat \ {0}
  /\ MaxTotal \in Nat
  /\ Capacity \in [Warehouses -> Nat \cup {None}]
  /\ None \notin Status \cup Batches \cup Warehouses \cup Requests \cup RowIds
  /\ None \notin Nat
  /\ IsFiniteSet(RowIds)

VARIABLES
  status,       \* coffee_batches.status
  total,        \* coffee_batches.total_weight_kg
  processed,    \* the batches that have a processing record
  inventory,    \* warehouse_inventory: row id -> row
  ledger,       \* batch -> the event types appended to its ledger
  whLock,       \* the request holding FOR UPDATE on a warehouse row
  req           \* the requests in flight

vars == <<status, total, processed, inventory, ledger, whLock, req>>

Event == {"PROCESSING_COMPLETED", "WAREHOUSE_STORED",
          "OWNERSHIP_TRANSFERRED", "SALE_RECORDED"}

\* An inventory row; open while removed_at is null.
Row == [batch : Batches \cup {None}, wh : Warehouses \cup {None},
        kg : Nat, open : BOOLEAN]

NoRow == [batch |-> None, wh |-> None, kg |-> 0, open |-> FALSE]

\* Where a request is between two of its queries.
Stage == {"idle", "statusWrite", "processTx", "processWrite", "storeTx",
          "storeRead", "storeWrite", "removeWrite", "append"}

\* A request's local state: what it was asked (batch, target, wh, kg, row),
\* what it has read (seen, seenTotal) and the event it is to append.
Slot == [stage : Stage, batch : Batches \cup {None},
         target : Status \cup {None}, seen : Status \cup {None},
         wh : Warehouses \cup {None}, kg : Nat, seenTotal : Nat,
         row : RowIds \cup {None}, event : Event \cup {None}]

Idle == [stage |-> "idle", batch |-> None, target |-> None, seen |-> None,
         wh |-> None, kg |-> 0, seenTotal |-> 0, row |-> None, event |-> None]

TypeOK ==
  /\ status \in [Batches -> Status]
  /\ total \in [Batches -> Nat]
  /\ processed \subseteq Batches
  /\ inventory \in [RowIds -> Row]
  /\ ledger \in [Batches -> SUBSET Event]
  /\ whLock \in [Warehouses -> Requests \cup {None}]
  /\ req \in [Requests -> Slot]

Init ==
  /\ status = [b \in Batches |-> "REGISTERED"]
  /\ total = [b \in Batches |-> 0]
  /\ processed = {}
  /\ inventory = [i \in RowIds |-> NoRow]
  /\ ledger = [b \in Batches |-> {}]
  /\ whLock = [w \in Warehouses |-> None]
  /\ req = [r \in Requests |-> Idle]

-----------------------------------------------------------------------------
(* The helpers the handlers share. *)

OpenRows(b) == {i \in RowIds : inventory[i].batch = b /\ inventory[i].open}

HasRow(b) == \E i \in RowIds : inventory[i].batch = b

\* The aggregate of weight_kg over a warehouse's open rows.
Load(w) ==
  SumFunctionOnSet([i \in RowIds |-> inventory[i].kg],
                   {i \in RowIds : inventory[i].wh = w /\ inventory[i].open})

\* A slip: anything may be rejected.
CanTransitionOrReject(from, to) ==
  from = to \/ to = "REJECTED" \/ to \in AllowedTransitions[from]

\* What transitionBatchStatus lets pass: a no-op or a legal move.
CanTransition(from, to) == from = to \/ to \in AllowedTransitions[from]

\* A slip: only the end of processing asks for a record.
NeedsRecordAtEnd == {"PROCESSED"}

\* Statuses transitionBatchStatus refuses without a processing record.
NeedsRecord == {"IN_PROCESSING", "PROCESSED"}

\* A slip: a rejected batch keeps its place in the warehouse.
LeavesStorageInTrade == {"SOLD", "IN_TRANSIT"}

\* Statuses on whose entry transitionBatchStatus closes the open rows.
LeavesStorage == {"SOLD", "IN_TRANSIT", "REJECTED"}

\* Every open row of b gets its removed_at.
CloseRows(b) == [i \in RowIds |->
  IF inventory[i].batch = b THEN [inventory[i] EXCEPT !.open = FALSE]
                            ELSE inventory[i]]

\* STATUS_EVENT: the ledger event a status change is recorded as.
StatusEvent(s) ==
  CASE s = "IN_STORAGE"           -> "WAREHOUSE_STORED"
    [] s = "IN_TRANSIT"           -> "OWNERSHIP_TRANSFERRED"
    [] s \in {"SOLD", "EXPORTED"} -> "SALE_RECORDED"
    [] OTHER                      -> "PROCESSING_COMPLETED"

\* The writes of transitionBatchStatus once its checks have passed: the
\* status is set by id, whatever it has become since it was read.
WriteTransition(b, seen, to) ==
  IF seen = to THEN UNCHANGED <<status, inventory>>
  ELSE /\ status' = [status EXCEPT ![b] = to]
       /\ inventory' = IF to \in LeavesStorage THEN CloseRows(b) ELSE inventory

\* Request r goes on to its next query; or ends.
Goto(r, stage) == req' = [req EXCEPT ![r].stage = stage]
Finish(r) == req' = [req EXCEPT ![r] = Idle]

-----------------------------------------------------------------------------
(* PATCH /batches/:id/status, updateBatchStatus. *)

\* Slips: the endpoint takes a target that only a store, or a sale, may claim.
DirectTargetsStored == Status \ {"REGISTERED", "SOLD"}
DirectTargetsSold == Status \ {"REGISTERED", "IN_STORAGE"}

\* The targets the endpoint takes: its validator knows no REGISTERED, and the
\* service refuses SOLD and IN_STORAGE, which only a sale or a store may claim.
DirectTargets == Status \ {"REGISTERED", "SOLD", "IN_STORAGE"}

\* The transaction reads the batch.  A no-op commits at once, and is
\* recorded all the same; an illegal move ends the request.
StatusRead(r, b, to) ==
  /\ req[r].stage = "idle"
  /\ to \in DirectTargets
  /\ CanTransition(status[b], to)
  /\ req' = [req EXCEPT ![r] =
       [Idle EXCEPT !.stage = IF status[b] = to THEN "append" ELSE "statusWrite",
                    !.batch = b, !.target = to, !.seen = status[b],
                    !.event = StatusEvent(to)]]
  /\ UNCHANGED <<status, total, processed, inventory, ledger, whLock>>

\* It counts the processing records where the target needs one, and writes.
StatusCommit(r) ==
  LET b == req[r].batch
      to == req[r].target
  IN  /\ req[r].stage = "statusWrite"
      /\ to \in NeedsRecord => b \in processed
      /\ WriteTransition(b, req[r].seen, to)
      /\ Goto(r, "append")
      /\ UNCHANGED <<total, processed, ledger, whLock>>

-----------------------------------------------------------------------------
(* POST /processing. *)

\* The batch is read before the transaction opens.
ProcessRead(r, b) ==
  /\ req[r].stage = "idle"
  /\ req' = [req EXCEPT ![r] =
       [Idle EXCEPT !.stage = "processTx", !.batch = b, !.seen = status[b],
                    !.target = "IN_PROCESSING", !.event = "PROCESSING_COMPLETED"]]
  /\ UNCHANGED <<status, total, processed, inventory, ledger, whLock>>

\* The transaction inserts the record.  A batch that was further along when
\* it was read keeps its status and the transaction commits here ...
ProcessKeepStatus(r) ==
  /\ req[r].stage = "processTx"
  /\ req[r].seen # "REGISTERED"
  /\ processed' = processed \cup {req[r].batch}
  /\ Goto(r, "append")
  /\ UNCHANGED <<status, total, inventory, ledger, whLock>>

\* ... one that was REGISTERED is read again, by transitionBatchStatus.
ProcessStart(r) ==
  /\ req[r].stage = "processTx"
  /\ req[r].seen = "REGISTERED"
  /\ CanTransition(status[req[r].batch], "IN_PROCESSING")
  /\ req' = [req EXCEPT ![r].stage = "processWrite",
                        ![r].seen = status[req[r].batch]]
  /\ UNCHANGED <<status, total, processed, inventory, ledger, whLock>>

ProcessCommit(r) ==
  /\ req[r].stage = "processWrite"
  /\ processed' = processed \cup {req[r].batch}
  /\ WriteTransition(req[r].batch, req[r].seen, "IN_PROCESSING")
  /\ Goto(r, "append")
  /\ UNCHANGED <<total, ledger, whLock>>

-----------------------------------------------------------------------------
(* POST /warehouses/store. *)

\* The batch, with its total weight, is read before the transaction opens.
StoreRead(r, b, w, k) ==
  /\ req[r].stage = "idle"
  /\ req' = [req EXCEPT ![r] =
       [Idle EXCEPT !.stage = "storeTx", !.batch = b, !.wh = w, !.kg = k,
                    !.seenTotal = total[b], !.target = "IN_STORAGE",
                    !.event = "WAREHOUSE_STORED"]]
  /\ UNCHANGED <<status, total, processed, inventory, ledger, whLock>>

\* A slip: the warehouse is measured without waiting for its lock.
LockIgnored(w) == TRUE

\* SELECT ... FOR UPDATE waits for the holder of the warehouse row.
LockIsFree(w) == whLock[w] = None

\* A slip: the weight is compared with a fixed maximum.
CoffeeUnchecked(r) == req[r].kg <= MaxTotal

\* The batch, as it was read, holds the coffee to be stored.
EnoughCoffee(r) == req[r].kg <= req[r].seenTotal

\* There is room for k kg, or the warehouse declares no limit.
Fits(w, k) == Capacity[w] = None \/ k <= Capacity[w] - Load(w)

\* The transaction locks the warehouse, then checks that the batch is in no
\* warehouse, that it holds that much coffee and that the warehouse has room.
StoreMeasure(r) ==
  LET w == req[r].wh
  IN  /\ req[r].stage = "storeTx"
      /\ LockIsFree(w)
      /\ OpenRows(req[r].batch) = {}
      /\ EnoughCoffee(r)
      /\ Fits(w, req[r].kg)
      /\ whLock' = [whLock EXCEPT ![w] = r]
      /\ Goto(r, "storeRead")
      /\ UNCHANGED <<status, total, processed, inventory, ledger>>

\* transitionBatchStatus reads the batch again.
StoreReadStatus(r) ==
  /\ req[r].stage = "storeRead"
  /\ CanTransition(status[req[r].batch], "IN_STORAGE")
  /\ req' = [req EXCEPT ![r].stage = "storeWrite",
                        ![r].seen = status[req[r].batch]]
  /\ UNCHANGED <<status, total, processed, inventory, ledger, whLock>>

\* A slip: no index, only the handler's own look.
OpenRowUnindexed(b) == TRUE

\* The partial unique index: one open row per batch.
UniqueOpenRow(b) == OpenRows(b) = {}

\* The status and the new row are written; the commit frees the warehouse.
StoreCommit(r) ==
  LET b == req[r].batch
      w == req[r].wh
  IN  /\ req[r].stage = "storeWrite"
      /\ UniqueOpenRow(b)
      /\ \E i \in RowIds :
           /\ inventory[i] = NoRow
           /\ inventory' = [inventory EXCEPT ![i] =
                [batch |-> b, wh |-> w, kg |-> req[r].kg, open |-> TRUE]]
      /\ status' = [status EXCEPT ![b] =
                      IF req[r].seen = "IN_STORAGE" THEN @ ELSE "IN_STORAGE"]
      /\ whLock' = [whLock EXCEPT ![w] = None]
      /\ Goto(r, "append")
      /\ UNCHANGED <<total, processed, ledger>>

-----------------------------------------------------------------------------
(* POST /warehouses/:inventoryId/remove: no transaction, no ledger event. *)

RemoveRead(r, i) ==
  /\ req[r].stage = "idle"
  /\ inventory[i].open
  /\ req' = [req EXCEPT ![r] = [Idle EXCEPT !.stage = "removeWrite", !.row = i]]
  /\ UNCHANGED <<status, total, processed, inventory, ledger, whLock>>

RemoveCommit(r) ==
  /\ req[r].stage = "removeWrite"
  /\ inventory' = [inventory EXCEPT ![req[r].row].open = FALSE]
  /\ Finish(r)
  /\ UNCHANGED <<status, total, processed, ledger, whLock>>

-----------------------------------------------------------------------------
\* A slip: the event of a store is appended before the store commits.
AppendEventEarly(r) ==
  /\ req[r].stage \in {"append", "storeWrite"}
  /\ ledger' = [ledger EXCEPT ![req[r].batch] = @ \cup {req[r].event}]
  /\ Finish(r)
  /\ UNCHANGED <<status, total, processed, inventory, whLock>>

\* recordBlockchainEvent, after the commit.
AppendEvent(r) ==
  /\ req[r].stage = "append"
  /\ ledger' = [ledger EXCEPT ![req[r].batch] = @ \cup {req[r].event}]
  /\ Finish(r)
  /\ UNCHANGED <<status, total, processed, inventory, whLock>>

\* A slip: a transaction that fails keeps its lock.
LockKept(r) == whLock

\* The locks that go with the transaction of r.
Released(r) == [w \in Warehouses |-> IF whLock[w] = r THEN None ELSE whLock[w]]

\* A request ends early: a check fails, the transaction times out or is
\* refused by the database, or the server stops.  What it has not committed
\* is rolled back and its lock is freed; what it has committed stays.
Abort(r) ==
  /\ req[r].stage # "idle"
  /\ whLock' = Released(r)
  /\ Finish(r)
  /\ UNCHANGED <<status, total, processed, inventory, ledger>>

\* assignDeliveriesToBatch adds k kg to a batch, whatever its status.
AddWeight(b, k) ==
  /\ total[b] + k <= MaxTotal
  /\ total' = [total EXCEPT ![b] = @ + k]
  /\ UNCHANGED <<status, processed, inventory, ledger, whLock, req>>

\* Request r arrives and makes its first query.
Arrive(r) ==
  \/ \E b \in Batches, to \in Status : StatusRead(r, b, to)
  \/ \E b \in Batches : ProcessRead(r, b)
  \/ \E b \in Batches, w \in Warehouses, k \in Weights : StoreRead(r, b, w, k)
  \/ \E i \in RowIds : RemoveRead(r, i)

\* Request r, in flight, takes its next step.
Continue(r) ==
  \/ StatusCommit(r)
  \/ ProcessKeepStatus(r) \/ ProcessStart(r) \/ ProcessCommit(r)
  \/ StoreMeasure(r) \/ StoreReadStatus(r) \/ StoreCommit(r)
  \/ RemoveCommit(r)
  \/ AppendEvent(r)
  \/ Abort(r)

Next ==
  \/ \E r \in Requests : Arrive(r) \/ Continue(r)
  \/ \E b \in Batches, k \in Weights : AddWeight(b, k)

Spec == Init /\ [][Next]_vars

\* A request in flight does not stall for ever: Prisma ends an interactive
\* transaction at its timeout, so some step of it, at worst Abort, is taken.
Fairness == \A r \in Requests : WF_vars(Continue(r))

FairSpec == Spec /\ Fairness

-----------------------------------------------------------------------------
(* What holds however the requests interleave. *)

\* A batch is in at most one warehouse: it has at most one open inventory
\* row, although two stores of it may both have seen none (warehouse.routes.ts
\* answers with a sentence; the partial unique index decides).
OneOpenRow ==
  \A b \in Batches : \A i, j \in OpenRows(b) : i = j

\* No warehouse ever holds more than its declared capacity: the store route
\* measures the load and inserts the row in two queries, and the FOR UPDATE
\* lock alone keeps two stores from fitting into the same free space.
CapacityRespected ==
  \A w \in Warehouses : Capacity[w] # None => Load(w) <= Capacity[w]

\* No row records more coffee than its batch holds, although the store route
\* compares with a total it read before its transaction opened.
RowWithinTotal ==
  \A i \in RowIds : inventory[i] # NoRow =>
    inventory[i].kg <= total[inventory[i].batch]

\* A batch that is past processing has a processing record: no interleaving
\* of the endpoints walks it there on status changes alone
\* (coffeeBatch.service.ts, the check in transitionBatchStatus).
ProcessingBacked ==
  \A b \in Batches : status[b] \in PastProcessing => b \in processed

\* A batch that is stored, or has left storage in trade, has an inventory row
\* behind it: IN_STORAGE is a claim that an operational record exists
\* (coffeeBatch.service.ts, updateBatchStatus).
StorageBacked ==
  \A b \in Batches : status[b] \in PastStorage => HasRow(b)

\* A WAREHOUSE_STORED event on the ledger has a committed inventory row behind
\* it: the append runs after the commit, never for a store that rolled back.
StoredEventBacked ==
  \A b \in Batches : "WAREHOUSE_STORED" \in ledger[b] => HasRow(b)

\* A warehouse row is locked by exactly the store that is between its
\* measurement and its commit; no lock outlives its transaction.
LockHeldByStore ==
  \A w \in Warehouses, r \in Requests :
    whLock[w] = r <=> /\ req[r].stage \in {"storeRead", "storeWrite"}
                      /\ req[r].wh = w

\* A batch enters IN_STORAGE only in a commit that also leaves it with an
\* open row: the status and the row of a store become visible together.
EntersWithRow ==
  [][\A b \in Batches : status[b] # "IN_STORAGE" /\ status'[b] = "IN_STORAGE"
       => OpenRows(b)' # {}]_vars

\* A store that waits for a warehouse is not left waiting: every lock taken is
\* given back, whatever becomes of the request that took it.
LockReleased ==
  \A w \in Warehouses : whLock[w] # None ~> whLock[w] = None

(* What the state machine promises, and keeps while requests do not overlap. *)

\* Every change of a batch's status is one legal transition.
L == INSTANCE Lifecycle
LegalTransitions == L!Spec

\* A batch that is REJECTED stays REJECTED (coffeeBatch.service.ts, the
\* comment over ALLOWED_TRANSITIONS).
StaysRejected ==
  [][\A b \in Batches : status[b] = "REJECTED" => status'[b] = "REJECTED"]_vars

\* "In Storage" counts no coffee that has left: an open row belongs to a batch
\* whose status is IN_STORAGE (coffeeBatch.service.ts, the comment over the
\* updateMany of transitionBatchStatus).
OpenRowInStorage ==
  \A b \in Batches : OpenRows(b) # {} => status[b] = "IN_STORAGE"
=============================================================================
