---------------------------- MODULE Sales_proof -----------------------------
(***************************************************************************)
(* Proofs about Custody, about Sales beside it and about the reports over  *)
(* both, for any batches, warehouses, weights, capacities, lots and        *)
(* transfers and any number of overlapping requests.                       *)
(*                                                                         *)
(* The invariants of Custody are not inductive alone: a commit trusts what *)
(* its request read earlier.  Inv adds what each slot may still rely on.   *)
(* It survives every interleaving because the facts a slot relies on are   *)
(* never taken back: processing records, inventory rows and kilograms are  *)
(* only ever added; and a warehouse's load is raised by nobody but the     *)
(* holder of its lock.                                                     *)
(*                                                                         *)
(* A transfer, once made, keeps its batch, and a confirmation is never     *)
(* undone (Kept).  That is why what a sale has read and written before its *)
(* commit (SaleOK), and a SOLD that some request of Custody has read       *)
(* (SeenSold), stay good while others overlap with it.                     *)
(*                                                                         *)
(* While requests do not overlap (SerialSpec), what one has read is still  *)
(* so when it writes (Fresh, AloneOK): then sales stand, and the books     *)
(* agree.                                                                  *)
(***************************************************************************)
EXTENDS Reports, Sums

(***************************************************************************)
(* Custody.                                                                *)
(***************************************************************************)
StoreStage == {"storeTx", "storeRead", "storeWrite"}

\* What slot s was asked, by the stage it is at.
Asked(s) ==
  /\ s.stage \notin {"idle", "removeWrite"} =>
       s.batch \in Batches /\ s.event \in Event
  /\ s.stage \in StoreStage =>
       s.wh \in Warehouses /\ s.event = "WAREHOUSE_STORED"
  /\ s.stage = "removeWrite" => s.row \in RowIds
  /\ s.stage \in {"statusWrite", "processTx", "processWrite"} =>
       s.event # "WAREHOUSE_STORED"

\* What the read of slot s let it go on to write.
Allowed(s) ==
  /\ s.stage = "statusWrite" =>
       /\ s.target \in DirectTargets
       /\ s.seen \in Status
       /\ s.target \in AllowedTransitions[s.seen]
  /\ s.stage = "processWrite" => s.seen \in {"REGISTERED", "IN_PROCESSING"}
  /\ s.stage = "storeWrite" => s.seen \in {"PROCESSED", "IN_STORAGE", "IN_TRANSIT"}

SlotsOK == \A r \in Requests : Asked(req[r]) /\ Allowed(req[r])

\* The status a slot has read has behind it what a status needs.
SeenProcessed ==
  \A r \in Requests : req[r].seen \in PastProcessing => req[r].batch \in processed

SeenStored ==
  \A r \in Requests : req[r].seen \in PastStorage => HasRow(req[r].batch)

\* The weight a store has been checked against is still there.
StoreWithinTotal ==
  \A r \in Requests :
    /\ req[r].stage = "storeTx" => req[r].seenTotal <= total[req[r].batch]
    /\ req[r].stage \in {"storeRead", "storeWrite"} =>
         req[r].kg <= total[req[r].batch]

\* A store that holds a warehouse's lock still finds the room it measured.
MeasuredFits ==
  \A r \in Requests :
    req[r].stage \in {"storeRead", "storeWrite"} /\ Capacity[req[r].wh] # None
      => Load(req[r].wh) + req[r].kg <= Capacity[req[r].wh]

\* A slot that is to append WAREHOUSE_STORED has committed its row.
AppendsStored ==
  \A r \in Requests :
    req[r].stage = "append" /\ req[r].event = "WAREHOUSE_STORED"
      => HasRow(req[r].batch)

\* A row in use belongs to a batch.
RowsOwned ==
  \A i \in RowIds : inventory[i] = NoRow \/ inventory[i].batch \in Batches

\* ... and lies in a warehouse.
RowsHoused ==
  \A i \in RowIds : inventory[i] = NoRow \/ inventory[i].wh \in Warehouses

TypeInv == TypeOK /\ SlotsOK

Inv ==
  /\ TypeInv
  /\ OneOpenRow
  /\ RowsOwned /\ RowsHoused /\ RowWithinTotal /\ StoreWithinTotal
  /\ ProcessingBacked /\ SeenProcessed
  /\ StorageBacked /\ SeenStored
  /\ StoredEventBacked /\ AppendsStored
  /\ LockHeldByStore
  /\ MeasuredFits /\ CapacityRespected

-----------------------------------------------------------------------------
(* What the shared helpers return. *)

\* An event is chosen for every status, and WAREHOUSE_STORED for one alone.
LEMMA StatusEventType ==
  ASSUME NEW s \in Status
  PROVE  /\ StatusEvent(s) \in Event
         /\ s # "IN_STORAGE" => StatusEvent(s) # "WAREHOUSE_STORED"
BY DEF StatusEvent, Event, Status

\* Closing a batch's rows keeps the rows, their batches and their weights.
LEMMA CloseRowsKeeps ==
  ASSUME TypeOK, NEW b \in Batches
  PROVE  /\ CloseRows(b) \in [RowIds -> Row]
         /\ \A i \in RowIds :
              /\ CloseRows(b)[i].batch = inventory[i].batch
              /\ CloseRows(b)[i].wh = inventory[i].wh
              /\ CloseRows(b)[i].kg = inventory[i].kg
              /\ CloseRows(b)[i].open => inventory[i].open
              /\ inventory[i].batch = b => ~CloseRows(b)[i].open
BY DEF CloseRows, TypeOK, Row

\* Nobody comes back to REGISTERED, and each way into a status has one origin.
LEMMA Origins ==
  ASSUME NEW s \in Status
  PROVE  /\ AllowedTransitions[s] \subseteq Status
         /\ "IN_PROCESSING" \in AllowedTransitions[s] => s = "REGISTERED"
         /\ "IN_STORAGE" \in AllowedTransitions[s] => s \in {"PROCESSED", "IN_TRANSIT"}
         /\ "IN_TRANSIT" \in AllowedTransitions[s] => s = "IN_STORAGE"
         /\ "EXPORTED" \in AllowedTransitions[s] => s = "SOLD"
BY DEF AllowedTransitions, Status

-----------------------------------------------------------------------------
(* Types, and what each slot holds at its stage. *)

\* The system starts with empty slots and empty columns of the right types.
LEMMA TypeInit == Init => TypeInv
BY CustodyAssumption
   DEF Init, TypeInv, TypeOK, SlotsOK, Asked, Allowed, Status, NoRow, Row, Idle,
       Slot, Stage, StoreStage

\* A step writes one slot; the others hold what they held.
LEMMA OneSlot ==
  ASSUME TypeInv, NEW r \in Requests, NEW s \in Slot, Asked(s), Allowed(s),
         req' = [req EXCEPT ![r] = s]
  PROVE  req' \in [Requests -> Slot] /\ SlotsOK'
BY DEF TypeInv, TypeOK, SlotsOK

\* The transitions that write a status keep the columns' types.
LEMMA WriteType ==
  ASSUME TypeOK, NEW b \in Batches, NEW seen, NEW to \in Status,
         WriteTransition(b, seen, to)
  PROVE  status' \in [Batches -> Status] /\ inventory' \in [RowIds -> Row]
BY CloseRowsKeeps DEF WriteTransition, TypeOK

\* Going on to another stage leaves what the slot was asked and has read.
LEMMA MoveOn ==
  ASSUME TypeInv, NEW r \in Requests, NEW stage \in Stage
  PROVE  LET s == [req[r] EXCEPT !.stage = stage]
         IN  /\ s \in Slot /\ s.stage = stage
             /\ s.batch = req[r].batch /\ s.event = req[r].event
             /\ s.wh = req[r].wh
BY DEF TypeInv, TypeOK, Slot

\* Every step keeps the types, and what each slot holds at its stage.
LEMMA TypeStep == TypeInv /\ [Next]_vars => TypeInv'
<1> SUFFICES ASSUME TypeInv, [Next]_vars PROVE TypeInv'
  OBVIOUS
<1>idle. Idle \in Slot /\ Asked(Idle) /\ Allowed(Idle)
  BY DEF Idle, Slot, Stage, Asked, Allowed, StoreStage
<1>1. ASSUME NEW r \in Requests, NEW b \in Batches, NEW to \in Status,
             StatusRead(r, b, to)
      PROVE  TypeInv'
  <2> DEFINE new == [Idle EXCEPT
               !.stage = IF status[b] = to THEN "append" ELSE "statusWrite",
               !.batch = b, !.target = to, !.seen = status[b],
               !.event = StatusEvent(to)]
  <2>1. status[b] \in Status /\ StatusEvent(to) \in Event
        /\ StatusEvent(to) # "WAREHOUSE_STORED"
    BY <1>1, StatusEventType DEF StatusRead, DirectTargets, TypeInv, TypeOK
  <2>2. new \in Slot
    BY <2>1 DEF Slot, Stage, Idle
  <2>3. Asked(new) /\ Allowed(new)
    BY <1>1, <2>1 DEF StatusRead, CanTransition, Asked, Allowed, StoreStage, Idle
  <2>4. req' = [req EXCEPT ![r] = new]
    BY <1>1 DEF StatusRead
  <2> HIDE DEF new
  <2> QED
    BY <1>1, <2>2, <2>3, <2>4, OneSlot DEF StatusRead, TypeInv, TypeOK
<1>2. ASSUME NEW r \in Requests, NEW b \in Batches, ProcessRead(r, b)
      PROVE  TypeInv'
  <2> DEFINE new ==
        [Idle EXCEPT !.stage = "processTx", !.batch = b, !.seen = status[b],
                     !.target = "IN_PROCESSING", !.event = "PROCESSING_COMPLETED"]
  <2>1. new \in Slot
    BY DEF TypeInv, TypeOK, Slot, Stage, Idle, Status, Event
  <2>2. Asked(new) /\ Allowed(new)
    BY DEF Asked, Allowed, StoreStage, Idle, Event
  <2>3. req' = [req EXCEPT ![r] = new]
    BY <1>2 DEF ProcessRead
  <2> HIDE DEF new
  <2> QED
    BY <1>2, <2>1, <2>2, <2>3, OneSlot DEF ProcessRead, TypeInv, TypeOK
<1>3. ASSUME NEW r \in Requests, NEW b \in Batches, NEW w \in Warehouses,
             NEW k \in Weights, StoreRead(r, b, w, k)
      PROVE  TypeInv'
  <2> DEFINE new ==
        [Idle EXCEPT !.stage = "storeTx", !.batch = b, !.wh = w, !.kg = k,
                     !.seenTotal = total[b], !.target = "IN_STORAGE",
                     !.event = "WAREHOUSE_STORED"]
  <2>1. new \in Slot
    BY CustodyAssumption DEF TypeInv, TypeOK, Slot, Stage, Idle, Status, Event
  <2>2. Asked(new) /\ Allowed(new)
    BY DEF Asked, Allowed, StoreStage, Idle, Event
  <2>3. req' = [req EXCEPT ![r] = new]
    BY <1>3 DEF StoreRead
  <2> HIDE DEF new
  <2> QED
    BY <1>3, <2>1, <2>2, <2>3, OneSlot DEF StoreRead, TypeInv, TypeOK
<1>4. ASSUME NEW r \in Requests, NEW i \in RowIds, RemoveRead(r, i)
      PROVE  TypeInv'
  <2> DEFINE new == [Idle EXCEPT !.stage = "removeWrite", !.row = i]
  <2>1. new \in Slot /\ Asked(new) /\ Allowed(new)
    BY DEF Slot, Stage, Idle, Asked, Allowed, StoreStage
  <2>2. req' = [req EXCEPT ![r] = new]
    BY <1>4 DEF RemoveRead
  <2> HIDE DEF new
  <2> QED
    BY <1>4, <2>1, <2>2, OneSlot DEF RemoveRead, TypeInv, TypeOK
<1>5. ASSUME NEW r \in Requests, StatusCommit(r)
      PROVE  TypeInv'
  <2> DEFINE new == [req[r] EXCEPT !.stage = "append"]
  <2>1. new \in Slot /\ Asked(new) /\ Allowed(new)
    <3>1. Asked(req[r]) /\ "append" \in Stage
      BY DEF TypeInv, SlotsOK, Stage
    <3> QED
      BY <1>5, <3>1, MoveOn DEF StatusCommit, Asked, Allowed, StoreStage
  <2>2. req' = [req EXCEPT ![r] = new]
    BY <1>5 DEF StatusCommit, Goto, TypeInv, TypeOK, Slot
  <2>3. req[r].batch \in Batches /\ req[r].target \in Status
    BY <1>5 DEF StatusCommit, TypeInv, SlotsOK, Asked, Allowed, DirectTargets
  <2> HIDE DEF new
  <2> QED
    BY <1>5, <2>1, <2>2, <2>3, OneSlot, WriteType DEF StatusCommit, TypeInv, TypeOK
<1>6. ASSUME NEW r \in Requests, ProcessKeepStatus(r)
      PROVE  TypeInv'
  <2> DEFINE new == [req[r] EXCEPT !.stage = "append"]
  <2>1. new \in Slot /\ Asked(new) /\ Allowed(new)
    <3>1. Asked(req[r]) /\ "append" \in Stage
      BY DEF TypeInv, SlotsOK, Stage
    <3> QED
      BY <1>6, <3>1, MoveOn DEF ProcessKeepStatus, Asked, Allowed, StoreStage
  <2>2. req' = [req EXCEPT ![r] = new]
    BY <1>6 DEF ProcessKeepStatus, Goto, TypeInv, TypeOK, Slot
  <2>3. req[r].batch \in Batches
    BY <1>6 DEF ProcessKeepStatus, TypeInv, SlotsOK, Asked
  <2> HIDE DEF new
  <2> QED
    BY <1>6, <2>1, <2>2, <2>3, OneSlot DEF ProcessKeepStatus, TypeInv, TypeOK
<1>7. ASSUME NEW r \in Requests, ProcessStart(r)
      PROVE  TypeInv'
  <2> DEFINE new == [req[r] EXCEPT !.stage = "processWrite",
                                   !.seen = status[req[r].batch]]
  <2>1. req[r].batch \in Batches
    BY <1>7 DEF ProcessStart, TypeInv, SlotsOK, Asked
  <2>2. status[req[r].batch] \in {"REGISTERED", "IN_PROCESSING"}
    BY <1>7, <2>1, Origins DEF ProcessStart, CanTransition, TypeInv, TypeOK
  <2>3. new \in Slot /\ Asked(new) /\ Allowed(new)
    <3>1. Asked(req[r]) /\ "processWrite" \in Stage /\ status[req[r].batch] \in Status
      BY <2>2 DEF TypeInv, SlotsOK, Stage, Status
    <3>2. /\ new \in Slot /\ new.stage = "processWrite" /\ new.seen = status[req[r].batch]
          /\ new.batch = req[r].batch /\ new.event = req[r].event
          /\ new.wh = req[r].wh
      BY <3>1 DEF TypeInv, TypeOK, Slot
    <3> HIDE DEF new
    <3> QED
      BY <1>7, <2>2, <3>1, <3>2 DEF ProcessStart, Asked, Allowed, StoreStage
  <2>4. req' = [req EXCEPT ![r] = new]
    BY <1>7 DEF ProcessStart, TypeInv, TypeOK, Slot
  <2> HIDE DEF new
  <2> QED
    BY <1>7, <2>3, <2>4, OneSlot DEF ProcessStart, TypeInv, TypeOK
<1>8. ASSUME NEW r \in Requests, ProcessCommit(r)
      PROVE  TypeInv'
  <2> DEFINE new == [req[r] EXCEPT !.stage = "append"]
  <2>1. new \in Slot /\ Asked(new) /\ Allowed(new)
    <3>1. Asked(req[r]) /\ "append" \in Stage
      BY DEF TypeInv, SlotsOK, Stage
    <3> QED
      BY <1>8, <3>1, MoveOn DEF ProcessCommit, Asked, Allowed, StoreStage
  <2>2. req' = [req EXCEPT ![r] = new]
    BY <1>8 DEF ProcessCommit, Goto, TypeInv, TypeOK, Slot
  <2>3. req[r].batch \in Batches /\ "IN_PROCESSING" \in Status
    BY <1>8 DEF ProcessCommit, TypeInv, SlotsOK, Asked, Status
  <2> HIDE DEF new
  <2> QED
    BY <1>8, <2>1, <2>2, <2>3, OneSlot, WriteType DEF ProcessCommit, TypeInv, TypeOK
<1>9. ASSUME NEW r \in Requests, StoreMeasure(r)
      PROVE  TypeInv'
  <2> DEFINE new == [req[r] EXCEPT !.stage = "storeRead"]
  <2>1. new \in Slot /\ Asked(new) /\ Allowed(new)
    <3>1. Asked(req[r]) /\ "storeRead" \in Stage
      BY DEF TypeInv, SlotsOK, Stage
    <3> QED
      BY <1>9, <3>1, MoveOn DEF StoreMeasure, Asked, Allowed, StoreStage
  <2>2. req' = [req EXCEPT ![r] = new]
    BY <1>9 DEF StoreMeasure, Goto, TypeInv, TypeOK, Slot
  <2> HIDE DEF new
  <2> QED
    BY <1>9, <2>1, <2>2, OneSlot DEF StoreMeasure, TypeInv, TypeOK
<1>10. ASSUME NEW r \in Requests, StoreReadStatus(r)
       PROVE  TypeInv'
  <2> DEFINE new == [req[r] EXCEPT !.stage = "storeWrite",
                                   !.seen = status[req[r].batch]]
  <2>1. req[r].batch \in Batches
    BY <1>10 DEF StoreReadStatus, TypeInv, SlotsOK, Asked
  <2>2. status[req[r].batch] \in {"PROCESSED", "IN_STORAGE", "IN_TRANSIT"}
    BY <1>10, <2>1, Origins DEF StoreReadStatus, CanTransition, TypeInv, TypeOK
  <2>3. new \in Slot /\ Asked(new) /\ Allowed(new)
    <3>1. Asked(req[r]) /\ "storeWrite" \in Stage /\ status[req[r].batch] \in Status
      BY <2>2 DEF TypeInv, SlotsOK, Stage, Status
    <3>2. /\ new \in Slot /\ new.stage = "storeWrite" /\ new.seen = status[req[r].batch]
          /\ new.batch = req[r].batch /\ new.event = req[r].event
          /\ new.wh = req[r].wh
      BY <3>1 DEF TypeInv, TypeOK, Slot
    <3> HIDE DEF new
    <3> QED
      BY <1>10, <2>2, <3>1, <3>2 DEF StoreReadStatus, Asked, Allowed, StoreStage
  <2>4. req' = [req EXCEPT ![r] = new]
    BY <1>10 DEF StoreReadStatus, TypeInv, TypeOK, Slot
  <2> HIDE DEF new
  <2> QED
    BY <1>10, <2>3, <2>4, OneSlot DEF StoreReadStatus, TypeInv, TypeOK
<1>11. ASSUME NEW r \in Requests, StoreCommit(r)
       PROVE  TypeInv'
  <2> DEFINE new == [req[r] EXCEPT !.stage = "append"]
  <2>1. new \in Slot /\ Asked(new) /\ Allowed(new)
    <3>1. Asked(req[r]) /\ "append" \in Stage
      BY DEF TypeInv, SlotsOK, Stage
    <3> QED
      BY <1>11, <3>1, MoveOn DEF StoreCommit, Asked, Allowed, StoreStage
  <2>2. req' = [req EXCEPT ![r] = new]
    BY <1>11 DEF StoreCommit, Goto, TypeInv, TypeOK, Slot
  <2>3. /\ req[r].batch \in Batches /\ req[r].wh \in Warehouses /\ req[r].kg \in Nat
        /\ "IN_STORAGE" \in Status
    BY <1>11 DEF StoreCommit, TypeInv, TypeOK, Slot, SlotsOK, Asked, StoreStage, Status
  <2>4. inventory' \in [RowIds -> Row]
    BY <1>11, <2>3 DEF StoreCommit, TypeInv, TypeOK, Row
  <2> HIDE DEF new
  <2> QED
    BY <1>11, <2>1, <2>2, <2>3, <2>4, OneSlot DEF StoreCommit, TypeInv, TypeOK
<1>12. ASSUME NEW r \in Requests, RemoveCommit(r)
       PROVE  TypeInv'
  <2> DEFINE row == req[r].row
             closed == [inventory[row] EXCEPT !.open = FALSE]
  <2>1. row \in RowIds
    BY <1>12 DEF RemoveCommit, TypeInv, SlotsOK, Asked
  <2>2. closed \in Row
    BY <2>1 DEF TypeInv, TypeOK, Row
  <2>3. inventory' = [inventory EXCEPT ![row] = closed]
    BY <1>12, <2>1 DEF RemoveCommit, TypeInv, TypeOK, Row
  <2>4. inventory' \in [RowIds -> Row]
    <3> HIDE DEF closed
    <3> QED BY <2>2, <2>3 DEF TypeInv, TypeOK
  <2> QED
    BY <1>12, <1>idle, <2>4, OneSlot DEF RemoveCommit, Finish, TypeInv, TypeOK
<1>13. ASSUME NEW r \in Requests, AppendEvent(r)
       PROVE  TypeInv'
  <2>1. req[r].batch \in Batches /\ req[r].event \in Event
    BY <1>13 DEF AppendEvent, TypeInv, SlotsOK, Asked
  <2> QED
    BY <1>13, <1>idle, <2>1, OneSlot DEF AppendEvent, Finish, TypeInv, TypeOK
<1>14. ASSUME NEW r \in Requests, Abort(r)
       PROVE  TypeInv'
  BY <1>14, <1>idle, OneSlot DEF Abort, Finish, Released, TypeInv, TypeOK
<1>15. ASSUME NEW b \in Batches, NEW k \in Weights, AddWeight(b, k)
       PROVE  TypeInv'
  BY <1>15, CustodyAssumption DEF AddWeight, TypeInv, TypeOK, SlotsOK
<1>16. CASE UNCHANGED vars
  BY <1>16 DEF vars, TypeInv, TypeOK, SlotsOK
<1> QED
  BY <1>1, <1>2, <1>3, <1>4, <1>5, <1>6, <1>7, <1>8, <1>9, <1>10, <1>11, <1>12,
     <1>13, <1>14, <1>15, <1>16 DEF Next, Arrive, Continue

\* The columns and the slots keep their types in every reachable state.
THEOREM TypeSafe == Spec => []TypeOK
<1>1. TypeInv => TypeOK
  BY DEF TypeInv
<1> QED
  BY <1>1, TypeInit, TypeStep, PTL DEF Spec

-----------------------------------------------------------------------------
(* What no step takes back. *)

\* A step leaves a row alone, or closes it, or it is the commit of a store that
\* fills an unused one.
LEMMA RowWriters ==
  ASSUME TypeInv, [Next]_vars, NEW i \in RowIds
  PROVE  \/ inventory'[i] = inventory[i]
         \/ inventory'[i] = [inventory[i] EXCEPT !.open = FALSE]
         \/ \E r \in Requests :
              /\ StoreCommit(r) /\ inventory[i] = NoRow
              /\ inventory'[i] = [batch |-> req[r].batch, wh |-> req[r].wh,
                                  kg |-> req[r].kg, open |-> TRUE]
<1> USE DEF TypeInv, TypeOK
<1>1. ASSUME NEW r \in Requests, StatusCommit(r) \/ ProcessCommit(r)
      PROVE  \/ inventory'[i] = inventory[i]
             \/ inventory'[i] = [inventory[i] EXCEPT !.open = FALSE]
  BY <1>1 DEF StatusCommit, ProcessCommit, WriteTransition, CloseRows
<1>2. ASSUME NEW r \in Requests, StoreCommit(r)
      PROVE  \/ inventory'[i] = inventory[i]
             \/ /\ inventory[i] = NoRow
                /\ inventory'[i] = [batch |-> req[r].batch, wh |-> req[r].wh,
                                    kg |-> req[r].kg, open |-> TRUE]
  BY <1>2 DEF StoreCommit
<1>3. ASSUME NEW r \in Requests, RemoveCommit(r)
      PROVE  \/ inventory'[i] = inventory[i]
             \/ inventory'[i] = [inventory[i] EXCEPT !.open = FALSE]
  BY <1>3 DEF RemoveCommit
<1>4. \/ inventory' = inventory
      \/ \E r \in Requests :
           StatusCommit(r) \/ ProcessCommit(r) \/ StoreCommit(r) \/ RemoveCommit(r)
  BY DEF Next, vars, Arrive, Continue, StatusRead, ProcessRead, StoreRead, RemoveRead,
     ProcessKeepStatus, ProcessStart, StoreMeasure, StoreReadStatus, AppendEvent,
     Abort, AddWeight
<1> QED
  BY <1>1, <1>2, <1>3, <1>4

\* Closing a row changes nothing else of it, and an unused row not at all.
LEMMA ClosedRow ==
  ASSUME TypeOK, NEW i \in RowIds
  PROVE  LET closed == [inventory[i] EXCEPT !.open = FALSE]
         IN  /\ closed.batch = inventory[i].batch
             /\ closed.kg = inventory[i].kg
             /\ ~closed.open
             /\ inventory[i] = NoRow => closed = NoRow
<1>1. inventory[i] \in Row
  BY DEF TypeOK
<1>2. ~inventory[i].open => [inventory[i] EXCEPT !.open = FALSE] = inventory[i]
  BY <1>1 DEF Row
<1>3. inventory[i] = NoRow => ~inventory[i].open
  BY DEF NoRow
<1> QED
  BY <1>1, <1>2, <1>3 DEF Row

\* Processing records, kilograms and inventory rows are only ever added: no
\* handler deletes one or moves a row to another batch.
LEMMA NothingTakenBack ==
  ASSUME TypeInv, [Next]_vars
  PROVE  /\ processed \subseteq processed'
         /\ \A b \in Batches : total[b] <= total'[b]
         /\ \A i \in RowIds : inventory[i].batch \in Batches =>
              inventory'[i].batch = inventory[i].batch
<1> USE DEF TypeInv, TypeOK, SlotsOK
<1>1. ASSUME NEW b \in Batches, NEW k \in Weights, AddWeight(b, k)
      PROVE  \A c \in Batches : total[c] <= total'[c]
  BY <1>1, CustodyAssumption DEF AddWeight
<1>2. \A b \in Batches : total[b] <= total'[b]
  <2>1. CASE total' = total
    BY <2>1
  <2>2. CASE \E b \in Batches, k \in Weights : AddWeight(b, k)
    BY <2>2, <1>1
  <2> QED
    BY <2>1, <2>2 DEF Next, vars, Arrive, Continue, StatusRead, ProcessRead, StoreRead,
       RemoveRead, StatusCommit, ProcessKeepStatus, ProcessStart, ProcessCommit,
       StoreMeasure, StoreReadStatus, StoreCommit, RemoveCommit, AppendEvent, Abort
<1>3. processed \subseteq processed'
  BY DEF Next, vars, Arrive, Continue, StatusRead, ProcessRead, StoreRead,
     RemoveRead, StatusCommit, ProcessKeepStatus, ProcessStart, ProcessCommit,
     StoreMeasure, StoreReadStatus, StoreCommit, RemoveCommit, AppendEvent, Abort,
     AddWeight
<1>4. ASSUME NEW i \in RowIds, inventory[i].batch \in Batches
      PROVE  inventory'[i].batch = inventory[i].batch
  <2>1. CASE inventory'[i] = [inventory[i] EXCEPT !.open = FALSE]
    BY <2>1, ClosedRow
  <2>2. inventory[i] # NoRow
    BY <1>4, CustodyAssumption DEF NoRow
  <2> QED
    BY <2>1, <2>2, RowWriters
<1> QED
  BY <1>2, <1>3, <1>4

\* A batch that has an inventory row has one ever after.
COROLLARY RowsStay ==
  ASSUME TypeInv, [Next]_vars, NEW b \in Batches, HasRow(b)
  PROVE  HasRow(b)'
BY NothingTakenBack DEF HasRow

\* A step that is not the commit of one of three requests changes no status.
LEMMA StatusWriters ==
  ASSUME [Next]_vars
  PROVE  \/ status' = status
         \/ \E r \in Requests : StatusCommit(r) \/ ProcessCommit(r) \/ StoreCommit(r)
BY DEF Next, vars, Arrive, Continue, StatusRead, ProcessRead, StoreRead,
   RemoveRead, ProcessKeepStatus, ProcessStart, StoreMeasure, StoreReadStatus,
   RemoveCommit, AppendEvent, Abort, AddWeight

\* A step leaves a slot alone, or leaves what it was asked and has read, or
\* empties it, or it is a read.
LEMMA SlotWriters ==
  ASSUME TypeInv, [Next]_vars, NEW q \in Requests
  PROVE  \/ /\ req'[q].batch = req[q].batch /\ req'[q].seen = req[q].seen
            /\ req'[q].wh = req[q].wh /\ req'[q].kg = req[q].kg
            /\ req'[q].seenTotal = req[q].seenTotal
            /\ req'[q].event = req[q].event
            /\ \/ req'[q].stage = req[q].stage
               \/ StatusCommit(q) \/ ProcessKeepStatus(q) \/ ProcessCommit(q)
               \/ StoreMeasure(q) \/ StoreCommit(q)
         \/ req'[q] = Idle
         \/ \E b \in Batches, to \in Status : StatusRead(q, b, to)
         \/ \E b \in Batches : ProcessRead(q, b)
         \/ \E b \in Batches, w \in Warehouses, k \in Weights : StoreRead(q, b, w, k)
         \/ \E i \in RowIds : RemoveRead(q, i)
         \/ ProcessStart(q) \/ StoreReadStatus(q)
<1> DEFINE Same == req'[q] = req[q]
<1>1. ASSUME NEW r \in Requests, r # q, Arrive(r) \/ Continue(r)
      PROVE  Same
  BY <1>1 DEF TypeInv, TypeOK, Arrive, Continue, StatusRead, ProcessRead, StoreRead,
     RemoveRead, StatusCommit, ProcessKeepStatus, ProcessStart, ProcessCommit,
     StoreMeasure, StoreReadStatus, StoreCommit, RemoveCommit, AppendEvent, Abort,
     Goto, Finish
<1>2. ASSUME NEW b \in Batches, NEW k \in Weights, AddWeight(b, k)
      PROVE  Same
  BY <1>2 DEF AddWeight
<1>3. CASE UNCHANGED vars
  BY <1>3 DEF vars
<1>4. CASE RemoveCommit(q) \/ AppendEvent(q) \/ Abort(q)
  BY <1>4 DEF RemoveCommit, AppendEvent, Abort, Finish, TypeInv, TypeOK
<1>5. CASE \/ StatusCommit(q) \/ ProcessKeepStatus(q) \/ ProcessCommit(q)
           \/ StoreMeasure(q) \/ StoreCommit(q)
  BY <1>5 DEF StatusCommit, ProcessKeepStatus, ProcessCommit, StoreMeasure,
     StoreCommit, Goto, TypeInv, TypeOK, Slot
<1> HIDE DEF Same
<1>6. CASE Same
  BY <1>6 DEF Same
<1> QED
  BY <1>1, <1>2, <1>3, <1>4, <1>5, <1>6 DEF Next, Arrive, Continue

\* What a read leaves in its slot.
LEMMA ReadSlot ==
  ASSUME TypeInv, NEW q \in Requests
  PROVE  /\ \A b \in Batches, to \in Status : StatusRead(q, b, to) =>
              /\ req'[q].batch = b /\ req'[q].seen = status[b]
              /\ req'[q].stage \in {"statusWrite", "append"}
              /\ req'[q].event # "WAREHOUSE_STORED"
         /\ \A b \in Batches : ProcessRead(q, b) =>
              /\ req'[q].batch = b /\ req'[q].seen = status[b]
              /\ req'[q].stage = "processTx"
         /\ \A b \in Batches, w \in Warehouses, k \in Weights :
              StoreRead(q, b, w, k) =>
                /\ req'[q].batch = b /\ req'[q].seen = None
                /\ req'[q].stage = "storeTx" /\ req'[q].seenTotal = total[b]
         /\ \A i \in RowIds : RemoveRead(q, i) =>
              req'[q].seen = None /\ req'[q].stage = "removeWrite"
         /\ ProcessStart(q) \/ StoreReadStatus(q) =>
              /\ req'[q].batch = req[q].batch
              /\ req'[q].batch \in Batches
              /\ req'[q].seen = status[req[q].batch]
              /\ req'[q].wh = req[q].wh /\ req'[q].kg = req[q].kg
         /\ ProcessStart(q) => req'[q].stage = "processWrite"
         /\ StoreReadStatus(q) =>
              req[q].stage = "storeRead" /\ req'[q].stage = "storeWrite"
<1> USE DEF TypeInv, TypeOK, SlotsOK, Slot
<1>1. ASSUME NEW b \in Batches, NEW to \in Status, StatusRead(q, b, to)
      PROVE  /\ req'[q].batch = b /\ req'[q].seen = status[b]
             /\ req'[q].stage \in {"statusWrite", "append"}
             /\ req'[q].event # "WAREHOUSE_STORED"
  <2>1. StatusEvent(to) # "WAREHOUSE_STORED"
    BY <1>1, StatusEventType DEF StatusRead, DirectTargets
  <2> QED
    BY <1>1, <2>1 DEF StatusRead, Idle
<1>2. ProcessStart(q) \/ StoreReadStatus(q) =>
        /\ req'[q].batch = req[q].batch
        /\ req'[q].batch \in Batches
        /\ req'[q].seen = status[req[q].batch]
        /\ req'[q].wh = req[q].wh /\ req'[q].kg = req[q].kg
  BY DEF ProcessStart, StoreReadStatus, Asked
<1>3. /\ ProcessStart(q) => req'[q].stage = "processWrite"
      /\ StoreReadStatus(q) => req[q].stage = "storeRead" /\ req'[q].stage = "storeWrite"
  BY DEF ProcessStart, StoreReadStatus
<1>4. \A b \in Batches : ProcessRead(q, b) =>
        /\ req'[q].batch = b /\ req'[q].seen = status[b]
        /\ req'[q].stage = "processTx"
  BY DEF ProcessRead, Idle
<1>5. \A b \in Batches, w \in Warehouses, k \in Weights : StoreRead(q, b, w, k) =>
        /\ req'[q].batch = b /\ req'[q].seen = None
        /\ req'[q].stage = "storeTx" /\ req'[q].seenTotal = total[b]
  BY DEF StoreRead, Idle
<1>6. \A i \in RowIds : RemoveRead(q, i) =>
        req'[q].seen = None /\ req'[q].stage = "removeWrite"
  BY DEF RemoveRead, Idle
<1> QED
  BY <1>1, <1>2, <1>3, <1>4, <1>5, <1>6

-----------------------------------------------------------------------------
(* Processing: the record behind the status. *)

\* Every step keeps the processing record behind each status, in the batches
\* and in what the requests have read.
LEMMA ProcessedStep ==
  ASSUME TypeInv, ProcessingBacked, SeenProcessed, [Next]_vars
  PROVE  (ProcessingBacked /\ SeenProcessed)'
<1>none. None \notin PastProcessing
  BY CustodyAssumption DEF PastProcessing, PastStorage, Status
<1>1. ProcessingBacked'
  <2>1. ASSUME NEW r \in Requests, StatusCommit(r)
        PROVE  ProcessingBacked'
    <3> DEFINE b == req[r].batch
               to == req[r].target
    <3>1. /\ b \in Batches /\ req[r].seen \in Status
          /\ to \in DirectTargets /\ to \in AllowedTransitions[req[r].seen]
      BY <2>1 DEF StatusCommit, TypeInv, SlotsOK, Asked, Allowed
    <3>2. to \in PastProcessing => b \in processed
      <4>1. CASE to \in NeedsRecord
        BY <2>1, <4>1 DEF StatusCommit
      <4>2. CASE to \in {"IN_TRANSIT", "EXPORTED"}
        <5>1. req[r].seen \in PastProcessing
          BY <3>1, <4>2, Origins DEF PastProcessing, PastStorage
        <5> QED
          BY <5>1 DEF SeenProcessed
      <4> QED
        BY <3>1, <4>1, <4>2
           DEF DirectTargets, NeedsRecord, PastProcessing, PastStorage, Status
    <3>3. \A c \in Batches : status'[c] = IF c = b THEN status'[b] ELSE status[c]
      BY <2>1 DEF StatusCommit, WriteTransition, TypeInv, TypeOK
    <3>4. status'[b] \in {status[b], to} /\ processed' = processed
      BY <2>1, <3>1 DEF StatusCommit, WriteTransition, TypeInv, TypeOK
    <3> QED
      BY <3>1, <3>2, <3>3, <3>4 DEF ProcessingBacked
  <2>2. ASSUME NEW r \in Requests, ProcessCommit(r)
        PROVE  ProcessingBacked'
    BY <2>2 DEF ProcessCommit, WriteTransition, ProcessingBacked, TypeInv, TypeOK
  <2>3. ASSUME NEW r \in Requests, StoreCommit(r)
        PROVE  ProcessingBacked'
    <3>1. req[r].seen \in PastProcessing
      BY <2>3 DEF StoreCommit, TypeInv, SlotsOK, Allowed, PastProcessing, PastStorage
    <3>2. req[r].batch \in processed
      BY <3>1 DEF SeenProcessed
    <3> QED
      BY <2>3, <3>2 DEF StoreCommit, ProcessingBacked, TypeInv, TypeOK
  <2>4. CASE status' = status
    BY <2>4, NothingTakenBack DEF ProcessingBacked
  <2> QED
    BY <2>1, <2>2, <2>3, <2>4, StatusWriters
<1>2. ASSUME NEW q \in Requests, req'[q].seen \in PastProcessing
      PROVE  req'[q].batch \in processed'
  <2>1. CASE req'[q].batch = req[q].batch /\ req'[q].seen = req[q].seen
    BY <1>2, <2>1, NothingTakenBack DEF SeenProcessed
  <2>2. CASE req'[q] = Idle
    BY <1>2, <1>none, <2>2 DEF Idle
  <2>3. CASE req'[q].batch \in Batches /\ req'[q].seen = status[req'[q].batch]
    BY <1>2, <2>3, NothingTakenBack DEF ProcessingBacked
  <2>4. CASE req'[q].seen = None
    BY <1>2, <1>none, <2>4
  <2> QED
    BY <2>1, <2>2, <2>3, <2>4, SlotWriters, ReadSlot
<1> QED
  BY <1>1, <1>2 DEF SeenProcessed

-----------------------------------------------------------------------------
(* Storage: the inventory row behind the status, and behind its event. *)

\* The commit of a store leaves its batch with an open row.
LEMMA StoreLeavesRow ==
  ASSUME TypeInv, NEW r \in Requests, StoreCommit(r)
  PROVE  OpenRows(req[r].batch)' # {} /\ HasRow(req[r].batch)'
<1>1. PICK i \in RowIds : inventory' = [inventory EXCEPT ![i] =
        [batch |-> req[r].batch, wh |-> req[r].wh, kg |-> req[r].kg, open |-> TRUE]]
  BY DEF StoreCommit
<1>2. inventory'[i].batch = req[r].batch /\ inventory'[i].open
  BY <1>1 DEF TypeInv, TypeOK
<1>3. (req[r].batch)' = req[r].batch
  BY DEF StoreCommit, Goto, TypeInv, TypeOK, Slot
<1> QED
  BY <1>2, <1>3 DEF OpenRows, HasRow

\* Every step keeps the inventory row behind each status, in the batches and
\* in what the requests have read.
LEMMA StoredStep ==
  ASSUME TypeInv, SeenProcessed, StorageBacked, SeenStored, [Next]_vars
  PROVE  (StorageBacked /\ SeenStored)'
<1>none. None \notin PastStorage
  BY CustodyAssumption DEF PastStorage, Status
<1>1. ASSUME NEW c \in Batches, status'[c] \in PastStorage
      PROVE  HasRow(c)'
  <2>1. CASE status[c] \in PastStorage
    BY <2>1, RowsStay DEF StorageBacked
  <2>2. ASSUME NEW r \in Requests, StatusCommit(r), status'[c] # status[c]
        PROVE  HasRow(c)'
    <3>1. /\ c = req[r].batch /\ req[r].seen \in Status
          /\ status'[c] \in DirectTargets
          /\ status'[c] \in AllowedTransitions[req[r].seen]
      BY <2>2 DEF StatusCommit, WriteTransition, TypeInv, TypeOK, SlotsOK, Asked, Allowed
    <3>2. req[r].seen \in PastStorage
      BY <1>1, <3>1, Origins DEF PastStorage, DirectTargets
    <3> QED
      BY <3>1, <3>2, RowsStay DEF SeenStored
  <2>3. ASSUME NEW r \in Requests, ProcessCommit(r), status'[c] # status[c]
        PROVE  HasRow(c)'
    BY <1>1, <2>3 DEF ProcessCommit, WriteTransition, TypeInv, TypeOK, PastStorage
  <2>4. ASSUME NEW r \in Requests, StoreCommit(r), status'[c] # status[c]
        PROVE  HasRow(c)'
    <3>1. c = req[r].batch
      BY <2>4 DEF StoreCommit, TypeInv, TypeOK
    <3>2. (req[r].batch)' = req[r].batch
      BY <2>4 DEF StoreCommit, Goto, TypeInv, TypeOK, Slot
    <3> QED
      BY <2>4, <3>1, <3>2, StoreLeavesRow DEF HasRow
  <2> QED
    BY <1>1, <2>1, <2>2, <2>3, <2>4, StatusWriters
<1>2. ASSUME NEW q \in Requests, req'[q].seen \in PastStorage
      PROVE  HasRow(req[q].batch)'
  <2>1. CASE req'[q].batch = req[q].batch /\ req'[q].seen = req[q].seen
    <3>1. HasRow(req[q].batch)
      BY <1>2, <2>1 DEF SeenStored
    <3>2. req[q].batch \in Batches
      BY <1>2, <2>1 DEF SeenProcessed, PastProcessing, TypeInv, TypeOK
    <3> QED
      BY <2>1, <3>1, <3>2, RowsStay DEF HasRow
  <2>2. CASE req'[q] = Idle
    BY <1>2, <1>none, <2>2 DEF Idle
  <2>3. ASSUME NEW b \in Batches, req'[q].batch = b, req'[q].seen = status[b]
        PROVE  HasRow(req[q].batch)'
    <3>1. HasRow(b)
      BY <1>2, <2>3 DEF StorageBacked
    <3> QED
      BY <2>3, <3>1, RowsStay DEF HasRow
  <2>4. CASE req'[q].seen = None
    BY <1>2, <1>none, <2>4
  <2> QED
    BY <2>1, <2>2, <2>3, <2>4, SlotWriters, ReadSlot
<1> QED
  BY <1>1, <1>2 DEF StorageBacked, SeenStored

\* A request goes on to append WAREHOUSE_STORED only from the commit of a store.
LEMMA AppendsStep ==
  ASSUME TypeInv, AppendsStored, [Next]_vars
  PROVE  AppendsStored'
<1> SUFFICES ASSUME NEW q \in Requests,
                    req'[q].stage = "append", req'[q].event = "WAREHOUSE_STORED"
             PROVE  HasRow(req[q].batch)'
  BY DEF AppendsStored
<1>1. CASE /\ req'[q].batch = req[q].batch /\ req'[q].event = req[q].event
           /\ req'[q].stage = req[q].stage
  <2>1. HasRow(req[q].batch) /\ req[q].batch \in Batches
    BY <1>1 DEF AppendsStored, TypeInv, SlotsOK, Asked
  <2> QED
    BY <1>1, <2>1, RowsStay DEF HasRow
<1>2. CASE req'[q].event = req[q].event
           /\ (StatusCommit(q) \/ ProcessKeepStatus(q) \/ ProcessCommit(q))
  BY <1>2 DEF StatusCommit, ProcessKeepStatus, ProcessCommit, TypeInv, SlotsOK, Asked
<1>3. CASE StoreCommit(q)
  BY <1>3, StoreLeavesRow
<1>4. CASE StoreMeasure(q)
  BY <1>4 DEF StoreMeasure, Goto, TypeInv, TypeOK, Slot
<1>5. CASE req'[q] = Idle
  BY <1>5 DEF Idle
<1> QED
  BY <1>1, <1>2, <1>3, <1>4, <1>5, SlotWriters, ReadSlot

\* A WAREHOUSE_STORED event is appended only by a slot whose row is committed.
LEMMA StoredEventStep ==
  ASSUME TypeInv, StoredEventBacked, AppendsStored, [Next]_vars
  PROVE  StoredEventBacked'
<1> SUFFICES ASSUME NEW b \in Batches, "WAREHOUSE_STORED" \in ledger'[b]
             PROVE  HasRow(b)'
  BY DEF StoredEventBacked
<1>1. CASE ledger' = ledger
  BY <1>1, RowsStay DEF StoredEventBacked
<1>2. ASSUME NEW r \in Requests, AppendEvent(r)
      PROVE  HasRow(b)
  BY <1>2 DEF AppendEvent, StoredEventBacked, AppendsStored, TypeInv, TypeOK
<1>3. (\E r \in Requests : AppendEvent(r)) \/ ledger' = ledger
  BY DEF Next, vars, Arrive, Continue, StatusRead, ProcessRead, StoreRead,
     RemoveRead, StatusCommit, ProcessKeepStatus, ProcessStart, ProcessCommit,
     StoreMeasure, StoreReadStatus, StoreCommit, RemoveCommit, Abort, AddWeight
<1> QED
  BY <1>1, <1>2, <1>3, RowsStay

-----------------------------------------------------------------------------
(* Weights: a stale total is a safe one, because totals only grow. *)

\* Every step keeps each row, and each store about to insert one, within the
\* weight of its batch.
LEMMA WeightStep ==
  ASSUME TypeInv, RowsOwned, RowWithinTotal, StoreWithinTotal, [Next]_vars
  PROVE  (RowsOwned /\ RowWithinTotal /\ StoreWithinTotal)'
<1>types. TypeOK' /\ SlotsOK'
  BY TypeStep DEF TypeInv
<1>grows. ASSUME NEW b \in Batches, NEW x \in Nat, x <= total[b]
          PROVE  x <= total'[b]
  <2>1. total[b] \in Nat /\ total'[b] \in Nat /\ total[b] <= total'[b]
    BY NothingTakenBack, <1>types DEF TypeInv, TypeOK
  <2> QED
    BY <1>grows, <2>1
<1>slot. ASSUME NEW q \in Requests
         PROVE  /\ req[q].kg \in Nat /\ req[q].seenTotal \in Nat
                /\ req[q].stage \in StoreStage => req[q].batch \in Batches
  BY DEF TypeInv, TypeOK, Slot, SlotsOK, Asked, StoreStage
<1>1. ASSUME NEW q \in Requests
      PROVE  /\ req'[q].stage = "storeTx" =>
                  req'[q].seenTotal <= total'[req'[q].batch]
             /\ req'[q].stage \in {"storeRead", "storeWrite"} =>
                  req'[q].kg <= total'[req'[q].batch]
  <2> DEFINE Within == /\ req'[q].stage = "storeTx" =>
                            req'[q].seenTotal <= total'[req'[q].batch]
                       /\ req'[q].stage \in {"storeRead", "storeWrite"} =>
                            req'[q].kg <= total'[req'[q].batch]
  <2>1. CASE /\ req'[q].batch = req[q].batch /\ req'[q].kg = req[q].kg
             /\ req'[q].seenTotal = req[q].seenTotal
             /\ req'[q].stage = req[q].stage
    BY <1>grows, <1>slot, <2>1 DEF StoreWithinTotal, StoreStage
  <2>2. CASE req'[q].stage \notin StoreStage
    BY <2>2 DEF StoreStage
  <2>3. CASE StoreMeasure(q)
    <3>1. /\ req'[q].batch = req[q].batch /\ req'[q].kg = req[q].kg
          /\ req'[q].stage = "storeRead" /\ total' = total
      BY <2>3 DEF StoreMeasure, Goto, TypeInv, TypeOK, Slot
    <3>2. req[q].seenTotal <= total[req[q].batch] /\ req[q].kg <= req[q].seenTotal
      BY <2>3 DEF StoreMeasure, EnoughCoffee, StoreWithinTotal
    <3>3. total[req[q].batch] \in Nat
      BY <1>slot, <2>3 DEF StoreMeasure, StoreStage, TypeInv, TypeOK
    <3> QED
      BY <1>slot, <3>1, <3>2, <3>3
  <2>4. ASSUME NEW b \in Batches, NEW w \in Warehouses, NEW k \in Weights,
               StoreRead(q, b, w, k)
        PROVE  Within
    <3>1. /\ req'[q].stage = "storeTx" /\ req'[q].batch = b
          /\ req'[q].seenTotal = total[b]
      BY <2>4, ReadSlot
    <3>2. total[b] \in Nat /\ total' = total
      BY <2>4 DEF StoreRead, TypeInv, TypeOK
    <3> QED
      BY <3>1, <3>2
  <2>5. CASE StoreReadStatus(q)
    BY <1>grows, <1>slot, <2>5, ReadSlot DEF StoreWithinTotal, StoreStage
  <2>6. CASE StatusCommit(q) \/ ProcessKeepStatus(q) \/ ProcessCommit(q) \/ StoreCommit(q)
    BY <2>2, <2>6 DEF StatusCommit, ProcessKeepStatus, ProcessCommit, StoreCommit,
       Goto, StoreStage, TypeInv, TypeOK, Slot
  <2>7. CASE req'[q] = Idle
    BY <2>2, <2>7 DEF Idle, StoreStage
  <2>8. CASE \/ ProcessStart(q)
             \/ \E b \in Batches, to \in Status : StatusRead(q, b, to)
             \/ \E b \in Batches : ProcessRead(q, b)
             \/ \E i \in RowIds : RemoveRead(q, i)
    BY <2>2, <2>8, ReadSlot DEF StoreStage
  <2> HIDE DEF Within
  <2>9. Within
    BY <2>1, <2>3, <2>4, <2>5, <2>6, <2>7, <2>8, SlotWriters DEF Within
  <2> QED
    BY <2>9 DEF Within
<1>2. ASSUME NEW i \in RowIds, inventory'[i] # NoRow
      PROVE  /\ inventory'[i].batch \in Batches
             /\ inventory'[i].kg <= total'[inventory'[i].batch]
  <2>1. CASE inventory'[i] = inventory[i]
    BY <1>2, <1>grows, <2>1 DEF RowsOwned, RowWithinTotal, TypeInv, TypeOK, Row
  <2>2. CASE inventory'[i] = [inventory[i] EXCEPT !.open = FALSE]
    <3>1. inventory[i] # NoRow
      BY <1>2, <2>2, ClosedRow DEF TypeInv
    <3>2. /\ inventory'[i].batch = inventory[i].batch
          /\ inventory'[i].kg = inventory[i].kg /\ inventory[i].kg \in Nat
      BY <2>2, ClosedRow DEF TypeInv, TypeOK, Row
    <3> QED
      BY <1>grows, <3>1, <3>2 DEF RowsOwned, RowWithinTotal
  <2>3. ASSUME NEW r \in Requests, StoreCommit(r),
               inventory'[i] = [batch |-> req[r].batch, wh |-> req[r].wh,
                                kg |-> req[r].kg, open |-> TRUE]
        PROVE  /\ inventory'[i].batch \in Batches
               /\ inventory'[i].kg <= total'[inventory'[i].batch]
    <3>1. req[r].stage = "storeWrite"
      BY <2>3 DEF StoreCommit
    <3> QED
      BY <1>grows, <1>slot, <2>3, <3>1 DEF StoreStage, StoreWithinTotal
  <2> QED
    BY <2>1, <2>2, <2>3, RowWriters
<1> QED
  BY <1>1, <1>2 DEF RowsOwned, RowWithinTotal, StoreWithinTotal

\* A row stays in its warehouse, open or closed.
LEMMA HousedStep ==
  ASSUME TypeInv, RowsHoused, [Next]_vars
  PROVE  RowsHoused'
<1> SUFFICES ASSUME NEW i \in RowIds, inventory'[i] # NoRow
             PROVE  inventory'[i].wh \in Warehouses
  BY DEF RowsHoused
<1>1. CASE inventory'[i] = inventory[i]
  BY <1>1 DEF RowsHoused
<1>2. CASE inventory'[i] = [inventory[i] EXCEPT !.open = FALSE]
  <2>1. inventory[i] # NoRow /\ inventory'[i].wh = inventory[i].wh
    BY <1>2, ClosedRow DEF TypeInv, TypeOK, Row
  <2> QED
    BY <2>1 DEF RowsHoused
<1>3. ASSUME NEW r \in Requests, StoreCommit(r),
             inventory'[i] = [batch |-> req[r].batch, wh |-> req[r].wh,
                              kg |-> req[r].kg, open |-> TRUE]
      PROVE  inventory'[i].wh \in Warehouses
  BY <1>3 DEF StoreCommit, TypeInv, SlotsOK, Asked, StoreStage
<1> QED
  BY <1>1, <1>2, <1>3, RowWriters

-----------------------------------------------------------------------------
(* One open row per batch. *)

\* No step gives a batch a second open row: the index refuses the insert.
LEMMA OneOpenRowStep ==
  ASSUME TypeInv, OneOpenRow, [Next]_vars
  PROVE  OneOpenRow'
<1> SUFFICES ASSUME NEW b \in Batches, NEW i \in RowIds, NEW j \in RowIds,
                    inventory'[i].batch = b, inventory'[i].open,
                    inventory'[j].batch = b, inventory'[j].open
             PROVE  i = j
  BY DEF OneOpenRow, OpenRows
<1>1. ASSUME NEW k \in RowIds, inventory'[k] = [inventory[k] EXCEPT !.open = FALSE]
      PROVE  ~inventory'[k].open
  BY <1>1 DEF TypeInv, TypeOK, Row
<1>2. CASE inventory'[i] = inventory[i] /\ inventory'[j] = inventory[j]
  BY <1>2 DEF OneOpenRow, OpenRows
<1>3. ASSUME NEW r \in Requests, StoreCommit(r),
             \/ inventory'[i] # inventory[i]
             \/ inventory'[j] # inventory[j]
      PROVE  i = j
  <2>1. PICK k \in RowIds : inventory' = [inventory EXCEPT ![k] =
          [batch |-> req[r].batch, wh |-> req[r].wh, kg |-> req[r].kg, open |-> TRUE]]
    BY <1>3 DEF StoreCommit
  <2>2. /\ inventory'[k].batch = req[r].batch
        /\ \A m \in RowIds \ {k} : inventory'[m] = inventory[m]
    BY <2>1 DEF TypeInv, TypeOK
  <2>3. b = req[r].batch
    BY <1>3, <2>2
  <2>4. \A m \in RowIds : ~(inventory[m].batch = b /\ inventory[m].open)
    BY <1>3, <2>3 DEF StoreCommit, UniqueOpenRow, OpenRows
  <2> QED
    BY <2>2, <2>4
<1> QED
  BY <1>1, <1>2, <1>3, RowWriters

-----------------------------------------------------------------------------
(* The warehouse lock. *)

\* Every step that takes or ends a store takes or frees its lock.
LEMMA LockStep ==
  ASSUME TypeInv, LockHeldByStore, [Next]_vars
  PROVE  LockHeldByStore'
<1> USE DEF TypeInv, TypeOK, Slot
<1> SUFFICES ASSUME NEW w \in Warehouses, NEW q \in Requests
             PROVE  whLock'[w] = q <=> /\ req'[q].stage \in {"storeRead", "storeWrite"}
                                       /\ req'[q].wh = w
  BY DEF LockHeldByStore
<1> DEFINE Goal == whLock'[w] = q <=> /\ req'[q].stage \in {"storeRead", "storeWrite"}
                                      /\ req'[q].wh = w
<1>old. /\ whLock[w] = q <=> req[q].stage \in {"storeRead", "storeWrite"} /\ req[q].wh = w
        /\ None \notin Requests
  BY CustodyAssumption DEF LockHeldByStore
<1>1. ASSUME NEW r \in Requests, Arrive(r)
      PROVE  Goal
  <2>1. req[r].stage = "idle" /\ whLock' = whLock
    BY <1>1 DEF Arrive, StatusRead, ProcessRead, StoreRead, RemoveRead
  <2>2. r # q => req'[q] = req[q]
    BY <1>1 DEF Arrive, StatusRead, ProcessRead, StoreRead, RemoveRead
  <2>3. req'[r].stage \in {"append", "statusWrite", "processTx", "storeTx", "removeWrite"}
    BY <1>1, ReadSlot DEF Arrive
  <2> QED
    BY <1>old, <2>1, <2>2, <2>3
<1>2. ASSUME NEW r \in Requests,
             \/ StatusCommit(r) \/ ProcessKeepStatus(r) \/ ProcessStart(r)
             \/ ProcessCommit(r) \/ StoreReadStatus(r)
      PROVE  Goal
  BY <1>old, <1>2 DEF StatusCommit, ProcessKeepStatus, ProcessStart, ProcessCommit,
     StoreReadStatus, Goto
<1>3. ASSUME NEW r \in Requests, RemoveCommit(r) \/ AppendEvent(r)
      PROVE  Goal
  BY <1>old, <1>3 DEF RemoveCommit, AppendEvent, Finish, Idle
<1>4. ASSUME NEW r \in Requests, StoreMeasure(r)
      PROVE  Goal
  BY <1>old, <1>4 DEF StoreMeasure, LockIsFree, Goto
<1>5. ASSUME NEW r \in Requests, StoreCommit(r)
      PROVE  Goal
  <2>1. whLock[req[r].wh] = r
    BY <1>5 DEF StoreCommit, LockHeldByStore, SlotsOK, Asked, StoreStage
  <2> QED
    BY <1>old, <1>5, <2>1 DEF StoreCommit, Goto
<1>6. ASSUME NEW r \in Requests, Abort(r)
      PROVE  Goal
  BY <1>old, <1>6 DEF Abort, Released, Finish, Idle
<1>7. ASSUME UNCHANGED <<whLock, req>>
      PROVE  Goal
  BY <1>old, <1>7
<1> HIDE DEF Goal
<1>8. Goal
  <2>1. CASE \E r \in Requests : Arrive(r) \/ Continue(r)
    <3>1. PICK r \in Requests : Arrive(r) \/ Continue(r)
      BY <2>1
    <3> QED
      BY <3>1, <1>1, <1>2, <1>3, <1>4, <1>5, <1>6 DEF Continue
  <2>2. CASE (\E b \in Batches, k \in Weights : AddWeight(b, k)) \/ UNCHANGED vars
    <3>1. UNCHANGED <<whLock, req>>
      BY <2>2 DEF AddWeight, vars
    <3> QED
      BY <3>1, <1>7
  <2> QED
    BY <2>1, <2>2 DEF Next
<1> QED
  BY <1>8 DEF Goal

-----------------------------------------------------------------------------
(* Room: what a store has measured stays free until it commits.            *)

\* A load is a number of kilograms.
LEMMA LoadNat ==
  ASSUME NEW inv \in [RowIds -> Row], NEW S \in SUBSET RowIds
  PROVE  /\ IsFiniteSet(S)
         /\ SumFunctionOnSet([i \in RowIds |-> inv[i].kg], S) \in Nat
<1> DEFINE f == [i \in RowIds |-> inv[i].kg]
<1>1. IsFiniteSet(S)
  BY CustodyAssumption, FS_Subset
<1>2. \A i \in S : f[i] \in Nat
  BY DEF Row
<1> HIDE DEF f
<1> QED
  BY <1>1, <1>2, SumNat DEF f

LEMMA LoadsNat ==
  ASSUME TypeOK, NEW w
  PROVE  Load(w) \in Nat
<1> DEFINE S == {i \in RowIds : inventory[i].wh = w /\ inventory[i].open}
<1>1. S \in SUBSET RowIds /\ inventory \in [RowIds -> Row]
  BY DEF TypeOK
<1> QED
  BY <1>1, LoadNat DEF Load

\* The rows that weigh on a warehouse, in the inventory inv.
Held(inv, w) == {i \in RowIds : inv[i].wh = w /\ inv[i].open}

\* A warehouse on which no row weighs that did not before carries no more.
LEMMA LoadLowered ==
  ASSUME TypeOK, TypeOK', NEW w,
         \A i \in Held(inventory', w) :
           i \in Held(inventory, w) /\ inventory'[i].kg = inventory[i].kg
  PROVE  Load(w)' <= Load(w)
<1> DEFINE S == Held(inventory, w)
           T == Held(inventory', w)
           f == [i \in RowIds |-> inventory[i].kg]
           g == [i \in RowIds |-> inventory'[i].kg]
<1>1. /\ S \in SUBSET RowIds /\ T \in SUBSET S
      /\ inventory \in [RowIds -> Row] /\ inventory' \in [RowIds -> Row]
  BY DEF Held, TypeOK
<1>2. \A i \in RowIds : f[i] \in Nat /\ g[i] \in Nat
  BY <1>1 DEF Row
<1>3. \A i \in T : g[i] = f[i]
  BY <1>1
<1>4. IsFiniteSet(S) /\ IsFiniteSet(T)
  BY <1>1, CustodyAssumption, FS_Subset
<1>5. Load(w) = SumFunctionOnSet(f, S) /\ Load(w)' = SumFunctionOnSet(g, T)
  BY DEF Load, Held
<1> HIDE DEF S, T, f, g
<1>6. SumFunctionOnSet(g, T) = SumFunctionOnSet(f, T)
  <2>1. \A i \in T : g[i] \in Int /\ f[i] = g[i]
    BY <1>1, <1>2, <1>3
  <2> QED
    BY <1>4, <2>1, SumSame
<1>7. SumFunctionOnSet(f, T) <= SumFunctionOnSet(f, S)
  <2>1. \A i \in S : f[i] \in Nat
    BY <1>1, <1>2
  <2> QED
    BY <1>1, <1>4, <2>1, SumPart
<1> QED
  BY <1>5, <1>6, <1>7

\* A store's row adds its weight to its warehouse, and to no other.
LEMMA LoadRaised ==
  ASSUME TypeOK, TypeOK', NEW r \in Requests, StoreCommit(r), NEW w
  PROVE  /\ w = req[r].wh => Load(w)' = Load(w) + req[r].kg
         /\ w # req[r].wh => Load(w)' <= Load(w)
<1>1. PICK i \in RowIds :
        /\ inventory[i] = NoRow
        /\ inventory' = [inventory EXCEPT ![i] =
             [batch |-> req[r].batch, wh |-> req[r].wh, kg |-> req[r].kg, open |-> TRUE]]
  BY DEF StoreCommit
<1>2. /\ inventory \in [RowIds -> Row] /\ inventory' \in [RowIds -> Row]
      /\ ~inventory[i].open /\ req[r].kg \in Nat
      /\ inventory'[i].wh = req[r].wh /\ inventory'[i].kg = req[r].kg
      /\ inventory'[i].open
      /\ \A j \in RowIds : j # i => inventory'[j] = inventory[j]
  BY <1>1 DEF TypeOK, NoRow, Slot
<1>3. CASE w # req[r].wh
  <2>1. \A j \in Held(inventory', w) :
          j \in Held(inventory, w) /\ inventory'[j].kg = inventory[j].kg
    BY <1>2, <1>3 DEF Held
  <2> QED
    BY <1>3, <2>1, LoadLowered
<1>4. CASE w = req[r].wh
  <2> DEFINE S == Held(inventory, w)
             f == [j \in RowIds |-> inventory[j].kg]
             g == [j \in RowIds |-> inventory'[j].kg]
  <2>1. /\ S \in SUBSET RowIds /\ i \notin S /\ S \cup {i} \in SUBSET RowIds
        /\ Held(inventory', w) = S \cup {i}
    BY <1>2, <1>4 DEF Held
  <2>2. \A j \in RowIds : f[j] \in Nat /\ g[j] \in Nat
    BY <1>2 DEF Row
  <2>3. g[i] = req[r].kg /\ \A j \in S : g[j] = f[j]
    BY <1>2, <2>1
  <2>4. IsFiniteSet(S)
    BY <2>1, CustodyAssumption, FS_Subset
  <2>5. /\ Load(w) = SumFunctionOnSet(f, S)
        /\ Load(w)' = SumFunctionOnSet(g, S \cup {i})
    BY <2>1 DEF Load, Held
  <2> HIDE DEF S, f, g
  <2>6. SumFunctionOnSet(g, S \cup {i}) = SumFunctionOnSet(g, S) + g[i]
    <3>1. \A j \in S \cup {i} : g[j] \in Int
      BY <2>1, <2>2
    <3> QED
      BY <2>1, <2>4, <3>1, SumAdd
  <2>7. SumFunctionOnSet(g, S) = SumFunctionOnSet(f, S)
    <3>1. \A j \in S : g[j] \in Int /\ f[j] = g[j]
      BY <2>1, <2>2, <2>3
    <3> QED
      BY <2>4, <3>1, SumSame
  <2> QED
    BY <1>4, <2>3, <2>5, <2>6, <2>7
<1> QED
  BY <1>3, <1>4

\* Only the holder of a warehouse's lock puts coffee into it, so the room it
\* measured is there when its row is inserted.
LEMMA RoomStep ==
  ASSUME TypeInv, LockHeldByStore, MeasuredFits, CapacityRespected, [Next]_vars
  PROVE  (MeasuredFits /\ CapacityRespected)'
<1>types. TypeOK /\ TypeOK' /\ TypeInv
  BY TypeStep DEF TypeInv
<1>cap. \A w \in Warehouses : Capacity[w] # None => Capacity[w] \in Nat
  BY CustodyAssumption
<1>nat. \A w \in Warehouses : Load(w) \in Nat /\ Load(w)' \in Nat
  <2>1. \A w \in Warehouses : Load(w) \in Nat
    BY <1>types, LoadsNat
  <2>2. ASSUME NEW w \in Warehouses PROVE Load(w)' \in Nat
    <3> DEFINE S == {i \in RowIds : inventory'[i].wh = w /\ inventory'[i].open}
    <3>1. S \in SUBSET RowIds /\ inventory' \in [RowIds -> Row]
      BY <1>types DEF TypeOK
    <3> QED
      BY <3>1, LoadNat DEF Load
  <2> QED
    BY <2>1, <2>2
<1>slot. ASSUME NEW q \in Requests
         PROVE  /\ req[q].kg \in Nat
                /\ req[q].stage \in StoreStage => req[q].wh \in Warehouses
  BY DEF TypeInv, TypeOK, Slot, SlotsOK, Asked
\* A slot between its measurement and its commit has just measured, or was
\* there before, and asked the same.
<1>held. ASSUME NEW q \in Requests, req'[q].stage \in {"storeRead", "storeWrite"}
         PROVE  /\ req'[q].wh = req[q].wh /\ req'[q].kg = req[q].kg
                /\ \/ req[q].stage \in {"storeRead", "storeWrite"} /\ ~StoreCommit(q)
                   \/ StoreMeasure(q)
  <2>1. CASE /\ req'[q].wh = req[q].wh /\ req'[q].kg = req[q].kg
             /\ req'[q].stage = req[q].stage
    <3>1. StoreCommit(q) => req'[q].stage = "append"
      BY DEF StoreCommit, Goto, TypeInv, TypeOK, Slot
    <3> QED
      BY <1>held, <2>1, <3>1
  <2>2. CASE StatusCommit(q) \/ ProcessKeepStatus(q) \/ ProcessCommit(q) \/ StoreCommit(q)
    BY <1>held, <2>2 DEF StatusCommit, ProcessKeepStatus, ProcessCommit, StoreCommit,
       Goto, TypeInv, TypeOK, Slot
  <2>3. CASE StoreMeasure(q)
    BY <2>3 DEF StoreMeasure, Goto, TypeInv, TypeOK, Slot
  <2>4. CASE req'[q] = Idle
    BY <1>held, <2>4 DEF Idle
  <2>5. CASE StoreReadStatus(q)
    <3>1. ~StoreCommit(q)
      BY <2>5 DEF StoreReadStatus, StoreCommit
    <3> QED
      BY <2>5, <3>1, ReadSlot
  <2>6. CASE \/ ProcessStart(q)
             \/ \E b \in Batches, to \in Status : StatusRead(q, b, to)
             \/ \E b \in Batches : ProcessRead(q, b)
             \/ \E b \in Batches, w \in Warehouses, k \in Weights : StoreRead(q, b, w, k)
             \/ \E i \in RowIds : RemoveRead(q, i)
    BY <1>held, <2>6, ReadSlot
  <2> QED
    BY <2>1, <2>2, <2>3, <2>4, <2>5, <2>6, SlotWriters
<1>1. CASE \E r \in Requests : StoreCommit(r)
  <2>1. PICK r \in Requests : StoreCommit(r)
    BY <1>1
  <2>2. /\ req[r].stage = "storeWrite" /\ req[r].wh \in Warehouses
        /\ whLock[req[r].wh] = r
        /\ \A q \in Requests : q # r => req'[q] = req[q]
        /\ req'[r].stage = "append"
    BY <2>1 DEF StoreCommit, Goto, LockHeldByStore, TypeInv, TypeOK, Slot, SlotsOK,
       Asked, StoreStage
  <2>3. \A w \in Warehouses : /\ w = req[r].wh => Load(w)' = Load(w) + req[r].kg
                              /\ w # req[r].wh => Load(w)' <= Load(w)
    BY <1>types, <2>1, LoadRaised
  <2>4. CapacityRespected'
    BY <1>cap, <1>nat, <1>slot, <2>2, <2>3 DEF CapacityRespected, MeasuredFits
  <2>5. ASSUME NEW q \in Requests, req'[q].stage \in {"storeRead", "storeWrite"},
               Capacity[req'[q].wh] # None
        PROVE  Load(req[q].wh)' + req[q].kg <= Capacity[req[q].wh]
    <3>1. /\ q # r /\ req[q].wh \in Warehouses /\ req[q].kg \in Nat
          /\ req[q].stage \in {"storeRead", "storeWrite"} /\ req'[q].wh = req[q].wh
      BY <1>slot, <2>2, <2>5 DEF StoreStage
    <3>2. req[q].wh # req[r].wh
      BY <2>2, <3>1 DEF LockHeldByStore
    <3>3. Load(req[q].wh) + req[q].kg <= Capacity[req[q].wh]
      BY <2>5, <3>1 DEF MeasuredFits
    <3> QED
      BY <1>cap, <1>nat, <2>3, <2>5, <3>1, <3>2, <3>3
  <2>6. MeasuredFits'
    BY <1>held, <2>5 DEF MeasuredFits
  <2> QED
    BY <2>4, <2>6
<1>2. CASE ~\E r \in Requests : StoreCommit(r)
  <2>1. ASSUME NEW w \in Warehouses PROVE Load(w)' <= Load(w)
    <3>1. \A i \in Held(inventory', w) :
            i \in Held(inventory, w) /\ inventory'[i].kg = inventory[i].kg
      BY <1>2, <1>types, RowWriters, ClosedRow DEF Held
    <3> QED
      BY <1>types, <3>1, LoadLowered
  <2>2. CapacityRespected'
    BY <1>cap, <1>nat, <2>1 DEF CapacityRespected
  <2>3. ASSUME NEW q \in Requests, req'[q].stage \in {"storeRead", "storeWrite"},
               Capacity[req'[q].wh] # None
        PROVE  Load(req[q].wh)' + req[q].kg <= Capacity[req[q].wh]
    <3>1. /\ req[q].wh \in Warehouses /\ req[q].kg \in Nat
          /\ Capacity[req[q].wh] # None
      BY <1>held, <1>slot, <2>3 DEF StoreStage, StoreMeasure
    <3>2. Load(req[q].wh) + req[q].kg <= Capacity[req[q].wh]
      <4>1. CASE req[q].stage \in {"storeRead", "storeWrite"}
        BY <3>1, <4>1 DEF MeasuredFits
      <4>2. CASE StoreMeasure(q)
        <5>1. req[q].kg <= Capacity[req[q].wh] - Load(req[q].wh)
          BY <3>1, <4>2 DEF StoreMeasure, Fits
        <5> QED
          BY <1>cap, <1>nat, <3>1, <5>1
      <4> QED
        BY <1>held, <2>3, <4>1, <4>2
    <3>3. Load(req[q].wh)' <= Load(req[q].wh)
      BY <1>held, <2>1, <2>3, <3>1
    <3> QED
      BY <1>cap, <1>nat, <1>held, <2>3, <3>1, <3>2, <3>3
  <2>4. MeasuredFits'
    BY <1>held, <2>3 DEF MeasuredFits
  <2> QED
    BY <2>2, <2>4
<1> QED
  BY <1>1, <1>2

-----------------------------------------------------------------------------
(* The theorems, for every number of overlapping requests. *)

\* The initial state satisfies Inv.
LEMMA InvInit == Init => Inv
<1> SUFFICES ASSUME Init PROVE Inv
  OBVIOUS
<1>none. None \notin Status \cup Requests
  BY CustodyAssumption
<1>1. TypeInv
  BY TypeInit
<1>2. OneOpenRow /\ RowsOwned /\ RowsHoused /\ RowWithinTotal
  BY DEF Init, OneOpenRow, OpenRows, RowsOwned, RowsHoused, RowWithinTotal, NoRow
<1>3. StoreWithinTotal /\ AppendsStored
  BY DEF Init, StoreWithinTotal, AppendsStored, Idle
<1>4. ProcessingBacked /\ StorageBacked /\ StoredEventBacked
  BY DEF Init, ProcessingBacked, StorageBacked, StoredEventBacked,
     PastProcessing, PastStorage
<1>5. SeenProcessed /\ SeenStored
  BY <1>none
     DEF Init, SeenProcessed, SeenStored, PastProcessing, PastStorage, Idle, Status
<1>6. LockHeldByStore
  BY <1>none DEF Init, LockHeldByStore, Idle
<1>7. MeasuredFits /\ CapacityRespected
  <2>1. ASSUME NEW w PROVE Load(w) = 0
    <3>1. {i \in RowIds : inventory[i].wh = w /\ inventory[i].open} = {}
      BY DEF Init, NoRow
    <3> QED
      BY <3>1, SumEmpty DEF Load
  <2> QED
    BY <2>1, CustodyAssumption DEF Init, Idle, MeasuredFits, CapacityRespected
<1> QED
  BY <1>1, <1>2, <1>3, <1>4, <1>5, <1>6, <1>7 DEF Inv

\* Inv is inductive.
LEMMA InvStep == Inv /\ [Next]_vars => Inv'
<1> SUFFICES ASSUME Inv, [Next]_vars PROVE Inv'
  OBVIOUS
<1> USE DEF Inv
<1>1. TypeInv'
  BY TypeStep
<1>2. OneOpenRow'
  BY OneOpenRowStep
<1>3. (RowsOwned /\ RowsHoused /\ RowWithinTotal /\ StoreWithinTotal)'
  BY WeightStep, HousedStep
<1>4. (ProcessingBacked /\ SeenProcessed)'
  BY ProcessedStep
<1>5. (StorageBacked /\ SeenStored)'
  BY StoredStep
<1>6. (StoredEventBacked /\ AppendsStored)'
  BY StoredEventStep, AppendsStep
<1>7. LockHeldByStore'
  BY LockStep
<1>8. (MeasuredFits /\ CapacityRespected)'
  BY RoomStep
<1> QED
  BY <1>1, <1>2, <1>3, <1>4, <1>5, <1>6, <1>7, <1>8

\* Inv holds in every reachable state.
THEOREM Invariance == Spec => []Inv
BY InvInit, InvStep, PTL DEF Spec

\* A batch is never in two warehouses: whatever the stores saw when they
\* looked, the partial unique index keeps one open row per batch.
THEOREM OneOpenRowSafe == Spec => []OneOpenRow
BY Invariance, PTL DEF Inv

\* A stored row never records more coffee than its batch holds, although the
\* store compares with a total read before its transaction: totals only grow.
THEOREM WeightSafe == Spec => []RowWithinTotal
BY Invariance, PTL DEF Inv

\* No batch gets past processing without a processing record.
THEOREM ProcessingSafe == Spec => []ProcessingBacked
BY Invariance, PTL DEF Inv

\* No batch is stored, or leaves storage in trade, without an inventory row.
THEOREM StorageSafe == Spec => []StorageBacked
BY Invariance, PTL DEF Inv

\* The ledger never tells of a store whose transaction did not commit.
THEOREM StoredEventSafe == Spec => []StoredEventBacked
BY Invariance, PTL DEF Inv

\* The lock of a warehouse is held exactly while a store is between its
\* measurement and its commit.
THEOREM LockSafe == Spec => []LockHeldByStore
BY Invariance, PTL DEF Inv

\* No warehouse ever holds more than its capacity: whoever puts coffee into it
\* holds its lock from the measurement to the commit, and everyone else can
\* only take coffee out.
THEOREM CapacitySafe == Spec => []CapacityRespected
BY Invariance, PTL DEF Inv

\* A batch enters IN_STORAGE only together with an open inventory row.
THEOREM EntersSafe == Spec => EntersWithRow
<1> DEFINE Enters == \A b \in Batches :
             status[b] # "IN_STORAGE" /\ status'[b] = "IN_STORAGE"
               => OpenRows(b)' # {}
<1>1. Inv /\ [Next]_vars => [Enters]_vars
  <2> SUFFICES ASSUME Inv, [Next]_vars, NEW b \in Batches,
                      status[b] # "IN_STORAGE", status'[b] = "IN_STORAGE"
               PROVE  OpenRows(b)' # {}
    OBVIOUS
  <2> USE DEF Inv, TypeInv, TypeOK
  <2>1. ASSUME NEW r \in Requests, StatusCommit(r)
        PROVE  FALSE
    BY <2>1 DEF StatusCommit, WriteTransition, SlotsOK, Allowed, DirectTargets
  <2>2. ASSUME NEW r \in Requests, ProcessCommit(r)
        PROVE  FALSE
    BY <2>2 DEF ProcessCommit, WriteTransition
  <2>3. ASSUME NEW r \in Requests, StoreCommit(r)
        PROVE  OpenRows(b)' # {}
    <3>1. b = req[r].batch /\ (req[r].batch)' = req[r].batch
      BY <2>3 DEF StoreCommit, Goto, Slot
    <3> QED
      BY <2>3, <3>1, StoreLeavesRow DEF OpenRows
  <2> QED
    BY <2>1, <2>2, <2>3, StatusWriters
<1> QED
  BY <1>1, Invariance, PTL DEF Spec, EntersWithRow

-----------------------------------------------------------------------------
(* What holds while requests do not overlap. *)

Serial == \A r, s \in Requests : r = s

\* At most one request is in flight.
Alone ==
  \A r, p \in Requests :
    req[r].stage # "idle" /\ req[p].stage # "idle" => r = p

\* The status a request has read is still the batch's when it writes.
Fresh ==
  \A r \in Requests :
    req[r].stage \in {"statusWrite", "processWrite", "storeWrite"} =>
      req[r].seen = status[req[r].batch]

\* While one request runs nobody else writes a status, so what it has read is
\* what it overwrites.
LEMMA FreshStep ==
  ASSUME Alone, TypeInv, Fresh, [Next]_vars
  PROVE  Fresh'
<1> SUFFICES ASSUME NEW q \in Requests,
                    req'[q].stage \in {"statusWrite", "processWrite", "storeWrite"}
             PROVE  req'[q].seen = status'[req'[q].batch]
  BY DEF Fresh
<1>1. CASE status' = status
  <2>1. CASE req'[q].batch = req[q].batch /\ req'[q].seen = req[q].seen
             /\ req'[q].stage = req[q].stage
    BY <1>1, <2>1 DEF Fresh
  <2>2. CASE \/ StatusCommit(q) \/ ProcessKeepStatus(q) \/ ProcessCommit(q)
             \/ StoreMeasure(q) \/ StoreCommit(q)
    BY <2>2 DEF StatusCommit, ProcessKeepStatus, ProcessCommit, StoreMeasure,
       StoreCommit, Goto, TypeInv, TypeOK, Slot
  <2>3. CASE req'[q] = Idle
    BY <2>3 DEF Idle
  <2> QED
    BY <1>1, <2>1, <2>2, <2>3, SlotWriters, ReadSlot
<1>2. ASSUME NEW r \in Requests, StatusCommit(r) \/ ProcessCommit(r) \/ StoreCommit(r)
      PROVE  FALSE
  <2>1. r # q => req'[q] = req[q]
    BY <1>2 DEF StatusCommit, ProcessCommit, StoreCommit, Goto, TypeInv, TypeOK
  <2>2. req[r].stage # "idle"
    BY <1>2 DEF StatusCommit, ProcessCommit, StoreCommit
  <2>3. r = q
    BY <2>1, <2>2 DEF Alone
  <2> QED
    BY <1>2, <2>3 DEF StatusCommit, ProcessCommit, StoreCommit, Goto, TypeInv, TypeOK, Slot
<1> QED
  BY <1>1, <1>2, StatusWriters

\* Lifecycle speaks of the same statuses and transitions.
LEMMA SameVocabulary ==
  L!Status = Status /\ L!AllowedTransitions = AllowedTransitions
BY DEF L!Status, Status, L!AllowedTransitions, AllowedTransitions

\* A status written by a request that finds it as it has read it has moved by
\* one legal transition.
LEMMA LegalMoves ==
  ASSUME TypeInv, Fresh, [Next]_vars
  PROVE  [L!Next]_status
<1> SUFFICES ASSUME status' # status PROVE L!Next
  OBVIOUS
<1> USE DEF TypeInv, TypeOK, SlotsOK, Asked, Allowed, Fresh
<1> DEFINE Lawful(b, s) == /\ b \in Batches /\ s \in AllowedTransitions[status[b]]
                           /\ status' = [status EXCEPT ![b] = s]
<1>1. ASSUME NEW b, NEW s, Lawful(b, s) PROVE L!Next
  <2>1. s \in Status
    BY <1>1 DEF AllowedTransitions, Status
  <2> QED
    BY <1>1, <2>1, SameVocabulary DEF L!Next, L!Move
<1>2. ASSUME NEW r \in Requests, StatusCommit(r)
      PROVE  Lawful(req[r].batch, req[r].target)
  BY <1>2 DEF StatusCommit, WriteTransition
<1>3. ASSUME NEW r \in Requests, ProcessCommit(r)
      PROVE  Lawful(req[r].batch, "IN_PROCESSING")
  <2>1. req[r].seen = "REGISTERED"
    BY <1>3 DEF ProcessCommit, WriteTransition
  <2> QED
    BY <1>3, <2>1 DEF ProcessCommit, WriteTransition, AllowedTransitions, Status
<1>4. ASSUME NEW r \in Requests, StoreCommit(r)
      PROVE  Lawful(req[r].batch, "IN_STORAGE")
  <2>1. /\ req[r].seen \in {"PROCESSED", "IN_TRANSIT"}
        /\ status' = [status EXCEPT ![req[r].batch] = "IN_STORAGE"]
    BY <1>4 DEF StoreCommit
  <2> QED
    BY <1>4, <2>1 DEF StoreCommit, AllowedTransitions, Status
<1> QED
  BY <1>1, <1>2, <1>3, <1>4, StatusWriters

\* One request at a time, every change of status is a legal transition: the
\* table is enforced by the code, and lost only to overlapping requests.
THEOREM SerialLifecycle ==
  ASSUME Serial
  PROVE  Spec => LegalTransitions
<1>1. Init => L!Init /\ Fresh
  BY DEF Init, L!Init, Fresh, Idle
<1>2. TypeInv /\ Fresh /\ [Next]_vars => Fresh'
  BY FreshStep DEF Serial, Alone
<1>3. TypeInv /\ Fresh /\ [Next]_vars => [L!Next]_status
  BY LegalMoves
<1> QED
  BY <1>1, <1>2, <1>3, TypeInit, TypeStep, PTL DEF Spec, LegalTransitions, L!Spec

\* A request that writes over the status it has read closes the rows of a batch
\* that leaves storage.
LEMMA StockStep ==
  ASSUME TypeInv, Fresh, OpenRowInStorage, [Next]_vars
  PROVE  OpenRowInStorage'
<1> SUFFICES ASSUME NEW b \in Batches, NEW i \in RowIds,
                    inventory'[i].batch = b, inventory'[i].open
             PROVE  status'[b] = "IN_STORAGE"
  BY DEF OpenRowInStorage, OpenRows
<1> USE DEF TypeInv, TypeOK, SlotsOK, Asked, Allowed
<1>1. ASSUME NEW r \in Requests, StoreCommit(r), req[r].batch = b
      PROVE  status'[b] = "IN_STORAGE"
  BY <1>1 DEF StoreCommit, Fresh
<1>2. CASE inventory'[i] = inventory[i]
  <2>1. status[b] = "IN_STORAGE"
    BY <1>2 DEF OpenRowInStorage, OpenRows
  <2>2. ASSUME NEW r \in Requests, StatusCommit(r), status'[b] # status[b]
        PROVE  FALSE
    <3>1. /\ req[r].batch = b /\ req[r].seen = "IN_STORAGE"
          /\ req[r].target \in AllowedTransitions["IN_STORAGE"]
      BY <2>1, <2>2 DEF StatusCommit, WriteTransition, Fresh
    <3>2. req[r].target \in LeavesStorage /\ req[r].target # "IN_STORAGE"
      BY <3>1 DEF AllowedTransitions, LeavesStorage, Status
    <3>3. inventory' = CloseRows(b)
      BY <2>2, <3>1, <3>2 DEF StatusCommit, WriteTransition
    <3> QED
      BY <1>2, <3>3, CloseRowsKeeps
  <2>3. ASSUME NEW r \in Requests, ProcessCommit(r), status'[b] # status[b]
        PROVE  FALSE
    BY <2>1, <2>3 DEF ProcessCommit, WriteTransition, Fresh
  <2>4. ASSUME NEW r \in Requests, StoreCommit(r), status'[b] # status[b]
        PROVE  FALSE
    BY <2>1, <2>4 DEF StoreCommit
  <2> QED
    BY <2>1, <2>2, <2>3, <2>4, StatusWriters
<1>3. CASE inventory'[i] = [inventory[i] EXCEPT !.open = FALSE]
  BY <1>3, ClosedRow
<1>4. ASSUME NEW r \in Requests, StoreCommit(r),
             inventory'[i] = [batch |-> req[r].batch, wh |-> req[r].wh,
                              kg |-> req[r].kg, open |-> TRUE]
      PROVE  status'[b] = "IN_STORAGE"
  BY <1>1, <1>4
<1> QED
  BY <1>2, <1>3, <1>4, RowWriters

\* One request at a time, the inventory counts no coffee that has left: the
\* rows are closed in the transaction that takes the batch out of storage.
THEOREM SerialStock ==
  ASSUME Serial
  PROVE  Spec => []OpenRowInStorage
<1>1. Init => Fresh /\ OpenRowInStorage
  BY DEF Init, Fresh, Idle, OpenRowInStorage, OpenRows, NoRow
<1>2. TypeInv /\ Fresh /\ OpenRowInStorage /\ [Next]_vars
        => (Fresh /\ OpenRowInStorage)'
  BY FreshStep, StockStep DEF Serial, Alone
<1> QED
  BY <1>1, <1>2, TypeInit, TypeStep, PTL DEF Spec

(***************************************************************************)
(* Sales.                                                                  *)
(***************************************************************************)
Gone == {"SOLD", "EXPORTED"}

\* The batches that have a confirmed transfer.
SoldOff == {b \in Batches : ConfirmedOf(b) # {}}

\* A request of Custody that has read SOLD or EXPORTED read it of a batch with
\* a confirmed transfer.
SeenSold ==
  \A r \in Requests : req[r].seen \in Gone => req[r].batch \in SoldOff

\* What the slot q of a sale may rely on.
SaleOK(q) ==
  /\ q.stage \in {"lotWrite", "sellCheck", "sellWrite", "gather"} => q.lot \in Lots
  /\ \A t \in q.todo \cup q.locked : transfer[t].batch \in Batches
  /\ q.stage \in {"confirmLock", "confirmWrite"} =>
       q.at \in Transfers /\ transfer[q.at].batch \in Batches
  /\ q.stage = "confirmWrite" /\ q.seen = "SOLD" =>
       \/ transfer[q.at].batch \in q.sold
       \/ transfer[q.at].batch \in SoldOff
  /\ \A b \in q.sold : \E t \in q.locked : transfer[t].batch = b
  /\ q.stage = "confirmWrite" => q.at \in q.locked
  /\ \A t \in q.locked : \/ q.stage = "confirmWrite" /\ t = q.at
                         \/ transfer[t].batch \in q.sold
                         \/ transfer[t].batch \in SoldOff
  /\ q.stage = "append" =>
       \A t \in q.todo : transfer[t].status = "CONFIRMED"

SalesOK == \A s \in Sellers : SaleOK(sale[s])

SalesTypes ==
  /\ transfer \in [Transfers -> Transfer]
  /\ lot \in [Lots -> {None, "OPEN", "SOLD"}]
  /\ handovers \in [Transfers -> Nat]
  /\ sale \in [Sellers -> SaleSlot]

SalesInv == /\ TypeInv /\ SalesTypes /\ SalesOK
            /\ SoldBacked /\ SeenSold /\ HandoverBacked

\* A step adds transfers and confirms them; it undoes nothing.
Kept ==
  \A t \in Transfers :
    /\ transfer[t].batch \in Batches => transfer'[t].batch = transfer[t].batch
    /\ transfer[t].status = "CONFIRMED" => transfer'[t].status = "CONFIRMED"

LEMMA SalesInvInit == SalesInit => SalesInv
<1> SUFFICES ASSUME SalesInit PROVE SalesInv
  OBVIOUS
<1>1. Init
  BY DEF SalesInit
<1>2. TypeInv
  BY <1>1, TypeInit
<1>3. NoTransfer \in Transfer /\ NoSale \in SaleSlot
  BY DEF NoTransfer, Transfer, NoSale, SaleSlot, SaleStage
<1>4. SalesTypes
  BY <1>3 DEF SalesInit, SalesTypes
<1>5. SalesOK
  BY DEF SalesInit, SalesOK, SaleOK, NoSale
<1>6. SoldBacked /\ SeenSold /\ HandoverBacked
  BY <1>1, CustodyAssumption
  DEF SalesInit, Init, Idle, Gone, SoldBacked, SeenSold, HandoverBacked, Status
<1> QED
  BY <1>2, <1>4, <1>5, <1>6 DEF SalesInv

-----------------------------------------------------------------------------
(* What a step that keeps the transfers keeps with them. *)

\* A batch that has a confirmed transfer goes on having one.
LEMMA ConfirmedKept ==
  ASSUME Kept
  PROVE  SoldOff \subseteq SoldOff'
<1> SUFFICES ASSUME NEW b \in SoldOff PROVE b \in SoldOff'
  OBVIOUS
<1>1. PICK t \in Transfers : transfer[t].batch = b /\ transfer[t].status = "CONFIRMED"
  BY DEF ConfirmedOf, SoldOff
<1>2. transfer'[t].batch = b /\ transfer'[t].status = "CONFIRMED"
  BY <1>1 DEF Kept, SoldOff
<1> QED
  BY <1>2 DEF ConfirmedOf, SoldOff

LEMMA SaleOKKept ==
  ASSUME Kept, NEW q \in SaleSlot, SaleOK(q)
  PROVE  SaleOK(q)'
<1>1. q.todo \subseteq Transfers /\ q.locked \subseteq Transfers
  BY DEF SaleSlot
<1>2. \A t \in q.todo \cup q.locked :
        /\ transfer[t].batch \in Batches
        /\ transfer'[t].batch = transfer[t].batch
  BY <1>1 DEF SaleOK, Kept
<1>3. q.stage \in {"confirmLock", "confirmWrite"} =>
        /\ q.at \in Transfers /\ transfer[q.at].batch \in Batches
        /\ transfer'[q.at].batch = transfer[q.at].batch
  BY DEF SaleOK, Kept
<1>4. q.stage = "append" => \A t \in q.todo : transfer'[t].status = "CONFIRMED"
  BY <1>1 DEF SaleOK, Kept
<1>5. SoldOff \subseteq SoldOff'
  BY ConfirmedKept
<1> QED
  BY <1>2, <1>3, <1>4, <1>5 DEF SaleOK

\* A step writes the slot of one sale.
LEMMA OneSale ==
  ASSUME SalesInv, Kept, NEW s \in Sellers, NEW q \in SaleSlot,
         sale' = [sale EXCEPT ![s] = q], SaleOK(q)'
  PROVE  sale' \in [Sellers -> SaleSlot] /\ SalesOK'
<1>1. sale' \in [Sellers -> SaleSlot]
  BY DEF SalesInv, SalesTypes
<1>2. ASSUME NEW z \in Sellers PROVE SaleOK(sale[z])'
  <2>1. PICK p \in SaleSlot : p = sale[z] /\ SaleOK(p)
    BY DEF SalesInv, SalesTypes, SalesOK
  <2>2. SaleOK(p)'
    BY <2>1, SaleOKKept
  <2>3. sale'[z] = q \/ sale'[z] = p
    BY <2>1 DEF SalesInv, SalesTypes
  <2> QED
    BY <2>2, <2>3 DEF SaleOK
<1> QED
  BY <1>1, <1>2 DEF SalesOK

\* Where no status and no request of Custody changes.
LEMMA BackingKept ==
  ASSUME SalesInv, Kept, status' = status, req' = req
  PROVE  SoldBacked' /\ SeenSold'
<1>1. SoldOff \subseteq SoldOff'
  BY ConfirmedKept
<1>2. SoldBacked'
  BY <1>1 DEF SalesInv, SoldBacked, SoldOff
<1> QED
  BY <1>1, <1>2 DEF SalesInv, SeenSold

\* The columns of Custody as they were.
LEMMA CustodySame ==
  ASSUME TypeInv, UNCHANGED vars
  PROVE  TypeInv' /\ status' = status /\ req' = req
BY DEF vars, TypeInv, TypeOK, SlotsOK, Asked, Allowed

\* A step that writes no status and no ledger, and one sale's slot.
LEMMA SlotStepKeeps ==
  ASSUME SalesInv, Kept, NEW s \in Sellers, NEW q \in SaleSlot,
         sale' = [sale EXCEPT ![s] = q], SaleOK(q)',
         UNCHANGED <<vars, handovers>>,
         transfer' \in [Transfers -> Transfer],
         lot' \in [Lots -> {None, "OPEN", "SOLD"}]
  PROVE  SalesInv'
<1>1. TypeInv' /\ status' = status /\ req' = req
  BY CustodySame DEF SalesInv
<1>2. SalesTypes' /\ SalesOK'
  BY OneSale DEF SalesInv, SalesTypes
<1>3. SoldBacked' /\ SeenSold'
  BY <1>1, BackingKept
<1>4. HandoverBacked'
  BY DEF SalesInv, HandoverBacked, Kept
<1> QED
  BY <1>1, <1>2, <1>3, <1>4 DEF SalesInv

\* A step that only remembers what it read, or has written but not committed.
LEMMA ReadStepKeeps ==
  ASSUME SalesInv, NEW s \in Sellers, NEW q \in SaleSlot,
         sale' = [sale EXCEPT ![s] = q], SaleOK(q),
         UNCHANGED <<vars, transfer, lot, handovers>>
  PROVE  SalesInv'
<1>1. Kept
  BY DEF Kept
<1>2. SaleOK(q)'
  BY <1>1, SaleOKKept
<1> QED
  BY <1>1, <1>2, SlotStepKeeps DEF SalesInv, SalesTypes

\* A slot that holds no transfer relies on its lot alone.
LEMMA EmptySale ==
  ASSUME NEW q \in SaleSlot, q.todo = {}, q.locked = {}, q.sold = {},
         q.lot \in Lots,
         q.stage \notin {"confirmLock", "confirmWrite"}
  PROVE  SaleOK(q)
BY DEF SaleOK

-----------------------------------------------------------------------------
(* The steps before a commit. *)

LEMMA ArriveKeeps ==
  ASSUME SalesInv, NEW s \in Sellers, ArriveSale(s)
  PROVE  SalesInv'
<1>1. NoSale \in SaleSlot
  BY DEF NoSale, SaleSlot, SaleStage
<1>2. ASSUME NEW g \in Lots, NEW st \in {"lotWrite", "sellCheck", "gather"},
             sale' = [sale EXCEPT ![s] = [NoSale EXCEPT !.stage = st, !.lot = g]],
             UNCHANGED <<vars, transfer, lot, handovers>>
      PROVE  SalesInv'
  <2> DEFINE q == [NoSale EXCEPT !.stage = st, !.lot = g]
  <2>1. /\ q \in SaleSlot /\ q.todo = {} /\ q.locked = {} /\ q.sold = {}
        /\ q.lot \in Lots /\ q.stage \notin {"confirmLock", "confirmWrite"}
    BY DEF NoSale, SaleSlot, SaleStage
  <2> HIDE DEF q
  <2>2. SaleOK(q)
    BY <2>1, EmptySale
  <2>3. sale' = [sale EXCEPT ![s] = q]
    BY <1>2 DEF q
  <2> QED
    BY <1>2, <2>1, <2>2, <2>3, ReadStepKeeps
<1>3. ASSUME NEW t \in Transfers, ConfirmRead(s, t)
      PROVE  SalesInv'
  <2> DEFINE q == [NoSale EXCEPT !.stage = "confirm", !.todo = {t}]
  <2>1. /\ q \in SaleSlot /\ q.todo = {t} /\ q.locked = {} /\ q.sold = {}
        /\ q.stage = "confirm"
    BY DEF NoSale, SaleSlot, SaleStage
  <2>2. transfer[t].batch \in Batches
    BY <1>3 DEF ConfirmRead, SalesInv, SalesTypes, Transfer
  <2>3. /\ sale' = [sale EXCEPT ![s] = q]
        /\ UNCHANGED <<vars, transfer, lot, handovers>>
    BY <1>3 DEF ConfirmRead
  <2> HIDE DEF q
  <2>4. SaleOK(q)
    BY <2>1, <2>2 DEF SaleOK
  <2> QED
    BY <2>1, <2>3, <2>4, ReadStepKeeps
<1> QED
  BY <1>2, <1>3 DEF ArriveSale, CreateLotRead, SellRead, ConfirmLotRead

LEMMA GatherKeeps ==
  ASSUME SalesInv, NEW s \in Sellers, SellCheck(s) \/ Gather(s) \/ AbortSale(s)
  PROVE  SalesInv'
<1> DEFINE p == sale[s]
<1>1. p \in SaleSlot /\ SaleOK(p)
  BY DEF SalesInv, SalesTypes, SalesOK
<1>2. CASE SellCheck(s)
  <2> DEFINE q == [p EXCEPT !.stage = "sellWrite"]
  <2>1. q \in SaleSlot /\ q.stage = "sellWrite"
    BY <1>1 DEF SaleSlot, SaleStage
  <2>2. /\ q.todo = p.todo /\ q.locked = p.locked /\ q.sold = p.sold
        /\ p.stage = "sellCheck" /\ q.lot = p.lot
    BY <1>1, <1>2 DEF SaleSlot, SellCheck
  <2>3. /\ sale' = [sale EXCEPT ![s] = q]
        /\ UNCHANGED <<vars, transfer, lot, handovers>>
    BY <1>2 DEF SellCheck, SaleStep, SalesInv, SalesTypes
  <2> HIDE DEF p, q
  <2>4. SaleOK(q)
    BY <1>1, <2>1, <2>2 DEF SaleOK
  <2> QED
    BY <2>1, <2>3, <2>4, ReadStepKeeps
<1>3. CASE Gather(s)
  <2> DEFINE B == Members[p.lot]
             q == [p EXCEPT !.stage = "confirm", !.todo = PendingOf(B)]
  <2>1. /\ sale' = [sale EXCEPT ![s] = q] /\ p.stage = "gather"
        /\ UNCHANGED <<vars, transfer, lot, handovers>>
    BY <1>3 DEF Gather, SalesInv, SalesTypes
  <2>2. \A t \in PendingOf(B) : t \in Transfers /\ transfer[t].batch \in Batches
    <3>1. p.lot \in Lots
      BY <1>1, <1>3 DEF Gather, SaleOK
    <3> QED
      BY <3>1, SalesAssumption DEF PendingOf
  <2> HIDE DEF B
  <2>3. /\ q \in SaleSlot /\ q.stage = "confirm" /\ q.todo = PendingOf(B)
        /\ q.locked = p.locked /\ q.sold = p.sold
    BY <1>1, <2>2 DEF SaleSlot, SaleStage
  <2> HIDE DEF p, q
  <2>4. SaleOK(q)
    BY <1>1, <2>1, <2>2, <2>3 DEF SaleOK
  <2> QED
    BY <2>1, <2>3, <2>4, ReadStepKeeps
<1>4. CASE AbortSale(s)
  <2>1. NoSale \in SaleSlot /\ SaleOK(NoSale)
    BY DEF NoSale, SaleSlot, SaleStage, SaleOK
  <2> QED
    BY <1>4, <2>1, ReadStepKeeps DEF AbortSale, EndSale
<1> QED
  BY <1>2, <1>3, <1>4

LEMMA ConfirmKeeps ==
  ASSUME SalesInv, NEW s \in Sellers,
         \/ \E t \in Transfers : ConfirmTransfer(s, t)
         \/ ConfirmLock(s) \/ ConfirmWrite(s)
  PROVE  SalesInv'
<1> DEFINE p == sale[s]
<1>1. p \in SaleSlot /\ SaleOK(p)
  BY DEF SalesInv, SalesTypes, SalesOK
<1>2. ASSUME NEW t \in Transfers, ConfirmTransfer(s, t)
      PROVE  SalesInv'
  <2> DEFINE q == [p EXCEPT !.stage = "confirmLock", !.at = t]
  <2>1. /\ sale' = [sale EXCEPT ![s] = q] /\ p.stage = "confirm" /\ t \in p.todo
        /\ UNCHANGED <<vars, transfer, lot, handovers>>
    BY <1>2 DEF ConfirmTransfer, SalesInv, SalesTypes
  <2>2. /\ q \in SaleSlot /\ q.stage = "confirmLock" /\ q.at = t
        /\ q.todo = p.todo /\ q.locked = p.locked /\ q.sold = p.sold
    BY <1>1 DEF SaleSlot, SaleStage
  <2> HIDE DEF p, q
  <2>3. SaleOK(q)
    BY <1>1, <2>1, <2>2 DEF SaleOK
  <2> QED
    BY <2>1, <2>2, <2>3, ReadStepKeeps
<1>3. CASE ConfirmLock(s)
  <2> DEFINE b == transfer[p.at].batch
             seen == IF b \in p.sold THEN "SOLD" ELSE status[b]
             q == [p EXCEPT !.stage = "confirmWrite", !.seen = seen,
                            !.locked = p.locked \cup {p.at}]
  <2>1. /\ sale' = [sale EXCEPT ![s] = q] /\ p.stage = "confirmLock"
        /\ UNCHANGED <<vars, transfer, lot, handovers>>
    BY <1>3 DEF ConfirmLock, SalesInv, SalesTypes
  <2>2. p.at \in Transfers /\ b \in Batches
    BY <1>1, <2>1 DEF SaleOK
  <2>3. seen \in Status /\ (seen = "SOLD" => b \in p.sold \/ b \in SoldOff)
    <3>1. status[b] \in Status /\ (status[b] = "SOLD" => b \in SoldOff)
      BY <2>2 DEF SalesInv, TypeInv, TypeOK, SoldBacked, SoldOff
    <3> QED
      BY <3>1 DEF Status
  <2> HIDE DEF seen
  <2>4. /\ q \in SaleSlot /\ q.stage = "confirmWrite" /\ q.at = p.at
        /\ q.seen = seen /\ q.locked = p.locked \cup {p.at}
        /\ q.todo = p.todo /\ q.sold = p.sold
    BY <1>1, <2>2, <2>3 DEF SaleSlot, SaleStage
  <2> HIDE DEF p, q
  <2>5. SaleOK(q)
    BY <1>1, <2>1, <2>2, <2>3, <2>4 DEF SaleOK
  <2> QED
    BY <2>1, <2>4, <2>5, ReadStepKeeps
<1>4. CASE ConfirmWrite(s)
  <2> DEFINE b == transfer[p.at].batch
             moved == Moves(s)
             q == [p EXCEPT
                     !.stage = "confirm", !.at = None, !.seen = None,
                     !.todo = p.todo \ {p.at},
                     !.sold = IF moved THEN p.sold \cup {b} ELSE p.sold,
                     !.closed = IF moved THEN p.closed \cup OpenRows(b)
                                         ELSE p.closed]
  <2>1. /\ sale' = [sale EXCEPT ![s] = q] /\ p.stage = "confirmWrite"
        /\ UNCHANGED <<vars, transfer, lot, handovers>>
    BY <1>4 DEF ConfirmWrite, SalesInv, SalesTypes
  <2>2. p.at \in Transfers /\ b \in Batches /\ p.at \in p.locked
    BY <1>1, <2>1 DEF SaleOK
  <2>3. ~moved => b \in p.sold \/ b \in SoldOff
    BY <1>1, <2>1 DEF SaleOK, Moves
  <2>4. OpenRows(b) \subseteq RowIds
    BY DEF OpenRows
  <2> DEFINE sold == IF moved THEN p.sold \cup {b} ELSE p.sold
             closed == IF moved THEN p.closed \cup OpenRows(b) ELSE p.closed
  <2>5. sold \subseteq Batches /\ closed \subseteq RowIds
    BY <1>1, <2>2, <2>4 DEF SaleSlot
  <2>6. q = [p EXCEPT !.stage = "confirm", !.at = None, !.seen = None,
                      !.todo = p.todo \ {p.at}, !.sold = sold, !.closed = closed]
    OBVIOUS
  <2>7. p.sold \subseteq sold /\ (moved => b \in sold) /\ sold \subseteq p.sold \cup {b}
    OBVIOUS
  <2> HIDE DEF q, sold, closed, moved
  <2>8. /\ q \in SaleSlot /\ q.stage = "confirm" /\ q.todo = p.todo \ {p.at}
        /\ q.sold = sold /\ q.locked = p.locked
    BY <1>1, <2>5, <2>6 DEF SaleSlot, SaleStage
  <2> HIDE DEF p
  <2>9. SaleOK(q)
    BY <1>1, <2>1, <2>2, <2>3, <2>7, <2>8 DEF SaleOK
  <2> QED
    BY <2>1, <2>8, <2>9, ReadStepKeeps
<1> QED
  BY <1>2, <1>3, <1>4

-----------------------------------------------------------------------------
(* The commits. *)

\* New transfers take ids that no transfer had.
LEMMA UnusedKept ==
  ASSUME SalesInv, NEW new \in [Transfers -> Transfer], transfer' = new,
         \A t \in Transfers : t \notin Unused => new[t] = transfer[t]
  PROVE  Kept
<1>1. \A t \in Unused : transfer[t].batch = None /\ transfer[t].status = "PENDING"
  BY DEF Unused, NoTransfer
<1>2. None \notin Batches
  BY CustodyAssumption
<1> QED
  BY <1>1, <1>2 DEF Kept

LEMMA LotKeeps ==
  ASSUME SalesInv, NEW s \in Sellers, CreateLotCommit(s) \/ SellCommit(s)
  PROVE  SalesInv'
<1>1. NoSale \in SaleSlot /\ SaleOK(NoSale)'
  BY DEF NoSale, SaleSlot, SaleStage, SaleOK
<1>2. sale' = [sale EXCEPT ![s] = NoSale] /\ UNCHANGED <<vars, handovers>>
  BY DEF CreateLotCommit, SellCommit, EndSale
<1>3. CASE CreateLotCommit(s)
  <2>1. /\ transfer' = transfer /\ transfer' \in [Transfers -> Transfer]
        /\ lot' \in [Lots -> {None, "OPEN", "SOLD"}]
    BY <1>3 DEF CreateLotCommit, SalesInv, SalesTypes
  <2>2. Kept
    BY <2>1 DEF Kept
  <2> QED
    BY <1>1, <1>2, <2>1, <2>2, SlotStepKeeps
<1>4. CASE SellCommit(s)
  <2> DEFINE M == Members[sale[s].lot]
  <2>1. M \subseteq Batches
    <3>1. sale[s].lot \in Lots
      BY <1>4 DEF SellCommit, SalesInv, SalesOK, SaleOK
    <3> QED
      BY <3>1, SalesAssumption
  <2> HIDE DEF M
  <2>2. PICK id \in [M -> Unused] : transfer' = [t \in Transfers |->
          IF \E b \in M : id[b] = t
          THEN [batch |-> CHOOSE b \in M : id[b] = t, status |-> "PENDING"]
          ELSE transfer[t]]
    BY <1>4 DEF SellCommit, M
  <2>3. ASSUME NEW t \in Transfers
        PROVE  transfer'[t] \in Transfer /\ (t \notin Unused => transfer'[t] = transfer[t])
    <3>1. CASE \E b \in M : id[b] = t
      <4>1. (CHOOSE b \in M : id[b] = t) \in Batches /\ t \in Unused
        BY <2>1, <3>1
      <4> QED
        BY <2>2, <3>1, <4>1 DEF Transfer
    <3>2. CASE ~\E b \in M : id[b] = t
      BY <2>2, <3>2 DEF SalesInv, SalesTypes
    <3> QED
      BY <3>1, <3>2
  <2>4. transfer' \in [Transfers -> Transfer] /\ DOMAIN transfer' = Transfers
    BY <2>2, <2>3
  <2>5. Kept
    BY <2>3, <2>4, UnusedKept
  <2>6. lot' \in [Lots -> {None, "OPEN", "SOLD"}]
    BY <1>4 DEF SellCommit, SalesInv, SalesTypes
  <2> QED
    BY <1>1, <1>2, <2>4, <2>5, <2>6, SlotStepKeeps
<1> QED
  BY <1>3, <1>4

LEMMA InitiateKeeps ==
  ASSUME SalesInv, NEW b \in Batches, Initiate(b)
  PROVE  SalesInv'
<1>1. PICK t \in Unused : transfer' = [transfer EXCEPT ![t].batch = b]
  BY DEF Initiate
<1>2. /\ sale' = sale /\ lot' = lot /\ handovers' = handovers /\ UNCHANGED vars
      /\ t \in Transfers /\ transfer \in [Transfers -> Transfer]
  BY DEF Initiate, Unused, SalesInv, SalesTypes
<1>3. /\ transfer' \in [Transfers -> Transfer]
      /\ \A u \in Transfers : u \notin Unused => transfer'[u] = transfer[u]
  <2>1. [transfer[t] EXCEPT !.batch = b] \in Transfer
    BY <1>2 DEF Transfer
  <2> QED
    BY <1>1, <1>2, <2>1
<1>4. Kept
  BY <1>3, UnusedKept
<1>5. TypeInv' /\ status' = status /\ req' = req
  BY <1>2, CustodySame DEF SalesInv
<1>6. SalesTypes'
  BY <1>2, <1>3 DEF SalesInv, SalesTypes
<1>7. ASSUME NEW z \in Sellers PROVE SaleOK(sale[z])'
  <2>1. PICK p \in SaleSlot : p = sale[z] /\ SaleOK(p)
    BY DEF SalesInv, SalesTypes, SalesOK
  <2>2. SaleOK(p)'
    BY <1>4, <2>1, SaleOKKept
  <2> QED
    BY <1>2, <2>1, <2>2 DEF SaleOK
<1>8. SoldBacked' /\ SeenSold'
  BY <1>4, <1>5, BackingKept
<1>9. HandoverBacked'
  BY <1>2, <1>4 DEF SalesInv, HandoverBacked, Kept
<1> QED
  BY <1>5, <1>6, <1>7, <1>8, <1>9 DEF SalesInv, SalesOK

\* What becomes visible when a sale commits.
LEMMA CommitShows ==
  ASSUME SalesInv, NEW s \in Sellers, SaleCommit(s)
  PROVE  /\ Kept
         /\ transfer' \in [Transfers -> Transfer]
         /\ \A t \in sale[s].locked :
              t \in Transfers /\ transfer'[t].status = "CONFIRMED"
         /\ \A b \in sale[s].sold : b \in SoldOff'
<1> DEFINE p == sale[s]
<1>1. p \in SaleSlot /\ SaleOK(p)
  BY DEF SalesInv, SalesTypes, SalesOK
<1>2. /\ p.locked \subseteq Transfers /\ p.sold \subseteq Batches
      /\ transfer \in [Transfers -> Transfer]
      /\ transfer' = [t \in Transfers |->
           IF t \in p.locked THEN [transfer[t] EXCEPT !.status = "CONFIRMED"]
                             ELSE transfer[t]]
  BY <1>1 DEF SaleSlot, SalesInv, SalesTypes, SaleCommit, Finalized
<1> HIDE DEF p
<1>3. ASSUME NEW t \in Transfers
      PROVE  /\ transfer'[t] \in Transfer
             /\ transfer'[t].batch = transfer[t].batch
             /\ transfer[t].status = "CONFIRMED" => transfer'[t].status = "CONFIRMED"
             /\ t \in p.locked => transfer'[t].status = "CONFIRMED"
  BY <1>2 DEF Transfer
<1>4. Kept /\ transfer' \in [Transfers -> Transfer]
  BY <1>2, <1>3 DEF Kept
<1>5. ASSUME NEW b \in p.sold PROVE b \in SoldOff'
  <2>1. PICK t \in p.locked : transfer[t].batch = b
    BY <1>1 DEF SaleOK
  <2>2. t \in Transfers /\ transfer'[t].batch = b /\ transfer'[t].status = "CONFIRMED"
    BY <1>2, <1>3, <2>1
  <2> QED
    BY <1>2, <2>2 DEF SoldOff, ConfirmedOf
<1> QED
  BY <1>2, <1>3, <1>4, <1>5 DEF p

LEMMA CommitKeeps ==
  ASSUME SalesInv, NEW s \in Sellers, SaleCommit(s)
  PROVE  SalesInv'
<1> DEFINE p == sale[s]
<1>1. p \in SaleSlot /\ SaleOK(p)
  BY DEF SalesInv, SalesTypes, SalesOK
<1>2. /\ Kept /\ transfer' \in [Transfers -> Transfer]
      /\ \A t \in p.locked : t \in Transfers /\ transfer'[t].status = "CONFIRMED"
      /\ \A b \in p.sold : b \in SoldOff'
  BY CommitShows
<1>3. PICK q \in SaleSlot : /\ sale' = [sale EXCEPT ![s] = q]
                           /\ q.stage = "append" /\ q.todo = p.locked
                           /\ q.locked = {} /\ q.sold = {}
  <2> DEFINE n == [NoSale EXCEPT !.stage = "append", !.todo = p.locked]
  <2>1. /\ n \in SaleSlot /\ n.stage = "append" /\ n.todo = p.locked
        /\ n.locked = {} /\ n.sold = {}
    BY <1>1 DEF NoSale, SaleSlot, SaleStage
  <2>2. sale' = [sale EXCEPT ![s] = n]
    BY DEF SaleCommit
  <2> HIDE DEF n
  <2> QED
    BY <2>1, <2>2
<1>4. UNCHANGED <<total, processed, ledger, whLock, req, handovers>>
  BY DEF SaleCommit
<1>5. status' = [b \in Batches |-> IF b \in p.sold THEN "SOLD" ELSE status[b]]
  BY DEF SaleCommit
<1>6. inventory' \in [RowIds -> Row]
  <2>1. \A i \in RowIds : [inventory[i] EXCEPT !.open = FALSE] \in Row
    BY DEF SalesInv, TypeInv, TypeOK, Row
  <2> QED
    BY <2>1 DEF SaleCommit, SalesInv, TypeInv, TypeOK
<1>7. lot' \in [Lots -> {None, "OPEN", "SOLD"}]
  BY DEF SaleCommit, SalesInv, SalesTypes
<1>8. \A t \in p.locked : transfer'[t].batch \in Batches
  BY <1>1, <1>2 DEF SaleOK, Kept
<1> HIDE DEF p
<1>9. SaleOK(q)'
  BY <1>2, <1>3, <1>8 DEF SaleOK
<1>10. SalesTypes' /\ SalesOK'
  BY <1>2, <1>3, <1>4, <1>7, <1>9, OneSale DEF SalesInv, SalesTypes
<1>11. TypeInv'
  <2>1. status' \in [Batches -> Status]
    BY <1>5 DEF SalesInv, TypeInv, TypeOK, Status
  <2> QED
    BY <1>4, <1>6, <2>1 DEF SalesInv, TypeInv, TypeOK, SlotsOK, Asked, Allowed
<1>12. SoldOff \subseteq SoldOff'
  BY <1>2, ConfirmedKept
<1>13. SoldBacked'
  BY <1>2, <1>5, <1>12 DEF SalesInv, SoldBacked, SoldOff
<1>14. SeenSold'
  BY <1>4, <1>12 DEF SalesInv, SeenSold
<1>15. HandoverBacked'
  BY <1>2, <1>4 DEF SalesInv, HandoverBacked, Kept
<1> QED
  BY <1>10, <1>11, <1>13, <1>14, <1>15 DEF SalesInv

LEMMA AppendsKeep ==
  ASSUME SalesInv, NEW s \in Sellers,
         (\E t \in Transfers : AppendHandover(s, t)) \/ AppendSale(s)
  PROVE  SalesInv'
<1> DEFINE p == sale[s]
<1>1. p \in SaleSlot /\ SaleOK(p) /\ p.stage = "append"
  BY DEF SalesInv, SalesTypes, SalesOK, AppendHandover, AppendSale
<1>2. /\ UNCHANGED <<status, total, processed, inventory, whLock, req,
                     transfer, lot>>
      /\ \E e \in SUBSET Event : \E b : ledger' = [ledger EXCEPT ![b] = @ \cup e]
  <2>1. /\ {"OWNERSHIP_TRANSFERRED"} \in SUBSET Event
        /\ {"SALE_RECORDED"} \in SUBSET Event /\ {} \in SUBSET Event
    BY DEF Event
  <2>2. CASE \E t \in Transfers : AppendHandover(s, t)
    BY <2>1, <2>2 DEF AppendHandover
  <2>3. CASE AppendSale(s)
    <3> DEFINE b == transfer[sale[s].at].batch
    <3>1. PICK priced \in BOOLEAN :
            ledger' = [ledger EXCEPT ![b] =
                         IF priced THEN @ \cup {"SALE_RECORDED"} ELSE @]
      BY <2>3 DEF AppendSale
    <3> HIDE DEF b
    <3>2. ledger' = [ledger EXCEPT ![b] =
                       @ \cup (IF priced THEN {"SALE_RECORDED"} ELSE {})]
      BY <3>1
    <3> QED
      BY <2>1, <2>3, <3>2 DEF AppendSale
  <2> QED
    BY <2>2, <2>3
<1>3. TypeInv'
  <2>1. ledger' \in [Batches -> SUBSET Event]
    BY <1>2 DEF SalesInv, TypeInv, TypeOK
  <2> QED
    BY <1>2, <2>1 DEF SalesInv, TypeInv, TypeOK, SlotsOK, Asked, Allowed
<1>4. Kept
  BY <1>2 DEF Kept
<1>5. SoldBacked' /\ SeenSold'
  BY <1>2, <1>4, BackingKept
<1>6. ASSUME NEW t \in Transfers, AppendHandover(s, t)
      PROVE  handovers' \in [Transfers -> Nat] /\ HandoverBacked'
  <2>1. transfer[t].status = "CONFIRMED"
    BY <1>1, <1>6 DEF AppendHandover, SaleOK
  <2>2. /\ handovers' = [handovers EXCEPT ![t] = @ + 1]
        /\ handovers \in [Transfers -> Nat] /\ transfer' = transfer
    BY <1>6 DEF AppendHandover, SalesInv, SalesTypes
  <2>3. handovers' \in [Transfers -> Nat]
    BY <2>2
  <2>4. \A u \in Transfers : u # t => handovers'[u] = handovers[u]
    BY <2>2
  <2> QED
    BY <2>1, <2>2, <2>3, <2>4 DEF SalesInv, HandoverBacked
<1>7. handovers' \in [Transfers -> Nat] /\ HandoverBacked'
  <2>1. CASE AppendSale(s)
    BY <2>1, <1>4 DEF AppendSale, SalesInv, SalesTypes, HandoverBacked, Kept
  <2> QED
    BY <1>6, <2>1
<1>8. \E q \in SaleSlot : /\ sale' = [sale EXCEPT ![s] = q] /\ SaleOK(q)
  <2>1. ASSUME NEW t \in Transfers, AppendHandover(s, t)
        PROVE  \E q \in SaleSlot : /\ sale' = [sale EXCEPT ![s] = q] /\ SaleOK(q)
    <3> DEFINE q == [p EXCEPT !.at = t, !.todo = p.todo \ {t}]
    <3>1. sale' = [sale EXCEPT ![s] = q]
      BY <2>1 DEF AppendHandover, SalesInv, SalesTypes
    <3>2. /\ q \in SaleSlot /\ q.stage = "append" /\ q.todo = p.todo \ {t}
          /\ q.locked = p.locked /\ q.sold = p.sold
      BY <1>1 DEF SaleSlot
    <3> HIDE DEF p, q
    <3>3. SaleOK(q)
      BY <1>1, <3>2 DEF SaleOK
    <3> QED
      BY <3>1, <3>2, <3>3
  <2>2. CASE AppendSale(s)
    <3> DEFINE q == IF p.todo = {} THEN NoSale ELSE [p EXCEPT !.at = None]
    <3>1. sale' = [sale EXCEPT ![s] = q]
      BY <2>2 DEF AppendSale, SalesInv, SalesTypes
    <3>2. CASE p.todo = {}
      <4>1. NoSale \in SaleSlot /\ SaleOK(NoSale)
        BY DEF NoSale, SaleSlot, SaleStage, SaleOK
      <4> QED
        BY <3>1, <3>2, <4>1
    <3>3. CASE p.todo # {}
      <4> DEFINE n == [p EXCEPT !.at = None]
      <4>1. q = n
        BY <3>3
      <4>2. /\ n \in SaleSlot /\ n.stage = "append" /\ n.todo = p.todo
            /\ n.locked = p.locked /\ n.sold = p.sold
        BY <1>1 DEF SaleSlot
      <4> HIDE DEF p, q, n
      <4>3. SaleOK(n)
        BY <1>1, <4>2 DEF SaleOK
      <4> QED
        BY <3>1, <4>1, <4>2, <4>3
    <3> QED
      BY <3>2, <3>3
  <2> QED
    BY <2>1, <2>2
<1>9. SalesTypes' /\ SalesOK'
  <2>1. PICK q \in SaleSlot : sale' = [sale EXCEPT ![s] = q] /\ SaleOK(q)
    BY <1>8
  <2>2. SaleOK(q)'
    BY <1>4, <2>1, SaleOKKept
  <2> QED
    BY <1>2, <1>4, <1>7, <2>1, <2>2, OneSale DEF SalesInv, SalesTypes
<1> QED
  BY <1>3, <1>5, <1>7, <1>9 DEF SalesInv

-----------------------------------------------------------------------------
(* The steps of Custody. *)

\* A request of Custody makes no batch SOLD, and EXPORTED only one that it has
\* read as SOLD; and it reads no status but the present one.
LEMMA CustodyMoves ==
  ASSUME TypeInv, Next
  PROVE  /\ \A b \in Batches : status'[b] \in Gone =>
              \/ status[b] \in Gone
              \/ \E r \in Requests : req[r].seen \in Gone /\ req[r].batch = b
         /\ \A r \in Requests : req'[r].seen \in Gone =>
              \/ req[r].seen \in Gone /\ req'[r].batch = req[r].batch
              \/ req'[r].batch \in Batches /\ status[req'[r].batch] \in Gone
<1> USE DEF Gone
<1>1. /\ status \in [Batches -> Status] /\ req \in [Requests -> Slot]
      /\ None \notin Gone
  BY CustodyAssumption DEF TypeInv, TypeOK, Status
<1>2. ASSUME NEW r \in Requests, Arrive(r)
      PROVE  /\ status' = status
             /\ \/ req'[r].seen = None
                \/ /\ req'[r].batch \in Batches
                   /\ req'[r].seen = status[req'[r].batch]
             /\ \A o \in Requests : o # r => req'[o] = req[o]
  <2>1. CASE \E b \in Batches, to \in Status : StatusRead(r, b, to)
    <3>1. PICK b \in Batches, to \in Status : StatusRead(r, b, to)
      BY <2>1
    <3> DEFINE new == [Idle EXCEPT
           !.stage = IF status[b] = to THEN "append" ELSE "statusWrite",
           !.batch = b, !.target = to, !.seen = status[b], !.event = StatusEvent(to)]
    <3>2. new.batch = b /\ new.seen = status[b]
      BY DEF Idle
    <3>3. req' = [req EXCEPT ![r] = new] /\ status' = status
      BY <3>1 DEF StatusRead
    <3> HIDE DEF new
    <3> QED
      BY <1>1, <3>2, <3>3
  <2>2. CASE \E b \in Batches : ProcessRead(r, b)
    BY <1>1, <2>2 DEF ProcessRead, Idle
  <2>3. CASE \E b \in Batches, w \in Warehouses, k \in Weights : StoreRead(r, b, w, k)
    <3>1. PICK b \in Batches, w \in Warehouses, k \in Weights : StoreRead(r, b, w, k)
      BY <2>3
    <3> DEFINE new == [Idle EXCEPT
           !.stage = "storeTx", !.batch = b, !.wh = w, !.kg = k,
           !.seenTotal = total[b], !.target = "IN_STORAGE",
           !.event = "WAREHOUSE_STORED"]
    <3>2. new.seen = None
      BY DEF Idle
    <3>3. req' = [req EXCEPT ![r] = new] /\ status' = status
      BY <3>1 DEF StoreRead
    <3> HIDE DEF new
    <3> QED
      BY <1>1, <3>2, <3>3
  <2>4. CASE \E i \in RowIds : RemoveRead(r, i)
    BY <1>1, <2>4 DEF RemoveRead, Idle
  <2> QED
    BY <1>2, <2>1, <2>2, <2>3, <2>4 DEF Arrive
<1>3. ASSUME NEW r \in Requests, Continue(r)
      PROVE  /\ \/ req'[r].seen = None
                \/ req'[r].seen = req[r].seen /\ req'[r].batch = req[r].batch
                \/ /\ req'[r].batch \in Batches
                   /\ req'[r].seen = status[req'[r].batch]
             /\ \A o \in Requests : o # r => req'[o] = req[o]
  <2>1. req[r].stage \in {"processTx", "storeRead"} => req[r].batch \in Batches
    BY DEF TypeInv, SlotsOK, Asked
  <2>2. CASE ProcessStart(r) \/ StoreReadStatus(r)
    BY <1>1, <2>1, <2>2 DEF ProcessStart, StoreReadStatus, Slot
  <2>3. CASE RemoveCommit(r) \/ AppendEvent(r) \/ Abort(r)
    BY <1>1, <2>3 DEF RemoveCommit, AppendEvent, Abort, Finish, Idle
  <2>4. CASE StatusCommit(r) \/ ProcessKeepStatus(r) \/ ProcessCommit(r)
               \/ StoreMeasure(r) \/ StoreCommit(r)
    BY <1>1, <2>4 DEF StatusCommit, ProcessKeepStatus, ProcessCommit, StoreMeasure,
       StoreCommit, Goto, Slot
  <2> QED
    BY <1>3, <2>2, <2>3, <2>4 DEF Continue
<1>4. ASSUME NEW r \in Requests, Continue(r), NEW b \in Batches,
             status'[b] \in Gone, status[b] \notin Gone
      PROVE  req[r].seen \in Gone /\ req[r].batch = b
  <2>1. CASE StatusCommit(r)
    <3>1. /\ req[r].seen \in Status /\ req[r].target \in DirectTargets
          /\ req[r].target \in AllowedTransitions[req[r].seen]
          /\ req[r].batch \in Batches
      BY <2>1 DEF StatusCommit, TypeInv, SlotsOK, Allowed, Asked
    <3>2. status' = [status EXCEPT ![req[r].batch] = req[r].target] \/ status' = status
      BY <2>1 DEF StatusCommit, WriteTransition
    <3>3. b = req[r].batch /\ req[r].target \in Gone
      BY <1>1, <1>4, <3>1, <3>2
    <3> QED
      BY <3>1, <3>3, Origins DEF DirectTargets
  <2>2. CASE ProcessCommit(r)
    BY <1>1, <1>4, <2>2 DEF ProcessCommit, WriteTransition
  <2>3. CASE StoreCommit(r)
    BY <1>1, <1>4, <2>3 DEF StoreCommit
  <2>4. CASE status' = status
    BY <1>4, <2>4
  <2> QED
    BY <1>4, <2>1, <2>2, <2>3, <2>4
    DEF Continue, ProcessKeepStatus, ProcessStart, StoreMeasure, StoreReadStatus,
        RemoveCommit, AppendEvent, Abort
<1>5. CASE \E b \in Batches, k \in Weights : AddWeight(b, k)
  BY <1>5 DEF AddWeight
<1>6. CASE \E r \in Requests : Arrive(r)
  <2>1. PICK r \in Requests : Arrive(r)
    BY <1>6
  <2> QED
    BY <1>1, <1>2, <2>1
<1>7. CASE \E r \in Requests : Continue(r)
  <2>1. PICK r \in Requests : Continue(r)
    BY <1>7
  <2> QED
    BY <1>1, <1>3, <1>4, <2>1
<1> QED
  BY <1>5, <1>6, <1>7 DEF Next

LEMMA CustodyStepKeeps ==
  ASSUME SalesInv, CustodyStep
  PROVE  SalesInv'
<1>1. /\ Next /\ transfer' = transfer /\ lot' = lot /\ handovers' = handovers
      /\ sale' = sale
  BY DEF CustodyStep, saleVars
<1>2. TypeInv'
  BY <1>1, TypeStep DEF SalesInv
<1>3. SalesTypes' /\ SalesOK' /\ HandoverBacked' /\ SoldOff' = SoldOff
  BY <1>1 DEF SalesInv, SalesTypes, SalesOK, SaleOK, HandoverBacked, SoldOff,
     ConfirmedOf
<1>4. \A b \in Batches : status[b] \in Gone => b \in SoldOff
  BY DEF SalesInv, SoldBacked, SoldOff, Gone
<1>5. \A r \in Requests : req[r].seen \in Gone => req[r].batch \in SoldOff
  BY DEF SalesInv, SeenSold
<1>6. SoldBacked' /\ SeenSold'
  <2>1. \A b \in Batches : status'[b] \in Gone => b \in SoldOff
    BY <1>1, <1>4, <1>5, CustodyMoves DEF SalesInv
  <2>2. \A r \in Requests : req'[r].seen \in Gone => req'[r].batch \in SoldOff
    BY <1>1, <1>4, <1>5, CustodyMoves DEF SalesInv
  <2> QED
    BY <1>3, <2>1, <2>2 DEF SoldBacked, SeenSold, SoldOff, Gone
<1> QED
  BY <1>2, <1>3, <1>6 DEF SalesInv

LEMMA SalesInvStep == SalesInv /\ [SalesNext]_allVars => SalesInv'
<1> SUFFICES ASSUME SalesInv, [SalesNext]_allVars PROVE SalesInv'
  OBVIOUS
<1>1. CASE CustodyStep
  BY <1>1, CustodyStepKeeps
<1>2. ASSUME NEW b \in Singles, Initiate(b) PROVE SalesInv'
  BY <1>2, InitiateKeeps, SalesAssumption
<1>3. ASSUME NEW s \in Sellers, ArriveSale(s) PROVE SalesInv'
  BY <1>3, ArriveKeeps
<1>4. ASSUME NEW s \in Sellers, ContinueSale(s) PROVE SalesInv'
  BY <1>4, LotKeeps, GatherKeeps, ConfirmKeeps, CommitKeeps, AppendsKeep
  DEF ContinueSale
<1>5. CASE UNCHANGED allVars
  <2>1. UNCHANGED vars /\ transfer' = transfer /\ UNCHANGED <<lot, handovers, sale>>
    BY <1>5 DEF allVars, vars
  <2>2. TypeInv' /\ status' = status /\ req' = req
    BY <2>1, CustodySame DEF SalesInv
  <2> QED
    BY <2>1, <2>2 DEF SalesInv, SalesTypes, SalesOK, SaleOK, SoldBacked, SeenSold,
       HandoverBacked, SoldOff, ConfirmedOf
<1> QED
  BY <1>1, <1>2, <1>3, <1>4, <1>5 DEF SalesNext

-----------------------------------------------------------------------------
(* Lots. *)

\* What keeps the lots apart: no member is sold on its own, none is in two lots.
Apart ==
  /\ \A g \in Lots : Members[g] \cap Singles = {}
  /\ \A g, h \in Lots : g # h => Members[g] \cap Members[h] = {}

TransfersOf(b) == {t \in Transfers : transfer[t].batch = b}

\* The members of a lot are offered together.
OfferedTogether ==
  \A g \in Lots : \A a, b \in Members[g] :
    TransfersOf(a) # {} => TransfersOf(b) # {}

\* A lot's confirmation q has in hand, for each member that has no confirmed
\* transfer, one that it will confirm or has.
InHand(q) ==
  q.lot \in Lots /\ q.stage \in {"confirm", "confirmLock", "confirmWrite"} =>
    \A b \in Members[q.lot] : \E t \in Transfers :
      /\ transfer[t].batch = b
      /\ t \in q.todo \/ t \in q.locked \/ transfer[t].status = "CONFIRMED"

LotInv == /\ OfferedTogether /\ LotSoldWhole
          /\ \A s \in Sellers : InHand(sale[s])

\* The members of a lot are batches.
LEMMA MembersAreBatches == \A g \in Lots : Members[g] \subseteq Batches
BY SalesAssumption

LEMMA InHandKept ==
  ASSUME Kept, NEW q \in SaleSlot, InHand(q)
  PROVE  InHand(q)'
<1> SUFFICES ASSUME q.lot \in Lots,
                    q.stage \in {"confirm", "confirmLock", "confirmWrite"},
                    NEW b \in Members[q.lot]
             PROVE  \E t \in Transfers :
                      /\ transfer'[t].batch = b
                      /\ t \in q.todo \/ t \in q.locked \/ transfer'[t].status = "CONFIRMED"
  BY DEF InHand
<1>1. PICK t \in Transfers :
        /\ transfer[t].batch = b
        /\ t \in q.todo \/ t \in q.locked \/ transfer[t].status = "CONFIRMED"
  BY DEF InHand
<1>2. b \in Batches
  BY MembersAreBatches
<1> QED
  BY <1>1, <1>2 DEF Kept

\* A step writes the slot of one sale, or of none.
LEMMA InHandSlots ==
  ASSUME SalesInv, LotInv, Kept, NEW s \in Sellers, NEW q \in SaleSlot,
         sale' = [sale EXCEPT ![s] = q], InHand(q)'
  PROVE  \A z \in Sellers : InHand(sale[z])'
<1> SUFFICES ASSUME NEW z \in Sellers PROVE InHand(sale[z])'
  OBVIOUS
<1>1. PICK p \in SaleSlot : p = sale[z] /\ InHand(p)
  BY DEF SalesInv, SalesTypes, LotInv
<1>2. InHand(p)'
  BY <1>1, InHandKept
<1>3. sale'[z] = q \/ sale'[z] = p
  BY <1>1 DEF SalesInv, SalesTypes
<1> QED
  BY <1>2, <1>3 DEF InHand

\* A lot that was SOLD before stays sold whole.
LEMMA SoldWholeKept ==
  ASSUME LotInv, Kept, NEW g \in Lots, lot[g] = "SOLD"
  PROVE  \A b \in Members[g] : ConfirmedOf(b)' # {}
<1>1. SoldOff \subseteq SoldOff'
  BY ConfirmedKept
<1>2. \A b \in Members[g] : b \in Batches /\ ConfirmedOf(b) # {}
  BY MembersAreBatches DEF LotInv, LotSoldWhole
<1> QED
  BY <1>1, <1>2 DEF SoldOff

\* A step of a sale that changes its own slot and neither transfers nor lots.
LEMMA LotSlotStep ==
  ASSUME SalesInv, LotInv, NEW s \in Sellers, NEW q \in SaleSlot,
         sale' = [sale EXCEPT ![s] = q], InHand(q), UNCHANGED <<transfer, lot>>
  PROVE  LotInv'
<1>1. Kept
  BY DEF Kept
<1>2. \A z \in Sellers : InHand(sale[z])'
  BY <1>1, InHandKept, InHandSlots
<1>3. OfferedTogether' /\ LotSoldWhole'
  BY DEF LotInv, OfferedTogether, TransfersOf, LotSoldWhole, ConfirmedOf
<1> QED
  BY <1>2, <1>3 DEF LotInv

\* A slot that confirms nothing, or no lot.
LEMMA NothingInHand ==
  ASSUME NEW q,
         q.lot = None \/ q.stage \notin {"confirm", "confirmLock", "confirmWrite"}
  PROVE  InHand(q)
BY SalesAssumption DEF InHand

LEMMA ReadsKeepLots ==
  ASSUME SalesInv, LotInv, NEW s \in Sellers,
         ArriveSale(s) \/ SellCheck(s) \/ AbortSale(s)
  PROVE  LotInv'
<1>1. UNCHANGED <<transfer, lot>>
  BY DEF ArriveSale, CreateLotRead, SellRead, ConfirmLotRead, ConfirmRead,
     SellCheck, AbortSale
<1>2. ASSUME NEW st \in {"lotWrite", "sellCheck", "gather"}, NEW g \in Lots,
             sale' = [sale EXCEPT ![s] = [NoSale EXCEPT !.stage = st, !.lot = g]]
      PROVE  LotInv'
  <2> DEFINE q == [NoSale EXCEPT !.stage = st, !.lot = g]
  <2>1. q \in SaleSlot /\ q.stage \notin {"confirm", "confirmLock", "confirmWrite"}
    BY DEF NoSale, SaleSlot, SaleStage
  <2>2. sale' = [sale EXCEPT ![s] = q]
    BY <1>2
  <2> HIDE DEF q
  <2> QED
    BY <1>1, <2>1, <2>2, NothingInHand, LotSlotStep
<1>3. ASSUME NEW t \in Transfers, ConfirmRead(s, t) PROVE LotInv'
  <2> DEFINE q == [NoSale EXCEPT !.stage = "confirm", !.todo = {t}]
  <2>1. q \in SaleSlot /\ q.lot = None
    BY DEF NoSale, SaleSlot, SaleStage
  <2>2. sale' = [sale EXCEPT ![s] = q]
    BY <1>3 DEF ConfirmRead
  <2> HIDE DEF q
  <2> QED
    BY <1>1, <2>1, <2>2, NothingInHand, LotSlotStep
<1>4. CASE SellCheck(s)
  <2> DEFINE q == [sale[s] EXCEPT !.stage = "sellWrite"]
  <2>1. q \in SaleSlot /\ q.stage = "sellWrite"
    BY DEF SalesInv, SalesTypes, SaleSlot, SaleStage
  <2>2. sale' = [sale EXCEPT ![s] = q]
    BY <1>4 DEF SellCheck, SaleStep, SalesInv, SalesTypes
  <2> HIDE DEF q
  <2> QED
    BY <1>1, <2>1, <2>2, NothingInHand, LotSlotStep
<1>5. CASE AbortSale(s)
  <2>1. NoSale \in SaleSlot /\ NoSale.lot = None
    BY DEF NoSale, SaleSlot, SaleStage
  <2>2. sale' = [sale EXCEPT ![s] = NoSale]
    BY <1>5 DEF AbortSale, EndSale
  <2> QED
    BY <1>1, <2>1, <2>2, NothingInHand, LotSlotStep
<1> QED
  BY <1>2, <1>3, <1>4, <1>5 DEF ArriveSale, CreateLotRead, SellRead, ConfirmLotRead

\* Some member is pending, so every member was offered; a member that is not
\* pending any more has been confirmed.
LEMMA GatherTakesAll ==
  ASSUME SalesInv, LotInv, NEW s \in Sellers, Gather(s)
  PROVE  LotInv'
<1> DEFINE p == sale[s]
           pending == PendingOf(Members[p.lot])
           q == [p EXCEPT !.stage = "confirm", !.todo = pending]
<1>1. /\ p \in SaleSlot /\ p.lot \in Lots /\ pending # {}
      /\ sale' = [sale EXCEPT ![s] = q] /\ UNCHANGED <<transfer, lot>>
  BY DEF Gather, SalesInv, SalesTypes, SalesOK, SaleOK
<1>2. pending \subseteq Transfers
  BY DEF PendingOf
<1>3. q \in SaleSlot /\ q.lot = p.lot /\ q.todo = pending
  <2> HIDE DEF pending, p
  <2> QED BY <1>1, <1>2 DEF SaleSlot, SaleStage
<1> HIDE DEF q
<1>4. ASSUME NEW b \in Members[p.lot]
      PROVE  \E t \in Transfers :
               transfer[t].batch = b /\ (t \in pending \/ transfer[t].status = "CONFIRMED")
  <2>1. PICK a \in Members[p.lot] : TransfersOf(a) # {}
    BY <1>1 DEF PendingOf, TransfersOf
  <2>2. PICK t \in Transfers : transfer[t].batch = b
    BY <1>1, <1>4, <2>1 DEF LotInv, OfferedTogether, TransfersOf
  <2>3. transfer[t].status \in {"PENDING", "CONFIRMED"}
    BY DEF SalesInv, SalesTypes, Transfer
  <2> QED
    BY <2>2, <2>3 DEF PendingOf
<1>5. InHand(q)
  BY <1>3, <1>4 DEF InHand
<1> QED
  BY <1>1, <1>3, <1>5, LotSlotStep

LEMMA ConfirmKeepsLots ==
  ASSUME SalesInv, LotInv, NEW s \in Sellers,
         \/ \E t \in Transfers : ConfirmTransfer(s, t)
         \/ ConfirmLock(s) \/ ConfirmWrite(s)
  PROVE  LotInv'
<1> DEFINE p == sale[s]
<1>1. /\ p \in SaleSlot /\ InHand(p) /\ SaleOK(p)
      /\ p.stage \in {"confirm", "confirmLock", "confirmWrite"}
      /\ UNCHANGED <<transfer, lot>> /\ SalesInv'
  BY ConfirmKeeps DEF SalesInv, SalesTypes, SalesOK, LotInv, ConfirmTransfer,
     ConfirmLock, ConfirmWrite
<1>2. PICK q \in SaleSlot : sale' = [sale EXCEPT ![s] = q]
  <2>1. PICK q : sale' = [sale EXCEPT ![s] = q]
    BY DEF ConfirmTransfer, ConfirmLock, ConfirmWrite, SalesInv, SalesTypes
  <2> QED
    BY <1>1, <2>1 DEF SalesInv, SalesTypes
<1>3. /\ q.lot = p.lot /\ p.locked \subseteq q.locked
      /\ \A t \in p.todo : t \in q.todo \/ t \in q.locked
  <2>1. q = sale'[s]
    BY <1>2 DEF SalesInv, SalesTypes
  <2>2. CASE \E t \in Transfers : ConfirmTransfer(s, t)
    <3>1. PICK t \in Transfers : ConfirmTransfer(s, t)
      BY <2>2
    <3>2. q = [p EXCEPT !.stage = "confirmLock", !.at = t]
      BY <2>1, <3>1 DEF ConfirmTransfer, SalesInv, SalesTypes
    <3>3. q.lot = p.lot /\ q.locked = p.locked /\ q.todo = p.todo
      BY <1>1, <3>2 DEF SaleSlot
    <3> QED
      BY <3>3
  <2>3. CASE ConfirmLock(s)
    BY <1>1, <2>1, <2>3 DEF ConfirmLock, SalesInv, SalesTypes, SaleSlot
  <2>4. CASE ConfirmWrite(s)
    <3>1. p.at \in p.locked
      BY <1>1, <2>4 DEF ConfirmWrite, SaleOK
    <3>2. q.lot = p.lot /\ q.locked = p.locked /\ q.todo = p.todo \ {p.at}
      BY <1>1, <2>1, <2>4 DEF ConfirmWrite, SalesInv, SalesTypes, SaleSlot
    <3> QED
      BY <3>1, <3>2
  <2> QED
    BY <2>2, <2>3, <2>4
<1> HIDE DEF p
<1>4. InHand(q)
  BY <1>1, <1>3 DEF InHand
<1> QED
  BY <1>1, <1>2, <1>4, LotSlotStep

\* The events of a sale, the requests of Custody and the creation of a lot
\* touch no transfer and sell no lot.
LEMMA OthersKeepLots ==
  ASSUME SalesInv, LotInv,
         \/ CustodyStep
         \/ \E s \in Sellers : \/ CreateLotCommit(s) \/ AppendSale(s)
                               \/ \E t \in Transfers : AppendHandover(s, t)
         \/ UNCHANGED allVars
  PROVE  LotInv'
<1>1. CASE CustodyStep \/ UNCHANGED allVars
  <2>1. UNCHANGED <<transfer, lot, sale>>
    BY <1>1 DEF CustodyStep, saleVars, allVars
  <2> QED
    BY <2>1 DEF LotInv, OfferedTogether, TransfersOf, LotSoldWhole, ConfirmedOf, InHand
<1>2. ASSUME NEW s \in Sellers, CreateLotCommit(s) PROVE LotInv'
  <2>1. NoSale \in SaleSlot /\ NoSale.lot = None
    BY DEF NoSale, SaleSlot, SaleStage
  <2>2. /\ sale' = [sale EXCEPT ![s] = NoSale] /\ transfer' = transfer
        /\ \A g \in Lots : lot'[g] = "SOLD" => lot[g] = "SOLD"
    BY <1>2 DEF CreateLotCommit, EndSale, SalesInv, SalesTypes
  <2>3. Kept
    BY <2>2 DEF Kept
  <2>4. InHand(NoSale)'
    BY <2>1, SalesAssumption DEF InHand
  <2>5. \A z \in Sellers : InHand(sale[z])'
    BY <2>1, <2>2, <2>3, <2>4, InHandSlots
  <2>6. OfferedTogether' /\ LotSoldWhole'
    BY <2>2 DEF LotInv, OfferedTogether, TransfersOf, LotSoldWhole, ConfirmedOf
  <2> QED
    BY <2>5, <2>6 DEF LotInv
<1>3. ASSUME NEW s \in Sellers,
             AppendSale(s) \/ \E t \in Transfers : AppendHandover(s, t)
      PROVE  LotInv'
  <2> DEFINE p == sale[s]
  <2>1. p \in SaleSlot /\ p.stage = "append" /\ UNCHANGED <<transfer, lot>> /\ SalesInv'
    BY <1>3, AppendsKeep DEF SalesInv, SalesTypes, AppendSale, AppendHandover
  <2>2. PICK q : sale' = [sale EXCEPT ![s] = q] /\ q.stage \in {"idle", "append"}
    <3>1. CASE AppendSale(s)
      <4>1. NoSale.stage = "idle" /\ [p EXCEPT !.at = None].stage = "append"
        BY <2>1 DEF NoSale, SaleSlot
      <4>2. sale' = [sale EXCEPT ![s] = IF p.todo = {} THEN NoSale ELSE [p EXCEPT !.at = None]]
        BY <3>1 DEF AppendSale, SalesInv, SalesTypes
      <4> QED
        BY <4>1, <4>2
    <3>2. ASSUME NEW t \in Transfers, AppendHandover(s, t)
          PROVE  \E q : sale' = [sale EXCEPT ![s] = q] /\ q.stage \in {"idle", "append"}
      <4>1. sale' = [sale EXCEPT ![s] = [p EXCEPT !.at = t, !.todo = p.todo \ {t}]]
        BY <3>2 DEF AppendHandover, SalesInv, SalesTypes
      <4>2. [p EXCEPT !.at = t, !.todo = p.todo \ {t}].stage = "append"
        BY <2>1 DEF SaleSlot
      <4> QED
        BY <4>1, <4>2
    <3> QED
      BY <1>3, <3>1, <3>2
  <2>3. q \in SaleSlot
    BY <2>1, <2>2 DEF SalesInv, SalesTypes
  <2> QED
    BY <2>1, <2>2, <2>3, NothingInHand, LotSlotStep
<1> QED
  BY <1>1, <1>2, <1>3

\* A single transfer is of no lot's member.
LEMMA InitiateKeepsLots ==
  ASSUME Apart, SalesInv, LotInv, NEW b \in Singles, Initiate(b)
  PROVE  LotInv'
<1>1. PICK t \in Unused : transfer' = [transfer EXCEPT ![t].batch = b]
  BY DEF Initiate
<1>2. /\ UNCHANGED <<lot, sale>> /\ t \in Transfers /\ transfer[t].batch = None
      /\ transfer \in [Transfers -> Transfer] /\ transfer[t] \in Transfer
  BY DEF Initiate, Unused, NoTransfer, SalesInv, SalesTypes
<1>3. /\ transfer'[t].batch = b /\ transfer'[t].status = transfer[t].status
      /\ \A u \in Transfers \ {t} : transfer'[u] = transfer[u]
  BY <1>1, <1>2 DEF Transfer
<1>4. None \notin Batches
  BY CustodyAssumption
<1>5. ASSUME NEW g \in Lots, NEW a \in Members[g]
      PROVE  a # b /\ a # None
  BY <1>4, MembersAreBatches DEF Apart
<1>6. ASSUME NEW g \in Lots, NEW a \in Members[g]
      PROVE  TransfersOf(a)' = TransfersOf(a) /\ ConfirmedOf(a)' = ConfirmedOf(a)
  BY <1>2, <1>3, <1>5 DEF TransfersOf, ConfirmedOf
<1>7. OfferedTogether' /\ LotSoldWhole'
  BY <1>2, <1>6 DEF LotInv, OfferedTogether, LotSoldWhole
<1>8. ASSUME NEW z \in Sellers PROVE InHand(sale[z])'
  <2>1. InHand(sale[z])
    BY DEF LotInv
  <2> SUFFICES ASSUME sale[z].lot \in Lots,
                      sale[z].stage \in {"confirm", "confirmLock", "confirmWrite"},
                      NEW a \in Members[sale[z].lot]
               PROVE  \E u \in Transfers :
                        /\ transfer'[u].batch = a
                        /\ \/ u \in sale[z].todo \/ u \in sale[z].locked
                           \/ transfer'[u].status = "CONFIRMED"
    BY <1>2 DEF InHand
  <2>2. PICK u \in Transfers :
          /\ transfer[u].batch = a
          /\ \/ u \in sale[z].todo \/ u \in sale[z].locked
             \/ transfer[u].status = "CONFIRMED"
    BY <2>1 DEF InHand
  <2>3. u # t
    BY <1>2, <1>5, <2>2
  <2> QED
    BY <1>3, <2>2, <2>3
<1> QED
  BY <1>7, <1>8 DEF LotInv

\* A lot's sale offers every member, and no member of another lot.
LEMMA SellKeepsLots ==
  ASSUME Apart, SalesInv, LotInv, NEW s \in Sellers, SellCommit(s)
  PROVE  LotInv'
<1> DEFINE g == sale[s].lot
           M == Members[g]
<1>1. g \in Lots /\ M \subseteq Batches
  BY MembersAreBatches DEF SellCommit, SalesInv, SalesOK, SaleOK
<1>2. /\ lot' = lot /\ sale' = [sale EXCEPT ![s] = NoSale]
      /\ transfer \in [Transfers -> Transfer]
  BY DEF SellCommit, EndSale, SalesInv, SalesTypes
<1>3. PICK id \in [M -> Unused] :
        /\ \A a, b \in M : id[a] = id[b] => a = b
        /\ transfer' = [t \in Transfers |->
             IF \E b \in M : id[b] = t
             THEN [batch |-> CHOOSE b \in M : id[b] = t, status |-> "PENDING"]
             ELSE transfer[t]]
  BY DEF SellCommit
<1> HIDE DEF g, M
<1>4. ASSUME NEW b \in M
      PROVE  id[b] \in Transfers /\ transfer'[id[b]].batch = b
  <2>1. id[b] \in Unused /\ (CHOOSE c \in M : id[c] = id[b]) = b
    BY <1>3
  <2>2. id[b] \in Transfers
    BY <2>1 DEF Unused
  <2> QED
    BY <1>3, <2>1, <2>2
<1>5. ASSUME NEW t \in Transfers, transfer'[t] # transfer[t]
      PROVE  /\ transfer[t].batch = None /\ transfer[t].status = "PENDING"
             /\ transfer'[t].batch \in M /\ transfer'[t].status = "PENDING"
  <2>1. \E b \in M : id[b] = t
    BY <1>3, <1>5
  <2>2. t \in Unused
    BY <2>1
  <2>3. (CHOOSE b \in M : id[b] = t) \in M
    BY <2>1
  <2> QED
    BY <1>3, <2>1, <2>2, <2>3 DEF Unused, NoTransfer
<1>6. None \notin Batches
  BY CustodyAssumption
<1>7. Kept
  BY <1>5, <1>6 DEF Kept
<1>8. ASSUME NEW h \in Lots, NEW a \in Members[h], NEW b \in Members[h],
             TransfersOf(a)' # {}
      PROVE  TransfersOf(b)' # {}
  <2>1. CASE h = g
    <3>1. b \in M
      BY <2>1, <1>8 DEF M
    <3> QED
      BY <1>4, <3>1 DEF TransfersOf
  <2>2. CASE h # g
    <3>1. a \notin M /\ a \in Batches /\ b \in Batches
      BY <1>1, <2>2, MembersAreBatches DEF Apart, M
    <3>2. TransfersOf(a) # {}
      BY <1>5, <1>8, <3>1 DEF TransfersOf
    <3>3. TransfersOf(b) # {}
      BY <3>2 DEF LotInv, OfferedTogether
    <3> QED
      BY <1>7, <3>1, <3>3 DEF TransfersOf, Kept
  <2> QED
    BY <2>1, <2>2
<1>9. LotSoldWhole'
  BY <1>2, <1>7, SoldWholeKept DEF LotSoldWhole
<1>10. \A z \in Sellers : InHand(sale[z])'
  <2>1. NoSale \in SaleSlot /\ NoSale.lot = None
    BY DEF NoSale, SaleSlot, SaleStage
  <2>2. InHand(NoSale)'
    BY <2>1, SalesAssumption DEF InHand
  <2> QED
    BY <1>2, <1>7, <2>1, <2>2, InHandSlots
<1> QED
  BY <1>8, <1>9, <1>10 DEF LotInv, OfferedTogether

\* The commit that marks a lot SOLD confirms what its slot has in hand, and
\* nothing is left to confirm.
LEMMA CommitSellsWhole ==
  ASSUME SalesInv, LotInv, NEW s \in Sellers, SaleCommit(s)
  PROVE  LotInv'
<1> DEFINE p == sale[s]
<1>1. /\ p \in SaleSlot /\ SaleOK(p) /\ InHand(p) /\ p.stage = "confirm" /\ p.todo = {}
  BY DEF SalesInv, SalesTypes, SalesOK, LotInv, SaleCommit, AllConfirmed
<1>2. /\ Kept /\ \A t \in p.locked : t \in Transfers /\ transfer'[t].status = "CONFIRMED"
  BY CommitShows
<1>3. \A t \in Transfers : transfer'[t].batch = transfer[t].batch
  BY DEF SaleCommit, SalesInv, SalesTypes, Transfer
<1>4. OfferedTogether'
  BY <1>3 DEF LotInv, OfferedTogether, TransfersOf
<1>5. \A z \in Sellers : InHand(sale[z])'
  <2> DEFINE n == [NoSale EXCEPT !.stage = "append", !.todo = p.locked]
  <2>1. n \in SaleSlot /\ n.lot = None
    BY <1>1 DEF NoSale, SaleSlot, SaleStage
  <2>2. sale' = [sale EXCEPT ![s] = n]
    BY DEF SaleCommit
  <2> HIDE DEF n
  <2>3. PICK q \in SaleSlot : q = n /\ q.lot = None
    BY <2>1
  <2>4. InHand(q)'
    BY <2>3, SalesAssumption DEF InHand
  <2> QED
    BY <1>2, <2>2, <2>3, <2>4, InHandSlots
<1>6. ASSUME NEW g \in Lots, lot'[g] = "SOLD", NEW b \in Members[g]
      PROVE  ConfirmedOf(b)' # {}
  <2>1. CASE g = p.lot
    <3>1. PICK t \in Transfers :
            /\ transfer[t].batch = b
            /\ t \in p.todo \/ t \in p.locked \/ transfer[t].status = "CONFIRMED"
      BY <1>1, <1>6, <2>1 DEF InHand
    <3>2. transfer'[t].batch = b /\ transfer'[t].status = "CONFIRMED"
      BY <1>1, <1>2, <1>3, <3>1 DEF Kept
    <3> QED
      BY <3>2 DEF ConfirmedOf
  <2>2. CASE g # p.lot
    <3>1. lot[g] = "SOLD"
      BY <1>6, <2>2 DEF SaleCommit
    <3> QED
      BY <1>2, <1>6, <3>1, SoldWholeKept
  <2> QED
    BY <2>1, <2>2
<1>7. LotSoldWhole'
  BY <1>6 DEF LotSoldWhole
<1> QED
  BY <1>4, <1>5, <1>7 DEF LotInv

LEMMA LotStep ==
  ASSUME Apart
  PROVE  SalesInv /\ LotInv /\ [SalesNext]_allVars => LotInv'
<1> SUFFICES ASSUME SalesInv, LotInv, [SalesNext]_allVars PROVE LotInv'
  OBVIOUS
<1>1. CASE CustodyStep \/ UNCHANGED allVars
  BY <1>1, OthersKeepLots
<1>2. ASSUME NEW b \in Singles, Initiate(b) PROVE LotInv'
  BY <1>2, InitiateKeepsLots
<1>3. ASSUME NEW s \in Sellers, ArriveSale(s) PROVE LotInv'
  BY <1>3, ReadsKeepLots
<1>4. ASSUME NEW s \in Sellers, ContinueSale(s) PROVE LotInv'
  BY <1>4, ReadsKeepLots, GatherTakesAll, ConfirmKeepsLots, SellKeepsLots,
     CommitSellsWhole, OthersKeepLots
  DEF ContinueSale
<1> QED
  BY <1>1, <1>2, <1>3, <1>4 DEF SalesNext

-----------------------------------------------------------------------------
(* What a step does to the slot of a sale. *)

\* What q and p have written and not committed is the same.
SameWrites(q, p) == q.locked = p.locked /\ q.sold = p.sold /\ q.closed = p.closed

\* Nothing is written and not committed.
NoWrites(q) == q.locked = {} /\ q.sold = {} /\ q.closed = {}

\* The slots that hold no transfer to confirm or append.
QuietStage == {"idle", "lotWrite", "sellCheck", "gather", "sellWrite"}

\* A step leaves a slot alone, empties it, fills it with a first read, or is
\* one of the steps of a confirmation.
SlotMoves(z) ==
  \/ sale'[z] = sale[z]
  \/ NoWrites(sale'[z]) /\ sale'[z].stage \in QuietStage
  \/ /\ NoWrites(sale'[z]) /\ sale'[z].stage = "confirm"
     /\ \E t \in Transfers : ConfirmRead(z, t)
  \/ /\ SameWrites(sale'[z], sale[z])
     /\ \/ SellCheck(z) /\ sale'[z].stage = "sellWrite"
        \/ Gather(z) /\ sale'[z].stage = "confirm"
  \/ /\ SameWrites(sale'[z], sale[z]) /\ sale'[z].stage = "confirmLock"
     /\ ConfirmTransfer(z, sale'[z].at)
  \/ /\ ConfirmLock(z) /\ sale'[z].stage = "confirmWrite"
     /\ sale'[z].locked = sale[z].locked \cup {sale[z].at}
     /\ sale'[z].sold = sale[z].sold /\ sale'[z].closed = sale[z].closed
     /\ sale'[z].at = sale[z].at
     /\ sale'[z].seen = IF transfer[sale[z].at].batch \in sale[z].sold
                        THEN "SOLD" ELSE status[transfer[sale[z].at].batch]
  \/ /\ ConfirmWrite(z) /\ sale'[z].stage = "confirm"
     /\ sale'[z].locked = sale[z].locked
     /\ \/ sale'[z].sold = sale[z].sold /\ sale'[z].closed = sale[z].closed
        \/ /\ sale'[z].sold = sale[z].sold \cup {transfer[sale[z].at].batch}
           /\ sale'[z].closed =
                sale[z].closed \cup OpenRows(transfer[sale[z].at].batch)
  \/ /\ SaleCommit(z) /\ NoWrites(sale'[z]) /\ sale'[z].stage = "append"
     /\ sale'[z].todo = sale[z].locked
  \/ /\ SameWrites(sale'[z], sale[z]) /\ sale'[z].stage = "append"
     /\ \/ AppendSale(z) /\ sale'[z].todo = sale[z].todo
        \/ \E t \in Transfers :
             AppendHandover(z, t) /\ sale'[z].todo = sale[z].todo \ {t}

LEMMA SaleWriters ==
  ASSUME SalesInv, [SalesNext]_allVars, NEW z \in Sellers
  PROVE  SlotMoves(z)
<1> USE DEF SlotMoves
<1>types. sale \in [Sellers -> SaleSlot] /\ sale[z] \in SaleSlot
  BY DEF SalesInv, SalesTypes
<1>none. NoWrites(NoSale) /\ NoSale.stage \in QuietStage
  BY DEF NoWrites, NoSale, QuietStage
<1>1. ASSUME NEW s \in Sellers, s # z, ArriveSale(s) \/ ContinueSale(s)
      PROVE  sale'[z] = sale[z]
  BY <1>1, <1>types DEF ArriveSale, ContinueSale, CreateLotRead, SellRead,
     ConfirmLotRead, ConfirmRead, CreateLotCommit, SellCheck, SellCommit, Gather,
     ConfirmTransfer, ConfirmLock, ConfirmWrite, SaleCommit, AppendHandover,
     AppendSale, AbortSale, SaleStep, EndSale
<1>2. CASE CustodyStep \/ (\E b \in Singles : Initiate(b)) \/ UNCHANGED allVars
  BY <1>2 DEF CustodyStep, saleVars, Initiate, allVars
<1>3. CASE \E g \in Lots : CreateLotRead(z, g) \/ SellRead(z, g) \/ ConfirmLotRead(z, g)
  <2>1. PICK g \in Lots, st \in {"lotWrite", "sellCheck", "gather"} :
          sale'[z] = [NoSale EXCEPT !.stage = st, !.lot = g]
    BY <1>3, <1>types DEF CreateLotRead, SellRead, ConfirmLotRead
  <2> QED
    BY <2>1 DEF NoWrites, NoSale, QuietStage
<1>4. ASSUME NEW t \in Transfers, ConfirmRead(z, t)
      PROVE  NoWrites(sale'[z]) /\ sale'[z].stage = "confirm"
  <2>1. sale'[z] = [NoSale EXCEPT !.stage = "confirm", !.todo = {t}]
    BY <1>4, <1>types DEF ConfirmRead
  <2> QED
    BY <2>1 DEF NoWrites, NoSale
<1>5. CASE CreateLotCommit(z) \/ SellCommit(z) \/ AbortSale(z)
  <2>1. sale'[z] = NoSale
    BY <1>5, <1>types DEF CreateLotCommit, SellCommit, AbortSale, EndSale
  <2> QED
    BY <1>none, <2>1
<1>6. CASE SellCheck(z)
  BY <1>6, <1>types DEF SellCheck, SaleStep, SameWrites, SaleSlot
<1>7. CASE Gather(z)
  BY <1>7, <1>types DEF Gather, SameWrites, SaleSlot
<1>8. ASSUME NEW t \in Transfers, ConfirmTransfer(z, t)
      PROVE  /\ SameWrites(sale'[z], sale[z]) /\ sale'[z].stage = "confirmLock"
             /\ sale'[z].at = t
  BY <1>8, <1>types DEF ConfirmTransfer, SameWrites, SaleSlot
<1>9. CASE ConfirmLock(z)
  BY <1>9, <1>types DEF ConfirmLock, SaleSlot
<1>10. CASE ConfirmWrite(z)
  <2>1. /\ sale'[z].stage = "confirm" /\ sale'[z].locked = sale[z].locked
        /\ \/ sale'[z].sold = sale[z].sold /\ sale'[z].closed = sale[z].closed
           \/ /\ sale'[z].sold = sale[z].sold \cup {transfer[sale[z].at].batch}
              /\ sale'[z].closed =
                   sale[z].closed \cup OpenRows(transfer[sale[z].at].batch)
    BY <1>10, <1>types DEF ConfirmWrite, SaleSlot
  <2> QED
    BY <1>10, <2>1
<1>11. CASE SaleCommit(z)
  <2>1. sale'[z] = [NoSale EXCEPT !.stage = "append", !.todo = sale[z].locked]
    BY <1>11, <1>types DEF SaleCommit
  <2> QED
    BY <1>11, <2>1 DEF NoWrites, NoSale
<1>12. ASSUME NEW t \in Transfers, AppendHandover(z, t)
       PROVE  /\ SameWrites(sale'[z], sale[z]) /\ sale'[z].stage = "append"
              /\ sale'[z].todo = sale[z].todo \ {t}
  BY <1>12, <1>types DEF AppendHandover, SameWrites, SaleSlot
<1>13. CASE AppendSale(z)
  <2>1. sale'[z] = IF sale[z].todo = {} THEN NoSale ELSE [sale[z] EXCEPT !.at = None]
    BY <1>13, <1>types DEF AppendSale
  <2>2. CASE sale[z].todo = {}
    BY <1>none, <2>1, <2>2
  <2>3. CASE sale[z].todo # {}
    <3>1. /\ SameWrites(sale'[z], sale[z]) /\ sale'[z].stage = "append"
          /\ sale'[z].todo = sale[z].todo
      BY <1>13, <1>types, <2>1, <2>3 DEF AppendSale, SameWrites, SaleSlot
    <3> QED
      BY <1>13, <3>1
  <2> QED
    BY <2>2, <2>3
<1> HIDE DEF SlotMoves
<1>14. SlotMoves(z)
  <2>1. ASSUME ArriveSale(z) PROVE SlotMoves(z)
    BY <1>3, <1>4, <2>1 DEF ArriveSale, SlotMoves
  <2>2. ASSUME ContinueSale(z) PROVE SlotMoves(z)
    <3>1. CASE \E t \in Transfers : ConfirmTransfer(z, t)
      BY <1>8, <3>1 DEF SlotMoves
    <3>2. CASE \E t \in Transfers : AppendHandover(z, t)
      BY <1>12, <3>2 DEF SlotMoves
    <3> QED
      BY <1>5, <1>6, <1>7, <1>9, <1>10, <1>11, <1>13, <2>2, <3>1, <3>2
      DEF ContinueSale, SlotMoves
  <2>3. ASSUME sale'[z] = sale[z] PROVE SlotMoves(z)
    BY <2>3 DEF SlotMoves
  <2>4. CASE \E s \in Sellers : ArriveSale(s) \/ ContinueSale(s)
    BY <1>1, <2>1, <2>2, <2>3, <2>4
  <2>5. CASE ~\E s \in Sellers : ArriveSale(s) \/ ContinueSale(s)
    <3>1. CustodyStep \/ (\E b \in Singles : Initiate(b)) \/ UNCHANGED allVars
      BY <2>5 DEF SalesNext
    <3>2. sale'[z] = sale[z]
      BY <3>1 DEF CustodyStep, saleVars, Initiate, allVars
    <3> QED
      BY <2>3, <3>2
  <2> QED
    BY <2>4, <2>5
<1> QED
  BY <1>14

-----------------------------------------------------------------------------
(* What Custody promises, the sales keep. *)

\* A batch that was processed, and was in a warehouse.
WasStored(b) == b \in processed /\ HasRow(b)

\* What a sale has written, or is about to, is a sale of coffee that was
\* processed and in a warehouse.
SellsStored(q) ==
  /\ q.stage = "confirmWrite" => WasStored(transfer[q.at].batch)
  /\ \A b \in q.sold : WasStored(b)

SalesBacked == \A s \in Sellers : SellsStored(sale[s])

\* Only a batch that has been in a warehouse can be sold.
LEMMA SellableWasStored ==
  ASSUME Inv, NEW b \in Batches, CanTransition(status[b], "SOLD")
  PROVE  WasStored(b)
<1>1. status[b] \in PastStorage /\ status[b] \in PastProcessing
  BY DEF CanTransition, AllowedTransitions, PastStorage, PastProcessing, Inv, TypeInv,
     TypeOK, Status
<1> QED
  BY <1>1 DEF Inv, ProcessingBacked, StorageBacked, WasStored

\* A step of Sales takes nothing back of what a slot sells.
LEMMA SellsStoredKept ==
  ASSUME SalesInv, Kept, NEW z \in Sellers, SellsStored(sale[z]),
         sale'[z] = sale[z],
         \A b \in Batches : WasStored(b) => WasStored(b)'
  PROVE  SellsStored(sale[z])'
<1>1. /\ sale[z] \in SaleSlot /\ SaleOK(sale[z])
  BY DEF SalesInv, SalesTypes, SalesOK
<1>2. sale[z].stage = "confirmWrite" =>
        /\ transfer[sale[z].at].batch \in Batches
        /\ transfer'[sale[z].at].batch = transfer[sale[z].at].batch
  BY <1>1 DEF SaleOK, Kept
<1>3. \A b \in sale[z].sold : b \in Batches
  BY <1>1 DEF SaleSlot
<1> QED
  BY <1>2, <1>3 DEF SellsStored

LEMMA SalesBackedStep ==
  ASSUME SalesInv, Inv, SalesBacked, Kept, [SalesNext]_allVars,
         \A b \in Batches : WasStored(b) => WasStored(b)'
  PROVE  SalesBacked'
<1> SUFFICES ASSUME NEW z \in Sellers PROVE SellsStored(sale[z])'
  BY DEF SalesBacked
<1>1. sale[z] \in SaleSlot /\ SaleOK(sale[z]) /\ SellsStored(sale[z])
  BY DEF SalesInv, SalesTypes, SalesOK, SalesBacked
<1>2. \A b \in sale[z].sold : WasStored(b)'
  BY <1>1 DEF SaleSlot, SellsStored
<1>3. CASE sale'[z] = sale[z]
  BY <1>1, <1>3, SellsStoredKept
<1>4. CASE NoWrites(sale'[z]) /\ sale'[z].stage # "confirmWrite"
  BY <1>4 DEF NoWrites, SellsStored
<1>5. CASE SameWrites(sale'[z], sale[z]) /\ sale'[z].stage # "confirmWrite"
  BY <1>2, <1>5 DEF SameWrites, SellsStored
<1>6. CASE /\ ConfirmLock(z) /\ sale'[z].stage = "confirmWrite"
           /\ sale'[z].sold = sale[z].sold /\ sale'[z].at = sale[z].at
  <2>1. /\ transfer[sale[z].at].batch \in Batches
        /\ transfer'[sale[z].at].batch = transfer[sale[z].at].batch
    BY <1>1, <1>6 DEF ConfirmLock, SaleOK
  <2>2. WasStored(transfer[sale[z].at].batch)
    <3>1. CASE transfer[sale[z].at].batch \in sale[z].sold
      BY <1>1, <3>1 DEF SellsStored
    <3>2. CASE transfer[sale[z].at].batch \notin sale[z].sold
      BY <1>6, <2>1, <3>2, SellableWasStored DEF ConfirmLock
    <3> QED
      BY <3>1, <3>2
  <2> QED
    BY <1>2, <1>6, <2>1, <2>2 DEF SellsStored
<1>7. CASE /\ ConfirmWrite(z) /\ sale'[z].stage = "confirm"
           /\ \/ sale'[z].sold = sale[z].sold
              \/ sale'[z].sold = sale[z].sold \cup {transfer[sale[z].at].batch}
  <2>1. /\ transfer[sale[z].at].batch \in Batches
        /\ WasStored(transfer[sale[z].at].batch)
    BY <1>1, <1>7 DEF ConfirmWrite, SaleOK, SellsStored
  <2> QED
    BY <1>2, <1>7, <2>1 DEF SellsStored
<1> QED
  BY <1>3, <1>4, <1>5, <1>6, <1>7, SaleWriters DEF SlotMoves, QuietStage

\* A step of Sales undoes no transfer.
LEMMA StepKept ==
  ASSUME SalesInv, [SalesNext]_allVars
  PROVE  Kept
<1>1. ASSUME NEW b \in Singles, Initiate(b) PROVE Kept
  <2>1. PICK t \in Unused : transfer' = [transfer EXCEPT ![t].batch = b]
    BY <1>1 DEF Initiate
  <2>2. t \in Transfers /\ [transfer[t] EXCEPT !.batch = b] \in Transfer
    BY <1>1, SalesAssumption DEF Unused, SalesInv, SalesTypes, Transfer
  <2>3. /\ transfer' \in [Transfers -> Transfer]
        /\ \A u \in Transfers : u \notin Unused => transfer'[u] = transfer[u]
    BY <2>1, <2>2 DEF SalesInv, SalesTypes
  <2> QED
    BY <2>3, UnusedKept
<1>2. ASSUME NEW s \in Sellers, SellCommit(s) PROVE Kept
  <2> DEFINE M == Members[sale[s].lot]
  <2>1. M \subseteq Batches /\ transfer \in [Transfers -> Transfer]
    <3>1. sale[s].lot \in Lots
      BY <1>2 DEF SellCommit, SalesInv, SalesOK, SaleOK
    <3> QED
      BY <3>1, SalesAssumption DEF SalesInv, SalesTypes
  <2> HIDE DEF M
  <2>2. PICK id \in [M -> Unused] : transfer' = [t \in Transfers |->
          IF \E b \in M : id[b] = t
          THEN [batch |-> CHOOSE b \in M : id[b] = t, status |-> "PENDING"]
          ELSE transfer[t]]
    BY <1>2 DEF SellCommit, M
  <2>3. ASSUME NEW t \in Transfers
        PROVE  transfer'[t] \in Transfer /\ (t \notin Unused => transfer'[t] = transfer[t])
    <3>1. CASE \E b \in M : id[b] = t
      <4>1. (CHOOSE b \in M : id[b] = t) \in Batches /\ t \in Unused
        BY <2>1, <3>1
      <4> QED
        BY <2>2, <3>1, <4>1 DEF Transfer
    <3>2. CASE ~\E b \in M : id[b] = t
      BY <2>1, <2>2, <3>2
    <3> QED
      BY <3>1, <3>2
  <2>4. transfer' \in [Transfers -> Transfer]
    <3>1. DOMAIN transfer' = Transfers /\ transfer' = [t \in Transfers |-> transfer'[t]]
      BY <2>2
    <3> QED
      BY <2>3, <3>1
  <2> QED
    BY <2>3, <2>4, UnusedKept
<1>3. ASSUME NEW s \in Sellers, SaleCommit(s) PROVE Kept
  BY <1>3, CommitShows
<1>4. CASE transfer' = transfer
  BY <1>4 DEF Kept
<1> QED
  BY <1>1, <1>2, <1>3, <1>4
  DEF SalesNext, allVars, CustodyStep, saleVars, ArriveSale, ContinueSale,
      CreateLotRead, SellRead, ConfirmLotRead, ConfirmRead, CreateLotCommit, SellCheck,
      Gather, ConfirmTransfer, ConfirmLock, ConfirmWrite, AppendHandover, AppendSale,
      AbortSale

\* The steps of Sales as Custody sees them: one of its own, none, the commit of
\* a sale, or an entry of the ledger.
LEMMA SeenByCustody ==
  ASSUME [SalesNext]_allVars
  PROVE  \/ [Next]_vars
         \/ \E s \in Sellers : SaleCommit(s)
         \/ \E s \in Sellers : (\E t \in Transfers : AppendHandover(s, t)) \/ AppendSale(s)
<1>1. CASE CustodyStep
  BY <1>1 DEF CustodyStep
<1>2. CASE UNCHANGED allVars
  BY <1>2 DEF allVars, vars
<1> QED
  BY <1>1, <1>2
  DEF SalesNext, ArriveSale, ContinueSale, Initiate, CreateLotRead, SellRead,
      ConfirmLotRead, ConfirmRead, CreateLotCommit, SellCheck, SellCommit, Gather,
      ConfirmTransfer, ConfirmLock, ConfirmWrite, AbortSale

\* The commit of a sale closes rows and moves stored batches to SOLD: Custody's
\* invariant survives.
LEMMA CommitKeepsInv ==
  ASSUME SalesInv, Inv, SalesBacked, NEW s \in Sellers, SaleCommit(s)
  PROVE  Inv'
<1> DEFINE p == sale[s]
<1>1. p \in SaleSlot /\ SellsStored(p)
  BY DEF SalesInv, SalesTypes, SalesBacked
<1>2. UNCHANGED <<total, processed, ledger, whLock, req>>
  BY DEF SaleCommit
<1>3. TypeOK /\ TypeOK' /\ TypeInv'
  BY CommitKeeps DEF SalesInv, TypeInv
<1>4. ASSUME NEW i \in RowIds
      PROVE  /\ inventory'[i] = inventory[i] \/ inventory'[i] = [inventory[i] EXCEPT !.open = FALSE]
             /\ inventory'[i].batch = inventory[i].batch
             /\ inventory'[i].wh = inventory[i].wh
             /\ inventory'[i].kg = inventory[i].kg
             /\ inventory'[i].open => inventory[i].open
             /\ inventory[i] = NoRow => inventory'[i] = NoRow
  <2>1. inventory'[i] = inventory[i] \/ inventory'[i] = [inventory[i] EXCEPT !.open = FALSE]
    BY DEF SaleCommit
  <2>2. inventory[i] \in Row
    BY <1>3 DEF TypeOK
  <2> QED
    BY <1>3, <2>1, <2>2, ClosedRow DEF Row
<1>5. \A b \in Batches : status'[b] = status[b] \/ (b \in p.sold /\ status'[b] = "SOLD")
  BY DEF SaleCommit, p
<1>6. OneOpenRow'
  <2>1. \A b \in Batches : OpenRows(b)' \subseteq OpenRows(b)
    BY <1>4 DEF OpenRows
  <2> QED
    BY <2>1 DEF Inv, OneOpenRow
<1>7. RowsOwned' /\ RowsHoused' /\ RowWithinTotal' /\ StoreWithinTotal'
  <2>1. ASSUME NEW i \in RowIds, inventory'[i] # NoRow
        PROVE  /\ inventory[i] # NoRow
               /\ inventory'[i].batch = inventory[i].batch
               /\ inventory'[i].wh = inventory[i].wh
              /\ inventory'[i].kg = inventory[i].kg
    BY <1>4, <2>1
  <2> QED
    BY <1>2, <2>1 DEF Inv, RowsOwned, RowsHoused, RowWithinTotal, StoreWithinTotal
<1>8. \A b \in Batches : HasRow(b) => HasRow(b)'
  BY <1>4 DEF HasRow
<1>9. ProcessingBacked' /\ SeenProcessed'
  BY <1>1, <1>2, <1>5 DEF Inv, ProcessingBacked, SeenProcessed, SellsStored, WasStored
<1>10. StorageBacked'
  BY <1>1, <1>5, <1>8 DEF Inv, StorageBacked, SellsStored, WasStored
<1>11. SeenStored' /\ AppendsStored'
  <2>1. \A b : HasRow(b) => HasRow(b)'
    BY <1>4 DEF HasRow
  <2> QED
    BY <1>2, <2>1 DEF Inv, SeenStored, AppendsStored
<1>12. StoredEventBacked'
  BY <1>2, <1>8 DEF Inv, StoredEventBacked
<1>13. LockHeldByStore'
  BY <1>2 DEF Inv, LockHeldByStore
<1>14. MeasuredFits' /\ CapacityRespected'
  <2>1. ASSUME NEW w \in Warehouses
        PROVE  Load(w)' <= Load(w) /\ Load(w) \in Nat /\ Load(w)' \in Nat
    <3>1. \A i \in Held(inventory', w) :
            i \in Held(inventory, w) /\ inventory'[i].kg = inventory[i].kg
      BY <1>4 DEF Held
    <3>2. Load(w)' <= Load(w)
      BY <1>3, <3>1, LoadLowered
    <3>3. Load(w) \in Nat
      BY <1>3, LoadsNat
    <3>4. Load(w)' \in Nat
      <4> DEFINE S == {i \in RowIds : inventory'[i].wh = w /\ inventory'[i].open}
      <4>1. S \in SUBSET RowIds /\ inventory' \in [RowIds -> Row]
        BY <1>3 DEF TypeOK
      <4> QED
        BY <4>1, LoadNat DEF Load
    <3> QED
      BY <3>2, <3>3, <3>4
  <2>2. \A w \in Warehouses : Capacity[w] # None => Capacity[w] \in Nat
    BY CustodyAssumption
  <2>3. CapacityRespected'
    BY <2>1, <2>2 DEF Inv, CapacityRespected
  <2>4. ASSUME NEW r \in Requests, req[r].stage \in {"storeRead", "storeWrite"},
               Capacity[req[r].wh] # None
        PROVE  Load(req[r].wh)' + req[r].kg <= Capacity[req[r].wh]
    <3>1. req[r].wh \in Warehouses /\ req[r].kg \in Nat
      BY <2>4 DEF Inv, TypeInv, TypeOK, Slot, SlotsOK, Asked, StoreStage
    <3>2. Load(req[r].wh) + req[r].kg <= Capacity[req[r].wh]
      BY <2>4 DEF Inv, MeasuredFits
    <3>3. req'[r] = req[r]
      BY <1>2
    <3> QED
      BY <2>1, <2>2, <2>4, <3>1, <3>2, <3>3
  <2>5. MeasuredFits'
    BY <1>2, <2>4 DEF MeasuredFits
  <2> QED
    BY <2>3, <2>5
<1> QED
  BY <1>3, <1>6, <1>7, <1>9, <1>10, <1>11, <1>12, <1>13, <1>14 DEF Inv

\* An event of a sale is never WAREHOUSE_STORED.
LEMMA AppendKeepsInv ==
  ASSUME SalesInv, Inv, NEW s \in Sellers,
         (\E t \in Transfers : AppendHandover(s, t)) \/ AppendSale(s)
  PROVE  Inv'
<1>1. UNCHANGED <<status, total, processed, inventory, whLock, req>>
  BY DEF AppendHandover, AppendSale
<1>2. TypeInv'
  BY AppendsKeep DEF SalesInv
<1>3. \A b \in Batches : "WAREHOUSE_STORED" \in ledger'[b] => "WAREHOUSE_STORED" \in ledger[b]
  <2>1. ledger \in [Batches -> SUBSET Event]
    BY DEF Inv, TypeInv, TypeOK
  <2>2. CASE \E t \in Transfers : AppendHandover(s, t)
    BY <2>1, <2>2 DEF AppendHandover
  <2>3. CASE AppendSale(s)
    <3> DEFINE b == transfer[sale[s].at].batch
    <3>1. PICK priced \in BOOLEAN :
            ledger' = [ledger EXCEPT ![b] =
                         IF priced THEN @ \cup {"SALE_RECORDED"} ELSE @]
      BY <2>3 DEF AppendSale
    <3> HIDE DEF b
    <3> QED
      BY <2>1, <3>1
  <2> QED
    BY <2>2, <2>3
<1>4. StoredEventBacked'
  BY <1>1, <1>3 DEF Inv, StoredEventBacked, HasRow
<1>5. MeasuredFits' /\ CapacityRespected'
  BY <1>1 DEF Inv, MeasuredFits, CapacityRespected, Load
<1> QED
  BY <1>1, <1>2, <1>4, <1>5
  DEF Inv, OneOpenRow, OpenRows, RowsOwned, RowsHoused, RowWithinTotal,
      StoreWithinTotal,
      ProcessingBacked, SeenProcessed, StorageBacked, SeenStored, AppendsStored,
      LockHeldByStore, HasRow

\* Custody's invariant is Sales' as well.
BothInv == SalesInv /\ Inv /\ SalesBacked

LEMMA BothInvInit == SalesInit => BothInv
<1>1. SalesInit => Init
  BY DEF SalesInit
<1>2. SalesInit => SalesBacked
  BY DEF SalesInit, SalesBacked, SellsStored, NoSale
<1> QED
  BY <1>1, <1>2, SalesInvInit, InvInit DEF BothInv

LEMMA BothInvStep == BothInv /\ [SalesNext]_allVars => BothInv'
<1> SUFFICES ASSUME SalesInv, Inv, SalesBacked, [SalesNext]_allVars PROVE BothInv'
  BY DEF BothInv
<1>1. SalesInv'
  BY SalesInvStep
<1>2. Inv'
  BY SeenByCustody, InvStep, CommitKeepsInv, AppendKeepsInv
<1>3. \A b \in Batches : WasStored(b) => WasStored(b)'
  <2>1. CASE [Next]_vars
    BY <2>1, NothingTakenBack, RowsStay DEF Inv, WasStored
  <2>2. ASSUME NEW s \in Sellers, SaleCommit(s)
        PROVE  \A b \in Batches : WasStored(b) => WasStored(b)'
    <3>1. processed' = processed
      BY <2>2 DEF SaleCommit
    <3>2. \A i \in RowIds : inventory'[i].batch = inventory[i].batch
      BY <2>2, ClosedRow DEF SaleCommit, SalesInv, TypeInv
    <3> QED
      BY <3>1, <3>2 DEF WasStored, HasRow
  <2>3. CASE UNCHANGED <<processed, inventory>>
    BY <2>3 DEF WasStored, HasRow
  <2> QED
    BY <2>1, <2>2, <2>3, SeenByCustody DEF AppendHandover, AppendSale
<1>4. SalesBacked'
  BY <1>3, StepKept, SalesBackedStep
<1> QED
  BY <1>1, <1>2, <1>4 DEF BothInv

-----------------------------------------------------------------------------
(* One request at a time, of Custody and of Sales. *)

\* What the one sale in flight may rely on: nobody else confirms a transfer,
\* appends an event, opens a row or writes a status while it runs.
AloneOK(q) ==
  q.stage # "idle" =>
    /\ \A t \in q.locked : transfer[t].status = "PENDING"
    /\ q.stage \in {"confirmLock", "confirmWrite"} => transfer[q.at].status = "PENDING"
    /\ q.stage = "append" => \A t \in q.todo : handovers[t] = 0
    /\ \A b \in q.sold : OpenRows(b) \subseteq q.closed
    /\ \A b \in q.sold : CanTransition(status[b], "SOLD")
    /\ q.stage = "confirmWrite" => CanTransition(status[transfer[q.at].batch], "SOLD")

\* A confirmed transfer is of some batch.
ConfirmedHasBatch ==
  \A t \in Transfers : transfer[t].status = "CONFIRMED" => transfer[t].batch \in Batches

SerialInv ==
  /\ BothInv /\ OneAtATime
  /\ Fresh /\ \A s \in Sellers : AloneOK(sale[s])
  /\ ConfirmedHasBatch /\ ConfirmedStaysSold /\ HandoverOnce /\ OpenRowInStorage

\* While a sale is in flight a step is its own, or touches nothing it reads.
LEMMA SaleAlone ==
  ASSUME SalesInv, OneAtATime, OneAtATime', [SalesNext]_allVars,
         NEW z \in Sellers, sale'[z].stage # "idle"
  PROVE  \/ ArriveSale(z) \/ ContinueSale(z)
         \/ /\ sale'[z] = sale[z]
            /\ UNCHANGED <<status, inventory, handovers>>
            /\ \A t \in Transfers : transfer'[t].status = transfer[t].status
<1>types. /\ sale \in [Sellers -> SaleSlot] /\ transfer \in [Transfers -> Transfer]
          /\ req \in [Requests -> Slot]
  BY DEF SalesInv, SalesTypes, TypeInv, TypeOK
<1>1. CASE CustodyStep
  <2>1. sale' = sale /\ transfer' = transfer /\ handovers' = handovers /\ Next
    BY <1>1 DEF CustodyStep, saleVars
  <2>2. \A r \in Requests : req[r].stage = "idle" /\ req'[r].stage = "idle"
    BY <2>1 DEF OneAtATime
  <2>3. ASSUME NEW r \in Requests, Arrive(r) PROVE FALSE
    BY <2>2, <2>3, ReadSlot DEF Arrive, SalesInv
  <2>4. ASSUME NEW r \in Requests, Continue(r) PROVE FALSE
    BY <2>2, <2>4 DEF Continue, StatusCommit, ProcessKeepStatus, ProcessStart,
       ProcessCommit, StoreMeasure, StoreReadStatus, StoreCommit, RemoveCommit,
       AppendEvent, Abort
  <2>5. UNCHANGED <<status, inventory>>
    BY <2>1, <2>3, <2>4 DEF Next, AddWeight
  <2> QED
    BY <2>1, <2>5
<1>2. ASSUME NEW b \in Singles, Initiate(b)
      PROVE  /\ sale'[z] = sale[z] /\ UNCHANGED <<status, inventory, handovers>>
             /\ \A t \in Transfers : transfer'[t].status = transfer[t].status
  <2>1. PICK t \in Unused : transfer' = [transfer EXCEPT ![t].batch = b]
    BY <1>2 DEF Initiate
  <2>2. \A u \in Transfers : transfer'[u].status = transfer[u].status
    BY <1>types, <2>1 DEF Transfer
  <2> QED
    BY <1>2, <2>2 DEF Initiate, vars
<1>3. ASSUME NEW s \in Sellers, s # z, ArriveSale(s) PROVE FALSE
  <2>1. sale'[s].stage # "idle" /\ sale' = [sale EXCEPT ![s] = sale'[s]]
    BY <1>3, <1>types DEF ArriveSale, CreateLotRead, SellRead, ConfirmLotRead,
       ConfirmRead, NoSale
  <2> QED
    BY <1>3, <2>1 DEF OneAtATime
<1>4. ASSUME NEW s \in Sellers, s # z, ContinueSale(s) PROVE FALSE
  <2>1. sale[s].stage # "idle"
    BY <1>4 DEF ContinueSale, CreateLotCommit, SellCheck, SellCommit, Gather,
       ConfirmTransfer, ConfirmLock, ConfirmWrite, SaleCommit, AppendHandover,
       AppendSale, AbortSale
  <2>2. sale'[z] = sale[z]
    BY <1>4, <1>types DEF ContinueSale, CreateLotCommit, SellCheck, SellCommit, Gather,
       ConfirmTransfer, ConfirmLock, ConfirmWrite, SaleCommit, AppendHandover,
       AppendSale, AbortSale, SaleStep, EndSale
  <2> QED
    BY <1>4, <2>1, <2>2 DEF OneAtATime
<1>5. CASE UNCHANGED allVars
  BY <1>5 DEF allVars
<1> QED
  BY <1>1, <1>2, <1>3, <1>4, <1>5 DEF SalesNext

\* The one sale keeps what it relies on.
LEMMA AloneStep ==
  ASSUME SerialInv, OneAtATime', [SalesNext]_allVars, NEW z \in Sellers
  PROVE  AloneOK(sale[z])'
<1> SUFFICES ASSUME sale'[z].stage # "idle"
             PROVE  AloneOK(sale[z])'
  BY DEF AloneOK
<1>1. /\ SalesInv /\ OneAtATime /\ AloneOK(sale[z])
      /\ sale[z] \in SaleSlot /\ SaleOK(sale[z])
      /\ handovers \in [Transfers -> Nat]
  BY DEF SerialInv, BothInv, SalesInv, SalesTypes, SalesOK
\* Whatever the step, it opens no row and confirms no transfer but by a commit.
<1>2. CASE /\ sale'[z] = sale[z] /\ UNCHANGED <<status, inventory, handovers>>
           /\ \A t \in Transfers : transfer'[t].status = transfer[t].status
  <2>1. sale[z].locked \subseteq Transfers /\ sale[z].todo \subseteq Transfers
    BY <1>1 DEF SaleSlot
  <2>2. sale[z].stage \in {"confirmLock", "confirmWrite"} => sale[z].at \in Transfers
    BY <1>1 DEF SaleOK
  <2>3. sale[z].stage = "confirmWrite" =>
          transfer'[sale[z].at].batch = transfer[sale[z].at].batch
    BY <1>1, StepKept DEF SaleOK, Kept
  <2> QED
    BY <1>1, <1>2, <2>1, <2>2, <2>3 DEF AloneOK, OpenRows, CanTransition
<1>3. CASE ArriveSale(z) \/ ContinueSale(z)
  <2>1. CASE NoWrites(sale'[z]) /\ sale'[z].stage \in QuietStage \cup {"confirm"}
    BY <2>1 DEF NoWrites, QuietStage, AloneOK
  <2>2. CASE SaleCommit(z) /\ NoWrites(sale'[z]) /\ sale'[z].stage = "append"
             /\ sale'[z].todo = sale[z].locked
    <3>1. sale[z].stage # "idle" /\ handovers' = handovers
      BY <2>2 DEF SaleCommit
    <3>2. \A t \in sale[z].locked : t \in Transfers /\ transfer[t].status = "PENDING"
      BY <1>1, <3>1 DEF AloneOK, SaleSlot
    <3>3. \A t \in sale[z].locked : handovers[t] = 0
      BY <1>1, <3>2 DEF SalesInv, HandoverBacked
    <3> QED
      BY <2>2, <3>1, <3>3 DEF NoWrites, AloneOK
  <2>3. ASSUME sale[z].stage # "idle", UNCHANGED <<transfer, status, inventory>>,
               sale'[z].locked = sale[z].locked, SameWrites(sale'[z], sale[z]),
               sale'[z].stage \notin {"confirmLock", "confirmWrite", "append"}
        PROVE  AloneOK(sale[z])'
    BY <1>1, <2>3 DEF AloneOK, SameWrites, OpenRows, CanTransition
  <2>4. CASE /\ SameWrites(sale'[z], sale[z])
             /\ \/ SellCheck(z) /\ sale'[z].stage = "sellWrite"
                \/ Gather(z) /\ sale'[z].stage = "confirm"
    BY <2>3, <2>4 DEF SellCheck, Gather, vars, SameWrites
  <2>5. CASE SameWrites(sale'[z], sale[z]) /\ sale'[z].stage = "confirmLock"
             /\ ConfirmTransfer(z, sale'[z].at)
    <3>1. /\ sale[z].stage = "confirm" /\ UNCHANGED <<transfer, status, inventory>>
          /\ transfer[sale'[z].at].status = "PENDING"
      BY <2>5 DEF ConfirmTransfer, vars
    <3> QED
      BY <1>1, <2>5, <3>1 DEF AloneOK, SameWrites, OpenRows, CanTransition
  <2>6. CASE /\ ConfirmLock(z) /\ sale'[z].stage = "confirmWrite"
             /\ sale'[z].locked = sale[z].locked \cup {sale[z].at}
             /\ sale'[z].sold = sale[z].sold /\ sale'[z].closed = sale[z].closed
             /\ sale'[z].at = sale[z].at
    <3>1. sale[z].stage = "confirmLock" /\ UNCHANGED <<transfer, status, inventory>>
      BY <2>6 DEF ConfirmLock, vars
    <3>2. CanTransition(status[transfer[sale[z].at].batch], "SOLD")
      BY <1>1, <2>6, <3>1 DEF ConfirmLock, AloneOK
    <3> QED
      BY <1>1, <2>6, <3>1, <3>2 DEF AloneOK, OpenRows, CanTransition
  <2>7. CASE /\ ConfirmWrite(z) /\ sale'[z].stage = "confirm"
             /\ sale'[z].locked = sale[z].locked
             /\ \/ sale'[z].sold = sale[z].sold /\ sale'[z].closed = sale[z].closed
                \/ /\ sale'[z].sold = sale[z].sold \cup {transfer[sale[z].at].batch}
                   /\ sale'[z].closed =
                        sale[z].closed \cup OpenRows(transfer[sale[z].at].batch)
    <3>1. sale[z].stage = "confirmWrite" /\ UNCHANGED <<transfer, status, inventory>>
      BY <2>7 DEF ConfirmWrite, vars
    <3>2. \A b : OpenRows(b)' = OpenRows(b)
      BY <3>1 DEF OpenRows
    <3>3. /\ \A t \in sale[z].locked : transfer'[t].status = "PENDING"
          /\ \A b \in sale[z].sold : OpenRows(b) \subseteq sale[z].closed
      BY <1>1, <3>1 DEF AloneOK
    <3>4. \A b \in sale'[z].sold : OpenRows(b) \subseteq sale'[z].closed
      BY <2>7, <3>3
    <3>5. \A b \in sale'[z].sold : OpenRows(b)' \subseteq sale'[z].closed
      BY <3>2, <3>4
    <3>6. \A b \in sale'[z].sold : CanTransition(status'[b], "SOLD")
      BY <1>1, <2>7, <3>1 DEF AloneOK
    <3> QED
      BY <2>7, <3>3, <3>5, <3>6 DEF AloneOK, CanTransition
  <2>8. ASSUME SameWrites(sale'[z], sale[z]), sale'[z].stage = "append",
               \/ AppendSale(z) /\ sale'[z].todo = sale[z].todo
               \/ \E t \in Transfers :
                    AppendHandover(z, t) /\ sale'[z].todo = sale[z].todo \ {t}
        PROVE  AloneOK(sale[z])'
    <3>1. sale[z].stage = "append" /\ UNCHANGED <<transfer, status, inventory>>
      BY <2>8 DEF AppendSale, AppendHandover
    <3>2. \A t \in sale'[z].todo : handovers'[t] = 0
      <4>1. sale[z].todo \subseteq Transfers /\ \A t \in sale[z].todo : handovers[t] = 0
        BY <1>1, <3>1 DEF AloneOK, SaleSlot
      <4> QED
        BY <1>1, <2>8, <4>1 DEF AppendSale, AppendHandover
    <3> QED
      BY <1>1, <2>8, <3>1, <3>2 DEF AloneOK, SameWrites, OpenRows, CanTransition
  <2>9. sale'[z].stage # sale[z].stage \/ sale'[z].at # sale[z].at
    <3>1. sale \in [Sellers -> SaleSlot]
      BY <1>1 DEF SalesInv, SalesTypes
    <3>2. CASE ArriveSale(z)
      BY <3>1, <3>2 DEF ArriveSale, CreateLotRead, SellRead, ConfirmLotRead,
         ConfirmRead, NoSale
    <3>3. CASE \E t \in Transfers : AppendHandover(z, t)
      BY <1>1, <3>1, <3>3, SalesAssumption DEF AppendHandover, SaleSlot
    <3>4. CASE AppendSale(z)
      BY <1>1, <3>1, <3>4 DEF AppendSale, SaleSlot, NoSale
    <3>5. CASE CreateLotCommit(z) \/ SellCommit(z) \/ AbortSale(z)
      BY <3>1, <3>5 DEF CreateLotCommit, SellCommit, AbortSale, EndSale, NoSale
    <3>6. CASE \/ SellCheck(z) \/ Gather(z) \/ ConfirmLock(z) \/ ConfirmWrite(z)
               \/ \E t \in Transfers : ConfirmTransfer(z, t)
      BY <1>1, <3>1, <3>6 DEF SellCheck, SaleStep, Gather, ConfirmLock, ConfirmWrite,
         ConfirmTransfer, SaleSlot
    <3>7. CASE SaleCommit(z)
      BY <3>1, <3>7 DEF SaleCommit, NoSale
    <3> QED
      BY <1>3, <3>2, <3>3, <3>4, <3>5, <3>6, <3>7 DEF ContinueSale
  <2> QED
    <3>1. SlotMoves(z)
      BY <1>1, SaleWriters
    <3>2. sale'[z] # sale[z]
      BY <2>9
    <3> QED
      BY <2>1, <2>2, <2>4, <2>5, <2>6, <2>7, <2>8, <3>1, <3>2 DEF SlotMoves
<1> QED
  BY <1>1, <1>2, <1>3, SaleAlone

\* While a sale is in flight no request of Custody is.
LEMMA FreshKept ==
  ASSUME SerialInv, OneAtATime', [SalesNext]_allVars
  PROVE  Fresh'
<1>1. CASE [Next]_vars
  BY <1>1, FreshStep DEF SerialInv, BothInv, SalesInv, OneAtATime, Alone
<1>2. ASSUME NEW s \in Sellers, sale[s].stage # "idle", req' = req PROVE Fresh'
  BY <1>2 DEF SerialInv, OneAtATime, Fresh
<1> QED
  BY <1>1, <1>2, SeenByCustody DEF SaleCommit, AppendHandover, AppendSale

\* Nobody takes a batch out of SOLD but the endpoint that exports it.
LEMMA GoneStays ==
  ASSUME TypeInv, Fresh, [Next]_vars, NEW b \in Batches, status[b] \in Gone
  PROVE  status'[b] \in Gone
<1> USE DEF Gone
<1>1. status \in [Batches -> Status]
  BY DEF TypeInv, TypeOK
<1>2. ASSUME NEW r \in Requests, StatusCommit(r), status'[b] # status[b]
      PROVE  status'[b] \in Gone
  <2>1. /\ req[r].batch = b /\ req[r].seen = status[b] /\ status'[b] = req[r].target
        /\ req[r].target \in AllowedTransitions[status[b]]
    BY <1>1, <1>2 DEF StatusCommit, WriteTransition, Fresh, TypeInv, SlotsOK, Asked, Allowed
  <2> QED
    BY <2>1 DEF AllowedTransitions, Status
<1>3. ASSUME NEW r \in Requests, ProcessCommit(r), status'[b] # status[b]
      PROVE  FALSE
  BY <1>1, <1>3 DEF ProcessCommit, WriteTransition, Fresh, TypeInv, SlotsOK, Asked, Allowed
<1>4. ASSUME NEW r \in Requests, StoreCommit(r), status'[b] # status[b]
      PROVE  FALSE
  BY <1>1, <1>4 DEF StoreCommit, Fresh, TypeInv, SlotsOK, Asked, Allowed
<1> QED
  BY <1>2, <1>3, <1>4, StatusWriters

\* A transfer becomes CONFIRMED in the commit of a sale that has it locked.
LEMMA NewlyConfirmed ==
  ASSUME SalesInv, [SalesNext]_allVars, NEW t \in Transfers,
         transfer'[t].status = "CONFIRMED", transfer[t].status # "CONFIRMED"
  PROVE  \E s \in Sellers : SaleCommit(s) /\ t \in sale[s].locked
<1>1. transfer \in [Transfers -> Transfer]
  BY DEF SalesInv, SalesTypes
<1>2. ASSUME NEW s \in Sellers, SaleCommit(s) PROVE t \in sale[s].locked
  BY <1>1, <1>2 DEF SaleCommit
<1>3. ASSUME NEW c \in Singles, Initiate(c) PROVE FALSE
  BY <1>1, <1>3 DEF Initiate, Transfer
<1>4. ASSUME NEW s \in Sellers, SellCommit(s) PROVE FALSE
  BY <1>4 DEF SellCommit
<1>5. CASE transfer' = transfer
  BY <1>5
<1> QED
  BY <1>2, <1>3, <1>4, <1>5
  DEF SalesNext, allVars, CustodyStep, saleVars, ArriveSale, ContinueSale,
      CreateLotRead, SellRead, ConfirmLotRead, ConfirmRead, CreateLotCommit, SellCheck,
      Gather, ConfirmTransfer, ConfirmLock, ConfirmWrite, AppendHandover, AppendSale,
      AbortSale

\* A commit writes SOLD what it has sold, and finds the rest of what it
\* confirms sold before.
LEMMA StaysSoldStep ==
  ASSUME SerialInv, [SalesNext]_allVars
  PROVE  ConfirmedHasBatch' /\ ConfirmedStaysSold'
<1> SUFFICES ASSUME NEW t \in Transfers, transfer'[t].status = "CONFIRMED"
             PROVE  transfer'[t].batch \in Batches /\ status'[transfer'[t].batch] \in Gone
  BY DEF ConfirmedHasBatch, ConfirmedStaysSold, Gone
<1>1. /\ SalesInv /\ TypeInv /\ Fresh /\ Kept
      /\ ConfirmedHasBatch /\ ConfirmedStaysSold
  BY StepKept DEF SerialInv, BothInv, SalesInv
<1>2. ASSUME NEW b \in Batches, status[b] \in Gone PROVE status'[b] \in Gone
  <2>1. CASE [Next]_vars
    BY <1>1, <1>2, <2>1, GoneStays
  <2>2. ASSUME NEW s \in Sellers, SaleCommit(s) PROVE status'[b] \in Gone
    BY <1>2, <2>2 DEF SaleCommit, Gone
  <2>3. CASE status' = status
    BY <1>2, <2>3
  <2> QED
    BY <2>1, <2>2, <2>3, SeenByCustody DEF AppendHandover, AppendSale
<1>3. CASE transfer[t].status = "CONFIRMED"
  BY <1>1, <1>2, <1>3 DEF ConfirmedHasBatch, ConfirmedStaysSold, Gone, Kept
<1>4. CASE transfer[t].status # "CONFIRMED"
  <2>1. PICK s \in Sellers : SaleCommit(s) /\ t \in sale[s].locked
    BY <1>1, <1>4, NewlyConfirmed
  <2>2. /\ SaleOK(sale[s]) /\ sale[s].stage = "confirm"
    BY <1>1, <2>1 DEF SalesInv, SalesOK, SaleCommit
  <2>3. transfer[t].batch \in Batches /\ transfer'[t].batch = transfer[t].batch
    BY <1>1, <2>1, <2>2 DEF SaleOK, Kept
  <2>4. CASE transfer[t].batch \in sale[s].sold
    BY <2>1, <2>3, <2>4 DEF SaleCommit, Gone
  <2>5. CASE transfer[t].batch \in SoldOff
    <3>1. PICK u \in Transfers :
            transfer[u].batch = transfer[t].batch /\ transfer[u].status = "CONFIRMED"
      BY <2>5 DEF SoldOff, ConfirmedOf
    <3>2. status[transfer[t].batch] \in Gone
      BY <1>1, <3>1 DEF ConfirmedStaysSold, Gone
    <3> QED
      BY <1>2, <2>3, <3>2
  <2> QED
    BY <2>1, <2>2, <2>3, <2>4, <2>5 DEF SaleOK
<1> QED
  BY <1>3, <1>4

\* The events of a transfer are appended by the sale that confirmed it alone.
LEMMA HandoverStep ==
  ASSUME SerialInv, [SalesNext]_allVars
  PROVE  HandoverOnce'
<1>1. /\ handovers \in [Transfers -> Nat] /\ HandoverOnce
      /\ \A s \in Sellers : AloneOK(sale[s])
  BY DEF SerialInv, BothInv, SalesInv, SalesTypes
<1>2. ASSUME NEW s \in Sellers, NEW t \in Transfers, AppendHandover(s, t)
      PROVE  HandoverOnce'
  <2>1. handovers[t] = 0
    BY <1>1, <1>2 DEF AppendHandover, AloneOK
  <2>2. handovers' = [handovers EXCEPT ![t] = @ + 1]
    BY <1>2 DEF AppendHandover
  <2> QED
    BY <1>1, <2>1, <2>2 DEF HandoverOnce
<1>3. CASE handovers' = handovers
  BY <1>1, <1>3 DEF HandoverOnce
<1> QED
  BY <1>2, <1>3
  DEF SalesNext, allVars, CustodyStep, saleVars, Initiate, ArriveSale, ContinueSale,
      CreateLotRead, SellRead, ConfirmLotRead, ConfirmRead, CreateLotCommit, SellCheck,
      SellCommit, Gather, ConfirmTransfer, ConfirmLock, ConfirmWrite, SaleCommit,
      AppendSale, AbortSale

\* A sale closes the rows of what it sells: nobody has opened one since it
\* looked.
LEMMA StorageStep ==
  ASSUME SerialInv, [SalesNext]_allVars
  PROVE  OpenRowInStorage'
<1>1. /\ TypeInv /\ TypeOK /\ Fresh /\ OpenRowInStorage
      /\ \A s \in Sellers : AloneOK(sale[s])
  BY DEF SerialInv, BothInv, SalesInv, TypeInv
<1>2. CASE [Next]_vars
  BY <1>1, <1>2, StockStep
<1>3. ASSUME NEW s \in Sellers, SaleCommit(s) PROVE OpenRowInStorage'
  <2> SUFFICES ASSUME NEW b \in Batches, NEW i \in RowIds,
                      inventory'[i].batch = b, inventory'[i].open
               PROVE  status'[b] = "IN_STORAGE"
    BY DEF OpenRowInStorage, OpenRows
  <2>1. i \notin sale[s].closed /\ inventory'[i] = inventory[i]
    BY <1>1, <1>3, ClosedRow DEF SaleCommit
  <2>2. i \in OpenRows(b)
    BY <2>1 DEF OpenRows
  <2>3. b \notin sale[s].sold
    BY <1>1, <1>3, <2>1, <2>2 DEF SaleCommit, AloneOK
  <2> QED
    BY <1>1, <1>3, <2>2, <2>3 DEF SaleCommit, OpenRowInStorage
<1>4. CASE UNCHANGED <<status, inventory>>
  BY <1>1, <1>4 DEF OpenRowInStorage, OpenRows
<1> QED
  BY <1>2, <1>3, <1>4, SeenByCustody DEF AppendHandover, AppendSale

LEMMA SerialInit == SalesInit => SerialInv
<1> SUFFICES ASSUME SalesInit PROVE SerialInv
  OBVIOUS
<1>1. BothInv /\ Init
  BY BothInvInit DEF SalesInit
<1>2. OneAtATime
  BY <1>1 DEF SalesInit, Init, OneAtATime, Idle, NoSale
<1>3. Fresh /\ OpenRowInStorage
  BY <1>1 DEF Init, Fresh, Idle, OpenRowInStorage, OpenRows, NoRow
<1>4. /\ \A s \in Sellers : AloneOK(sale[s])
      /\ ConfirmedHasBatch /\ ConfirmedStaysSold /\ HandoverOnce
  BY DEF SalesInit, AloneOK, NoSale, ConfirmedHasBatch, ConfirmedStaysSold, NoTransfer,
     HandoverOnce
<1> QED
  BY <1>1, <1>2, <1>3, <1>4 DEF SerialInv

LEMMA SerialStep == SerialInv /\ [SalesNext /\ OneAtATime']_allVars => SerialInv'
<1> SUFFICES ASSUME SerialInv, [SalesNext /\ OneAtATime']_allVars PROVE SerialInv'
  OBVIOUS
<1>1. [SalesNext]_allVars /\ OneAtATime'
  BY DEF SerialInv, OneAtATime, allVars
<1>2. BothInv'
  BY <1>1, BothInvStep DEF SerialInv
<1> QED
  BY <1>1, <1>2, FreshKept, AloneStep, StaysSoldStep, HandoverStep, StorageStep
  DEF SerialInv

-----------------------------------------------------------------------------
(* The books, read between two requests. *)

\* The rows that are in a warehouse, and the batches they are of.
Stored == {j \in RowIds : inventory[j].open}
InStore == {b \in Batches : OpenRows(b) # {}}

\* A stored row is of a batch that is in storage, lies in a warehouse and is
\* no heavier than its batch.
LEMMA StoredRows ==
  ASSUME SerialInv
  PROVE  /\ IsFiniteSet(Stored) /\ IsFiniteSet(InStore)
         /\ \A i \in Stored :
              /\ inventory[i].batch \in InStore
              /\ status[inventory[i].batch] = "IN_STORAGE"
              /\ inventory[i].wh \in Warehouses
              /\ inventory[i].kg \in Nat
              /\ inventory[i].kg <= total[inventory[i].batch]
         /\ \A i, j \in Stored : inventory[i].batch = inventory[j].batch => i = j
<1>1. /\ inventory \in [RowIds -> Row] /\ OneOpenRow /\ OpenRowInStorage
      /\ RowsOwned /\ RowsHoused /\ RowWithinTotal
  BY DEF SerialInv, BothInv, Inv, TypeInv, TypeOK
<1>2. IsFiniteSet(Stored) /\ IsFiniteSet(InStore)
  BY CustodyAssumption, ReportsAssumption, FS_Subset DEF Stored, InStore
<1>3. ASSUME NEW i \in Stored
      PROVE  /\ inventory[i] # NoRow
             /\ inventory[i].batch \in Batches /\ i \in OpenRows(inventory[i].batch)
             /\ inventory[i].wh \in Warehouses /\ inventory[i].kg \in Nat
  BY <1>1 DEF Stored, NoRow, RowsOwned, RowsHoused, OpenRows, Row
<1>4. ASSUME NEW i \in Stored
      PROVE  /\ inventory[i].batch \in InStore
             /\ status[inventory[i].batch] = "IN_STORAGE"
             /\ inventory[i].kg <= total[inventory[i].batch]
  BY <1>1, <1>3 DEF InStore, OpenRowInStorage, RowWithinTotal, Stored
<1>5. ASSUME NEW i \in Stored, NEW j \in Stored,
             inventory[i].batch = inventory[j].batch
      PROVE  i = j
  BY <1>1, <1>3, <1>5 DEF OneOpenRow
<1> QED
  BY <1>2, <1>3, <1>4, <1>5

\* What is stored is no heavier than the batches it is of.
LEMMA StoredWeight ==
  ASSUME SerialInv
  PROVE  InStorageKg \in Nat /\ InStorageKg <= TotalKg(InStore)
<1> DEFINE kg == [i \in Stored |-> inventory[i].kg]
           ofBatch == [i \in Stored |-> inventory[i].batch]
           whole == [i \in Stored |-> total[inventory[i].batch]]
<1>1. /\ \A i \in Stored : kg[i] \in Nat /\ whole[i] \in Nat /\ kg[i] <= whole[i]
      /\ \A i \in Stored : ofBatch[i] \in InStore /\ total[ofBatch[i]] = whole[i]
      /\ \A i, j \in Stored : ofBatch[i] = ofBatch[j] => i = j
  <2>1. total \in [Batches -> Nat] /\ InStore \subseteq Batches
    BY DEF SerialInv, BothInv, SalesInv, TypeInv, TypeOK, InStore
  <2> QED
    BY <2>1, StoredRows
<1>2. \A b \in InStore : \E i \in Stored : ofBatch[i] = b
  BY DEF InStore, OpenRows, Stored
<1>3. InStorageKg = SumFunctionOnSet(kg, Stored)
  BY DEF InStorageKg, SumFunction, Stored
<1> HIDE DEF kg, ofBatch, whole
<1>4. SumFunctionOnSet(kg, Stored) \in Nat
  BY <1>1, StoredRows, SumNat
<1>5. SumFunctionOnSet(kg, Stored) <= SumFunctionOnSet(whole, Stored)
  <2>1. \A i \in Stored : kg[i] \in Int /\ whole[i] \in Int /\ kg[i] <= whole[i]
    BY <1>1
  <2> QED
    BY <2>1, StoredRows, SumLeq
<1>6. SumFunctionOnSet(total, InStore) = SumFunctionOnSet(whole, Stored)
  <2>1. \A i \in Stored : whole[i] \in Int /\ total[ofBatch[i]] = whole[i]
    BY <1>1
  <2> QED
    BY <1>1, <1>2, <2>1, StoredRows, SumRenamed
<1> QED
  BY <1>3, <1>4, <1>5, <1>6 DEF TotalKg

\* No batch is both stored and sold.
LEMMA StoredNotSold ==
  ASSUME SerialInv
  PROVE  /\ SoldOff \subseteq Batches /\ IsFiniteSet(SoldOff) /\ SoldKg = TotalKg(SoldOff)
         /\ InStore \cap SoldOff = {}
         /\ \A b \in SoldOff : status[b] \in Gone
<1>1. SoldOff \subseteq Batches /\ SoldKg = TotalKg(SoldOff)
  BY DEF SoldOff, SoldKg
<1>2. \A b \in SoldOff : status[b] \in Gone
  BY DEF SoldOff, ConfirmedOf, SerialInv, ConfirmedStaysSold, Gone
<1>3. \A b \in InStore : status[b] = "IN_STORAGE"
  BY DEF InStore, SerialInv, OpenRowInStorage
<1> QED
  BY <1>1, <1>2, <1>3, ReportsAssumption, FS_Subset DEF Gone

\* What is stored and what is sold lie apart in any set of batches that has
\* them both.
LEMMA StoredAndSold ==
  ASSUME SerialInv, NEW T \in SUBSET Batches, InStore \cup SoldOff \subseteq T
  PROVE  /\ SoldKg \in Nat /\ TotalKg(T) \in Nat
         /\ InStorageKg + SoldKg <= TotalKg(T)
<1>1. /\ \A b \in Batches : total[b] \in Nat
      /\ InStore \subseteq Batches /\ SoldOff \subseteq Batches
      /\ IsFiniteSet(T) /\ IsFiniteSet(InStore) /\ IsFiniteSet(SoldOff)
  BY ReportsAssumption, FS_Subset, StoredRows, StoredNotSold
  DEF SerialInv, BothInv, SalesInv, TypeInv, TypeOK, InStore
<1>2. TotalKg(InStore) \in Nat /\ TotalKg(SoldOff) \in Nat /\ TotalKg(T) \in Nat
  BY <1>1, SumNat DEF TotalKg
<1>3. TotalKg(InStore \cup SoldOff) = TotalKg(InStore) + TotalKg(SoldOff)
  <2>1. \A b \in InStore \cup SoldOff : total[b] \in Int
    BY <1>1
  <2> QED
    BY <1>1, <2>1, StoredNotSold, SumDisjoint DEF TotalKg
<1>4. TotalKg(InStore \cup SoldOff) <= TotalKg(T)
  <2>1. \A b \in T : total[b] \in Nat
    BY <1>1
  <2> QED
    BY <1>1, <2>1, SumPart DEF TotalKg
<1> QED
  BY <1>2, <1>3, <1>4, StoredWeight, StoredNotSold

LEMMA NoKiloTwiceHolds ==
  ASSUME SerialInv
  PROVE  NoKiloTwice
<1>1. InStore \cup SoldOff \subseteq Batches
  BY DEF InStore, SoldOff
<1> QED
  BY <1>1, StoredAndSold DEF NoKiloTwice

\* The notes and the sales of a journey say what the tables do.
LEMMA OneStoryHolds ==
  ASSUME SerialInv
  PROVE  OneStory
<1> SUFFICES ASSUME NEW b \in Batches
             PROVE  LET page == PublicTraceability(b)
                        sheet == TraceabilitySheet(b)
                        movement == BatchMovement(b)
                    IN  /\ SaysSold(page.sales) => ~SaysStored(sheet.history)
                        /\ movement.sold # {} => page.status \in {"SOLD", "EXPORTED"}
                        /\ SaysStored(movement.storage) => sheet.status = "IN_STORAGE"
  BY DEF OneStory
<1>1. ASSUME SaysStored(StorageNotes(b)) PROVE b \in InStore
  <2>1. PICK n \in StorageNotes(b) : n.note = "Currently stored"
    BY <1>1 DEF SaysStored
  <2>2. PICK i \in {j \in RowIds : inventory[j].batch = b} :
          n = [row  |-> i,
               note |-> IF inventory[i].open THEN "Currently stored" ELSE "Removed"]
    BY DEF StorageNotes
  <2>3. inventory[i].open
    BY <2>1, <2>2
  <2> QED
    BY <2>3 DEF InStore, OpenRows
<1>2. SaysSold(SalesOf(b)) => b \in SoldOff
  BY DEF SaysSold, SalesOf, SoldOff, ConfirmedOf
<1>3. ConfirmedOf(b) # {} => b \in SoldOff
  BY DEF SoldOff
<1>4. b \in InStore => status[b] = "IN_STORAGE"
  BY DEF InStore, SerialInv, OpenRowInStorage
<1>5. b \in SoldOff => b \notin InStore /\ status[b] \in {"SOLD", "EXPORTED"}
  BY StoredNotSold DEF Gone
<1> QED
  BY <1>1, <1>2, <1>3, <1>4, <1>5
  DEF PublicTraceability, TraceabilitySheet, BatchMovement

\* A share is no more than all of it, rounded half up.
LEMMA ShareRounds ==
  ASSUME NEW part \in Nat, NEW whole \in Nat, whole > 0, part <= whole
  PROVE  Rounded(part * 1000, whole) <= 1000
<1> DEFINE x == 2 * (part * 1000) + whole
           y == 2 * whole
<1>1. x \in Nat /\ y \in Nat /\ y > 0 /\ x < 1001 * y
  OBVIOUS
<1>2. Rounded(part * 1000, whole) = x \div y
  BY DEF Rounded
<1>3. x \div y \in Nat /\ (x \div y) * y <= x
  <2> HIDE DEF x, y
  <2> QED
    BY <1>1
<1>4. x \div y < 1001
  <2> HIDE DEF x, y
  <2> QED
    BY <1>1, <1>3
<1> QED
  BY <1>2, <1>3, <1>4

\* The snapshot splits what is stored by warehouse, and counts each batch in
\* storage once.
LEMMA WarehousesAddUpHolds ==
  ASSUME SerialInv
  PROVE  WarehousesAddUp
<1> DEFINE kg == [i \in RowIds |-> inventory[i].kg]
           at == [i \in RowIds |-> inventory[i].wh]
           loads == [w \in Warehouses |-> WarehouseInventorySnapshot[w].storedWeightKg]
           counts == [w \in Warehouses |-> WarehouseInventorySnapshot[w].batchesStored]
           inStorage == {b \in Batches : status[b] = "IN_STORAGE"}
<1>1. /\ Stored \in SUBSET RowIds /\ IsFiniteSet(Stored) /\ IsFiniteSet(Warehouses)
      /\ \A i \in Stored : kg[i] \in Int /\ at[i] \in Warehouses
  BY StoredRows, ReportsAssumption DEF Stored
<1>2. \A w \in Warehouses : Fibre(Stored, at, w)
                              = {i \in RowIds : inventory[i].wh = w /\ inventory[i].open}
  BY DEF Fibre, Stored
<1>3. InStorageKg = SumFunction(loads)
  <2>1. \A w \in Warehouses : loads[w] = SumFunctionOnSet(kg, Fibre(Stored, at, w))
    BY <1>2 DEF WarehouseInventorySnapshot, Load
  <2>2. InStorageKg = SumFunctionOnSet(kg, Stored)
    <3> DEFINE own == [i \in Stored |-> inventory[i].kg]
    <3>1. InStorageKg = SumFunctionOnSet(own, Stored)
      BY DEF InStorageKg, SumFunction, Stored
    <3>2. \A i \in Stored : own[i] \in Int /\ kg[i] = own[i]
      BY <1>1
    <3> HIDE DEF own, kg
    <3>3. SumFunctionOnSet(own, Stored) = SumFunctionOnSet(kg, Stored)
      BY <1>1, <3>2, SumSame
    <3> QED
      BY <3>1, <3>3
  <2>3. SumFunction(loads) = SumFunctionOnSet(loads, Warehouses)
    BY DEF SumFunction
  <2> HIDE DEF kg, at, loads
  <2>4. SumFunctionOnSet(loads, Warehouses) = SumFunctionOnSet(kg, Stored)
    BY <1>1, <2>1, SumByKey
  <2> QED
    BY <2>2, <2>3, <2>4
<1>4. BatchesByStatus["IN_STORAGE"] >= SumFunction(counts)
  <2>1. \A w \in Warehouses : counts[w] = Cardinality(Fibre(Stored, at, w))
    BY <1>2 DEF WarehouseInventorySnapshot
  <2>2. SumFunction(counts) = SumFunctionOnSet(counts, Warehouses)
    BY DEF SumFunction
  <2>3. SumFunctionOnSet(counts, Warehouses) = Cardinality(Stored)
    <3> HIDE DEF at, counts
    <3> QED
      BY <1>1, <2>1, CountByKey
  <2>4. Cardinality(Stored) <= Cardinality(inStorage)
    <3> DEFINE ofBatch == [i \in Stored |-> inventory[i].batch]
    <3>1. ofBatch \in Injection(Stored, inStorage)
      BY StoredRows DEF Injection, IsInjective, InStore
    <3>2. IsFiniteSet(inStorage)
      BY ReportsAssumption, FS_Subset
    <3> HIDE DEF ofBatch, inStorage
    <3> QED
      BY <3>1, <3>2, FS_Injection
  <2>5. BatchesByStatus["IN_STORAGE"] = Cardinality(inStorage)
    BY DEF BatchesByStatus, Status
  <2>6. Cardinality(Stored) \in Nat /\ Cardinality(inStorage) \in Nat
    BY <1>1, ReportsAssumption, FS_Subset, FS_CardinalityType
  <2> HIDE DEF inStorage, counts
  <2> QED
    BY <2>2, <2>3, <2>4, <2>5, <2>6
<1>5. ASSUME NEW w \in Warehouses, WarehouseInventorySnapshot[w].capacityUsedPct # None
      PROVE  WarehouseInventorySnapshot[w].capacityUsedPct <= 1000
  <2>1. /\ Capacity[w] # None /\ Capacity[w] # 0
        /\ WarehouseInventorySnapshot[w].capacityUsedPct = Rounded(Load(w) * 1000, Capacity[w])
    BY <1>5 DEF WarehouseInventorySnapshot
  <2>2. Capacity[w] \in Nat /\ Load(w) \in Nat /\ Load(w) <= Capacity[w]
    BY <2>1, CustodyAssumption, LoadsNat
    DEF SerialInv, BothInv, Inv, TypeInv, CapacityRespected
  <2> QED
    BY <2>1, <2>2, ShareRounds
<1> QED
  BY <1>3, <1>4, <1>5 DEF WarehousesAddUp

\* Whatever is stored or sold was processed.
LEMMA TradedWasProcessed ==
  ASSUME SerialInv
  PROVE  /\ processed \in SUBSET Batches /\ IsFiniteSet(processed)
         /\ InStore \cup SoldOff \subseteq processed
<1>1. processed \in SUBSET Batches /\ IsFiniteSet(processed)
  BY ReportsAssumption, FS_Subset DEF SerialInv, BothInv, SalesInv, TypeInv, TypeOK
<1>2. ASSUME NEW b \in Batches, status[b] \in Gone \cup {"IN_STORAGE"}
      PROVE  b \in processed
  BY <1>2 DEF SerialInv, BothInv, Inv, ProcessingBacked, PastProcessing, PastStorage, Gone
<1>3. ASSUME NEW b \in InStore PROVE b \in processed
  BY <1>2 DEF InStore, SerialInv, OpenRowInStorage
<1>4. ASSUME NEW b \in SoldOff PROVE b \in processed
  BY <1>2, StoredNotSold
<1> QED
  BY <1>1, <1>3, <1>4

\* Of the confirmed transfers, one for each batch sold weighs what the figure
\* says was sold; the rest weigh what the chart says beyond that.
LEMMA OneForEach ==
  ASSUME SerialInv
  PROVE  LET worth == [t \in Confirmed |-> total[transfer[t].batch]]
         IN  /\ IsFiniteSet(Confirmed)
             /\ \A t \in Confirmed : transfer[t].batch \in Batches /\ worth[t] \in Nat
             /\ SoldSeriesKg = SumFunctionOnSet(worth, Confirmed)
             /\ \E picked \in SUBSET Confirmed :
                  /\ \A b \in SoldOff : \E t \in picked : transfer[t].batch = b
                  /\ \A t, u \in picked : transfer[t].batch = transfer[u].batch => t = u
                  /\ SumFunctionOnSet(worth, picked) = SoldKg
<1> DEFINE once == [b \in SoldOff |-> CHOOSE t \in Confirmed : transfer[t].batch = b]
           picked == {once[b] : b \in SoldOff}
           worth == [t \in Confirmed |-> total[transfer[t].batch]]
<1>1. /\ IsFiniteSet(Confirmed) /\ IsFiniteSet(SoldOff)
      /\ \A t \in Confirmed : transfer[t].batch \in Batches
      /\ \A b \in Batches : total[b] \in Nat
      /\ SoldOff \subseteq Batches
  BY ReportsAssumption, FS_Subset, StoredNotSold
  DEF Confirmed, SerialInv, ConfirmedHasBatch, BothInv, SalesInv, TypeInv, TypeOK
<1>2. ASSUME NEW b \in SoldOff
      PROVE  once[b] \in Confirmed /\ transfer[once[b]].batch = b
  <2>1. \E t \in Confirmed : transfer[t].batch = b
    <3>1. PICK t \in Transfers : transfer[t].batch = b /\ transfer[t].status = "CONFIRMED"
      BY DEF SoldOff, ConfirmedOf
    <3>2. b # None
      BY <1>1, CustodyAssumption
    <3> QED
      BY <3>1, <3>2 DEF Confirmed
  <2> QED
    BY <2>1
<1>3. picked \in SUBSET Confirmed
  BY <1>2
<1>4. SoldSeriesKg = SumFunctionOnSet(worth, Confirmed)
  BY DEF SoldSeriesKg, SumFunction
<1>5. \A t \in Confirmed : worth[t] \in Nat
  BY <1>1
<1>6. \A b \in SoldOff : total[b] \in Int /\ worth[once[b]] = total[b]
  BY <1>1, <1>2
<1>7. /\ \A b \in SoldOff : once[b] \in picked
      /\ \A b, c \in SoldOff : once[b] = once[c] => b = c
      /\ \A t \in picked : \E b \in SoldOff : once[b] = t
  <2>1. \A b, c \in SoldOff : once[b] = once[c] => b = c
    BY <1>2
  <2> HIDE DEF once
  <2> QED
    BY <2>1
<1> HIDE DEF once, picked, worth
<1>8. IsFiniteSet(picked)
  BY <1>1, <1>3, FS_Subset
<1>9. SumFunctionOnSet(worth, picked) = SumFunctionOnSet(total, SoldOff)
  BY <1>1, <1>6, <1>7, <1>8, SumRenamed
<1>10. SumFunctionOnSet(worth, picked) = SoldKg
  BY <1>9, StoredNotSold DEF TotalKg
<1>11. \A b \in SoldOff : \E t \in picked : transfer[t].batch = b
  BY <1>2, <1>7
<1>12. \A t, u \in picked : transfer[t].batch = transfer[u].batch => t = u
  BY <1>2, <1>7
<1>13. \E P \in SUBSET Confirmed :
         /\ \A b \in SoldOff : \E t \in P : transfer[t].batch = b
         /\ \A t, u \in P : transfer[t].batch = transfer[u].batch => t = u
         /\ SumFunctionOnSet(worth, P) = SoldKg
  BY <1>3, <1>10, <1>11, <1>12
<1> QED
  BY <1>1, <1>4, <1>5, <1>13 DEF worth

\* At one price for every sale the sales ledger shows the chart's figure.
LEMMA LedgerAsCharted ==
  ASSUME SerialInv
  PROVE  SalesLedger([t \in Transfers |-> 1]).confirmedValue = SoldSeriesKg
<1> DEFINE onePrice == [t \in Transfers |-> 1]
           S == {u \in Transfers : transfer[u].batch # None
                                   /\ transfer[u].status = "CONFIRMED"}
           value == [t \in S |-> TransferValue(t, onePrice)]
           worth == [t \in Confirmed |-> total[transfer[t].batch]]
<1>1. S = Confirmed
  BY DEF Confirmed
<1>2. ASSUME NEW t \in Confirmed
      PROVE  TransferValue(t, onePrice) = total[transfer[t].batch]
  <2>1. t \in Transfers /\ total[transfer[t].batch] \in Nat
    <3>1. /\ t \in Transfers /\ transfer[t].batch \in Batches
      BY OneForEach DEF Confirmed
    <3> QED
      BY <3>1 DEF SerialInv, BothInv, SalesInv, TypeInv, TypeOK
  <2>2. 1 # None
    BY CustodyAssumption
  <2>3. onePrice[t] = 1
    BY <2>1
  <2> HIDE DEF onePrice
  <2> QED
    BY <2>1, <2>2, <2>3 DEF TransferValue
<1>3. value = worth
  BY <1>1, <1>2
<1>4. SalesLedger(onePrice).confirmedValue = SumFunction(value)
  BY DEF SalesLedger, LedgerTotal
<1> QED
  BY <1>3, <1>4 DEF SoldSeriesKg

\* The chart and the figure differ by the transfers beyond the first of each
\* batch: by nothing just when these weigh nothing.
LEMMA OneFigureHolds ==
  ASSUME SerialInv
  PROVE  OneFigure
<1> DEFINE worth == [t \in Confirmed |-> total[transfer[t].batch]]
<1>1. /\ IsFiniteSet(Confirmed)
      /\ \A t \in Confirmed : transfer[t].batch \in Batches /\ worth[t] \in Nat
      /\ SoldSeriesKg = SumFunctionOnSet(worth, Confirmed)
  BY OneForEach
<1>2. PICK picked \in SUBSET Confirmed :
        /\ \A b \in SoldOff : \E t \in picked : transfer[t].batch = b
        /\ \A t, u \in picked : transfer[t].batch = transfer[u].batch => t = u
        /\ SumFunctionOnSet(worth, picked) = SoldKg
  BY OneForEach
<1> DEFINE rest == Confirmed \ picked
<1>3. /\ IsFiniteSet(rest) /\ IsFiniteSet(picked)
      /\ \A t \in rest : t \in Confirmed /\ worth[t] \in Nat
      /\ \A t \in picked : t \in Confirmed /\ worth[t] \in Nat
      /\ picked \cup rest = Confirmed /\ picked \cap rest = {}
  BY <1>1, <1>2, FS_Subset
<1>4. \A t \in Confirmed : worth[t] = total[transfer[t].batch]
  OBVIOUS
<1> HIDE DEF worth
<1>5. SoldSeriesKg = SoldKg + SumFunctionOnSet(worth, rest)
  <2>1. \A t \in picked \cup rest : worth[t] \in Int
    BY <1>3
  <2>2. SumFunctionOnSet(worth, picked \cup rest)
          = SumFunctionOnSet(worth, picked) + SumFunctionOnSet(worth, rest)
    BY <1>3, <2>1, SumDisjoint
  <2> QED
    BY <1>1, <1>2, <1>3, <2>2
<1>6. /\ SumFunctionOnSet(worth, rest) \in Nat
      /\ SumFunctionOnSet(worth, rest) = 0 <=> \A t \in rest : worth[t] = 0
  BY <1>3, SumNat, SumZero
<1>7. SoldKg \in Nat
  BY <1>2, <1>3, SumNat
<1>8. SoldSeriesKg = SoldKg <=> \A t \in rest : worth[t] = 0
  BY <1>5, <1>6, <1>7
<1>9. \A b \in Batches : \A t \in ConfirmedOf(b) :
        t \in Confirmed /\ transfer[t].batch = b /\ b \in SoldOff
  <2>1. None \notin Batches
    BY CustodyAssumption
  <2> QED
    BY <2>1 DEF ConfirmedOf, Confirmed, SoldOff
<1>10. \A t \in Confirmed : t \in ConfirmedOf(transfer[t].batch)
  BY DEF Confirmed, ConfirmedOf
<1>11. \A b \in Batches : total[b] \in Nat
  BY DEF SerialInv, BothInv, SalesInv, TypeInv, TypeOK
<1>12. ASSUME \A t \in rest : worth[t] = 0,
              NEW b \in Batches, total[b] > 0,
              NEW t \in ConfirmedOf(b), NEW u \in ConfirmedOf(b)
       PROVE  t = u
  <2>1. t \notin rest /\ u \notin rest
    BY <1>4, <1>9, <1>11, <1>12
  <2>2. t \in picked /\ u \in picked
    BY <1>9, <2>1
  <2> QED
    BY <1>2, <1>9, <2>2
<1>13. ASSUME \A b \in Batches : total[b] > 0 => \A t, u \in ConfirmedOf(b) : t = u,
              NEW t \in rest
       PROVE  worth[t] = 0
  <2>1. t \in Confirmed /\ t \notin picked /\ transfer[t].batch \in Batches
    BY <1>1
  <2>2. t \in ConfirmedOf(transfer[t].batch) /\ transfer[t].batch \in SoldOff
    BY <1>9, <1>10, <2>1
  <2>3. PICK u \in picked : transfer[u].batch = transfer[t].batch
    BY <1>2, <2>2
  <2>4. u \in ConfirmedOf(transfer[t].batch) /\ u # t
    BY <1>3, <1>10, <2>1, <2>3
  <2>5. ~(total[transfer[t].batch] > 0)
    BY <1>13, <2>1, <2>2, <2>4
  <2> QED
    BY <1>4, <1>11, <2>1, <2>5
<1>14. SoldSeriesKg = SoldKg <=>
         \A b \in Batches : total[b] > 0 => \A t, u \in ConfirmedOf(b) : t = u
  BY <1>8, <1>12, <1>13
<1> QED
  BY <1>14, LedgerAsCharted DEF OneFigure

\* What the chart calls processed and the yield report lost is, record by
\* record, the weight that went in.
LEMMA InputsAddUp ==
  ASSUME SerialInv, NEW T \in TablesNow
  PROVE  LET input == [p \in DOMAIN T |-> total[T[p].batch]]
         IN  /\ IsFiniteSet(DOMAIN T)
             /\ \A p \in DOMAIN T : T[p].batch \in processed /\ input[p] \in Nat
             /\ MovementSeries(T).processedKg + LostKg(T)
                  = SumFunctionOnSet(input, DOMAIN T)
<1> DEFINE D == DOMAIN T
           input == [p \in D |-> total[T[p].batch]]
           charted == [p \in D |-> IF T[p].output = None THEN total[T[p].batch]
                                   ELSE T[p].output]
           weighed == {q \in D : ProcessingYield(T)[q].outputKg > 0}
           loss == [p \in weighed |-> ProcessingYield(T)[p].inputKg
                                        - ProcessingYield(T)[p].outputKg]
           missing == [p \in D |-> IF p \in weighed THEN loss[p] ELSE 0]
<1>1. PICK ids \in SUBSET ProcessingIds :
        T \in [ids -> [batch : Batches, output : Outputs \cup {None}]]
  BY DEF TablesNow, ProcessingTables
<1>2. /\ D = ids /\ IsFiniteSet(D)
      /\ \A p \in D : T[p].batch \in Batches /\ T[p].output \in Outputs \cup {None}
      /\ \A p \in D : T[p].batch \in processed
  <2>1. D = ids
    BY <1>1
  <2>2. IsFiniteSet(ids)
    BY ReportsAssumption, FS_Subset
  <2>3. \A p \in D : T[p].batch \in Batches /\ T[p].output \in Outputs \cup {None}
    <3>1. ASSUME NEW p \in ids
          PROVE  T[p] \in [batch : Batches, output : Outputs \cup {None}]
      BY <1>1
    <3> QED
      BY <2>1, <3>1
  <2>4. \A p \in D : T[p].batch \in processed
    BY DEF TablesNow
  <2> QED
    BY <2>1, <2>2, <2>3, <2>4
<1>3. \A b \in Batches : total[b] \in Nat
  BY DEF SerialInv, BothInv, SalesInv, TypeInv, TypeOK
<1>4. ASSUME NEW p \in D
      PROVE  /\ ProcessingYield(T)[p].inputKg = total[T[p].batch]
             /\ ProcessingYield(T)[p].outputKg
                  = IF T[p].output = None THEN 0 ELSE T[p].output
  BY DEF ProcessingYield
<1>5. ASSUME NEW p \in D
      PROVE  /\ T[p].output = None => p \notin weighed /\ charted[p] = input[p]
             /\ T[p].output # None =>
                  /\ p \in weighed /\ charted[p] \in Nat
                  /\ loss[p] = input[p] - charted[p]
             /\ input[p] \in Nat
  <2>1. input[p] \in Nat /\ input[p] = total[T[p].batch]
    BY <1>2, <1>3
  <2>2. CASE T[p].output = None
    BY <1>4, <2>1, <2>2
  <2>3. CASE T[p].output # None
    <3>1. T[p].output \in Nat /\ T[p].output > 0
      <4>1. T[p].output \in Outputs
        BY <1>2, <2>3
      <4>2. T[p].output \in Nat /\ T[p].output # 0
        BY <4>1, ReportsAssumption
      <4> QED
        BY <4>2
    <3>2. ProcessingYield(T)[p].outputKg = T[p].output
      BY <1>4, <2>3
    <3>3. p \in weighed
      BY <3>1, <3>2
    <3>4. loss[p] = ProcessingYield(T)[p].inputKg - ProcessingYield(T)[p].outputKg
      BY <3>3
    <3>5. charted[p] = T[p].output
      BY <2>3
    <3> QED
      BY <1>4, <2>1, <2>3, <3>1, <3>2, <3>3, <3>4, <3>5
  <2> QED
    BY <2>1, <2>2, <2>3
<1>6. MovementSeries(T).processedKg = SumFunctionOnSet(charted, D)
  BY DEF MovementSeries, SumFunction
<1>7. LostKg(T) = SumFunctionOnSet(loss, weighed)
  BY DEF LostKg, SumFunction
<1>8. weighed \in SUBSET D
  OBVIOUS
<1>9. \A p \in D : missing[p] = IF p \in weighed THEN loss[p] ELSE 0
  OBVIOUS
<1> HIDE DEF D, input, charted, weighed, loss, missing
<1>10. \A p \in D : charted[p] \in Int /\ missing[p] \in Int
                    /\ input[p] = charted[p] + missing[p]
  BY <1>5, <1>9
<1>11. SumFunctionOnSet(missing, D) = SumFunctionOnSet(loss, weighed)
  BY <1>2, <1>5, <1>8, <1>9, <1>10, SumOfPart
<1>12. SumFunctionOnSet(input, D)
         = SumFunctionOnSet(charted, D) + SumFunctionOnSet(missing, D)
  BY <1>2, <1>10, SumPlus
<1>13. \A p \in D : T[p].batch \in processed /\ input[p] \in Nat
  BY <1>2, <1>5
<1> QED
  BY <1>2, <1>6, <1>7, <1>11, <1>12, <1>13 DEF D, input

\* Whatever is stored or sold went into some record.
LEMMA NothingFromNowhereHolds ==
  ASSUME SerialInv
  PROVE  NothingFromNowhere
<1> SUFFICES ASSUME NEW T \in TablesNow
             PROVE  SoldKg + InStorageKg
                      <= MovementSeries(T).processedKg + LostKg(T)
  BY DEF NothingFromNowhere
<1> DEFINE D == DOMAIN T
           input == [p \in D |-> total[T[p].batch]]
           first == [b \in processed |-> CHOOSE p \in D : T[p].batch = b]
           picked == {first[b] : b \in processed}
<1>1. /\ IsFiniteSet(D)
      /\ \A p \in D : T[p].batch \in processed /\ input[p] \in Nat
      /\ MovementSeries(T).processedKg + LostKg(T) = SumFunctionOnSet(input, D)
  BY InputsAddUp
<1>2. /\ processed \in SUBSET Batches /\ IsFiniteSet(processed)
      /\ \A b \in processed : total[b] \in Nat
  BY TradedWasProcessed DEF SerialInv, BothInv, SalesInv, TypeInv, TypeOK
<1>3. ASSUME NEW b \in processed
      PROVE  first[b] \in D /\ T[first[b]].batch = b
  <2>1. \E p \in D : T[p].batch = b
    BY DEF TablesNow
  <2> QED
    BY <2>1
<1>4. picked \in SUBSET D
  BY <1>3
<1>5. \A b \in processed : total[b] \in Int /\ input[first[b]] = total[b]
  BY <1>2, <1>3
<1>6. /\ \A b \in processed : first[b] \in picked
      /\ \A b, c \in processed : first[b] = first[c] => b = c
      /\ \A p \in picked : \E b \in processed : first[b] = p
  <2>1. \A b, c \in processed : first[b] = first[c] => b = c
    BY <1>3
  <2> HIDE DEF first
  <2> QED
    BY <2>1
<1> HIDE DEF first, picked, input, D
<1>7. IsFiniteSet(picked)
  BY <1>1, <1>4, FS_Subset
<1>8. SumFunctionOnSet(input, picked) = SumFunctionOnSet(total, processed)
  BY <1>2, <1>5, <1>6, <1>7, SumRenamed
<1>9. SumFunctionOnSet(input, picked) <= SumFunctionOnSet(input, D)
  BY <1>1, <1>4, SumPart
<1>10. /\ SoldKg \in Nat /\ InStorageKg \in Nat /\ TotalKg(processed) \in Nat
       /\ InStorageKg + SoldKg <= TotalKg(processed)
  BY StoredAndSold, StoredWeight, TradedWasProcessed
<1>11. SumFunctionOnSet(input, D) \in Nat
  BY <1>1, SumNat
<1>12. TotalKg(processed) <= SumFunctionOnSet(input, D)
  BY <1>8, <1>9 DEF TotalKg
<1> QED
  BY <1>1, <1>10, <1>11, <1>12

-----------------------------------------------------------------------------
(* The theorems. *)

\* The invariant holds in every behaviour.
THEOREM SalesInvariance == SalesSpec => []SalesInv
BY SalesInvInit, SalesInvStep, PTL DEF SalesSpec

\* Every variable of Custody and Sales keeps its type while both run.
THEOREM SalesTypeSafe == SalesSpec => []SalesTypeOK
<1>1. SalesInv => SalesTypeOK
  BY DEF SalesInv, TypeInv, SalesTypes, SalesTypeOK
<1> QED
  BY <1>1, SalesInvariance, PTL

\* A SOLD or EXPORTED batch has a confirmed transfer, however many status
\* changes, sales and confirmations overlap (coffeeBatch.service.ts, 126-208).
THEOREM SoldSafe == SalesSpec => []SoldBacked
<1>1. SalesInv => SoldBacked
  BY DEF SalesInv
<1> QED
  BY <1>1, SalesInvariance, PTL

\* The ledger names a transfer only after its confirmation has committed
\* (ownershipTransfer.service.ts, recordTransferConfirmedEvents).
THEOREM HandoverSafe == SalesSpec => []HandoverBacked
<1>1. SalesInv => HandoverBacked
  BY DEF SalesInv
<1> QED
  BY <1>1, SalesInvariance, PTL

\* The commit that shows a batch's first confirmed transfer shows it SOLD:
\* the transfer and its batch are never seen apart, though a lot's loop writes
\* them one by one (ownershipTransfer.service.ts, confirmTransferInTx).
THEOREM FirstSaleSafe == SalesSpec => FirstSaleSellsBatch
<1>1. SalesInv /\ [SalesNext]_allVars =>
        [\A b \in Batches : ConfirmedOf(b) = {} /\ ConfirmedOf(b)' # {}
           => status'[b] = "SOLD"]_allVars
  <2> SUFFICES ASSUME SalesInv, SalesNext, NEW b \in Batches,
                      ConfirmedOf(b) = {}, ConfirmedOf(b)' # {}
               PROVE  status'[b] = "SOLD"
    OBVIOUS
  <2>1. PICK t \in Transfers : /\ transfer'[t].batch = b
                               /\ transfer'[t].status = "CONFIRMED"
                               /\ ~(/\ transfer[t].batch = b
                                    /\ transfer[t].status = "CONFIRMED")
    BY DEF ConfirmedOf
  <2>2. ASSUME NEW s \in Sellers, SaleCommit(s) PROVE status'[b] = "SOLD"
    <3>1. /\ sale[s] \in SaleSlot /\ SaleOK(sale[s]) /\ sale[s].stage = "confirm"
          /\ transfer \in [Transfers -> Transfer]
      BY <2>2 DEF SalesInv, SalesTypes, SalesOK, SaleCommit
    <3>2. t \in sale[s].locked /\ transfer[t].batch = b
      BY <2>1, <2>2, <3>1 DEF SaleCommit, Transfer
    <3>3. b \in sale[s].sold
      BY <3>1, <3>2 DEF SaleOK, SoldOff
    <3> QED
      BY <2>2, <3>3 DEF SaleCommit
  <2>3. ASSUME NEW c \in Singles, Initiate(c) PROVE FALSE
    BY <2>1, <2>3 DEF Initiate, Unused, NoTransfer, SalesInv, SalesTypes, Transfer
  <2>4. ASSUME NEW s \in Sellers, SellCommit(s) PROVE FALSE
    BY <2>1, <2>4 DEF SellCommit
  <2>5. CASE transfer' = transfer
    BY <2>1, <2>5
  <2> QED
    BY <2>2, <2>3, <2>4, <2>5
    DEF SalesNext, CustodyStep, saleVars, ArriveSale, ContinueSale, CreateLotRead,
        SellRead, ConfirmLotRead, ConfirmRead, CreateLotCommit, SellCheck, Gather,
        ConfirmTransfer, ConfirmLock, ConfirmWrite, AppendHandover, AppendSale,
        AbortSale
<1> QED
  BY <1>1, SalesInvariance, PTL DEF SalesSpec, FirstSaleSellsBatch

\* A lot that is SOLD was sold whole, however its sales and confirmations
\* overlap with each other and with the requests of Custody, as long as no
\* single transfer and no other lot takes a hand in its members
\* (batchGroup.routes.ts, confirm-sale).
THEOREM LotSafe ==
  ASSUME Apart
  PROVE  SalesSpec => []LotSoldWhole
<1>1. SalesInit => LotInv
  <2> SUFFICES ASSUME SalesInit PROVE LotInv
    OBVIOUS
  <2>1. \A t \in Transfers : transfer[t].batch = None
    BY DEF SalesInit, NoTransfer
  <2>2. OfferedTogether
    BY <2>1, MembersAreBatches, CustodyAssumption DEF OfferedTogether, TransfersOf
  <2>3. LotSoldWhole
    BY CustodyAssumption DEF SalesInit, LotSoldWhole, Status
  <2>4. \A s \in Sellers : InHand(sale[s])
    BY DEF SalesInit, InHand, NoSale
  <2> QED
    BY <2>2, <2>3, <2>4 DEF LotInv
<1>2. SalesInv /\ LotInv /\ [SalesNext]_allVars => LotInv'
  BY LotStep
<1>3. LotInv => LotSoldWhole
  BY DEF LotInv
<1> QED
  BY <1>1, <1>2, <1>3, SalesInvInit, SalesInvStep, PTL DEF SalesSpec

\* What Custody promises, it promises with the sales running beside it: their
\* commits move batches and close rows, yet no batch has two open rows, no
\* warehouse is overfull, and every status and event is backed as before
\* (ownershipTransfer.service.ts, confirmTransferInTx).
THEOREM SalesKeepCustody ==
  SalesSpec => [](/\ OneOpenRow /\ CapacityRespected /\ RowWithinTotal
                  /\ ProcessingBacked /\ StorageBacked /\ StoredEventBacked)
<1>1. BothInv => /\ OneOpenRow /\ CapacityRespected /\ RowWithinTotal
                 /\ ProcessingBacked /\ StorageBacked /\ StoredEventBacked
  BY DEF BothInv, Inv
<1> QED
  BY <1>1, BothInvInit, BothInvStep, PTL DEF SalesSpec

\* While requests do not overlap, the invariant of both holds with what one
\* request may rely on when nobody else runs.
THEOREM SerialInvariance == SerialSpec => []SerialInv
BY SerialInit, SerialStep, PTL DEF SerialSpec

\* While requests do not overlap, a confirmed sale stands: nothing but the
\* export takes its batch out of SOLD (coffeeBatch.service.ts, the terminal
\* rows of ALLOWED_TRANSITIONS).
THEOREM StaysSoldSafe == SerialSpec => []ConfirmedStaysSold
<1>1. SerialInv => ConfirmedStaysSold
  BY DEF SerialInv
<1> QED
  BY <1>1, SerialInvariance, PTL

\* While requests do not overlap, Custody and Sales together implement
\* Lifecycle: every status moves by legal transitions, those of a lot's members
\* in one commit (coffeeBatch.service.ts, ALLOWED_TRANSITIONS).
THEOREM SalesLifecycle == SerialSpec => LegalTransitions
<1>1. SalesInit => L!Init
  BY DEF SalesInit, Init, L!Init
<1>2. SerialInv /\ [SalesNext]_allVars => [L!Next]_status
  <2> SUFFICES ASSUME SerialInv, [SalesNext]_allVars PROVE [L!Next]_status
    OBVIOUS
  <2>1. /\ TypeInv /\ Fresh /\ status \in [Batches -> Status]
        /\ \A s \in Sellers : AloneOK(sale[s])
    BY DEF SerialInv, BothInv, SalesInv, TypeInv, TypeOK
  <2>2. CASE [Next]_vars
    BY <2>1, <2>2, LegalMoves
  <2>3. ASSUME NEW s \in Sellers, SaleCommit(s) PROVE L!Next
    <3>1. status' = [b \in Batches |-> IF b \in sale[s].sold THEN "SOLD" ELSE status[b]]
      BY <2>3 DEF SaleCommit
    <3>2. \A b \in sale[s].sold : status[b] = "SOLD" \/ "SOLD" \in AllowedTransitions[status[b]]
      BY <2>1, <2>3 DEF SaleCommit, AloneOK, CanTransition
    <3>3. status' \in [Batches -> Status]
      BY <2>1, <3>1 DEF Status
    <3> QED
      BY <3>1, <3>2, <3>3, SameVocabulary DEF L!Next, L!Move
  <2>4. CASE UNCHANGED status
    BY <2>4
  <2> QED
    BY <2>2, <2>3, <2>4, SeenByCustody DEF AppendHandover, AppendSale
<1> QED
  BY <1>1, <1>2, SerialInvariance, PTL DEF SerialSpec, LegalTransitions, L!Spec

\* While requests do not overlap, no transfer is recorded on the ledger twice
\* (ownershipTransfer.service.ts, recordTransferConfirmedEvents).
THEOREM HandoverOnceSafe == SerialSpec => []HandoverOnce
<1>1. SerialInv => HandoverOnce
  BY DEF SerialInv
<1> QED
  BY <1>1, SerialInvariance, PTL

\* While requests do not overlap, coffee that is sold is stored no longer: an
\* open row is of a batch whose status is IN_STORAGE, with sales too.
THEOREM StockWithSales == SerialSpec => []OpenRowInStorage
<1>1. SerialInv => OpenRowInStorage
  BY DEF SerialInv
<1> QED
  BY <1>1, SerialInvariance, PTL

\* The reports, read between two requests, do not contradict one another: no
\* kilogram is stored and sold, the pages of a batch tell one story, the
\* warehouses add up, the Sold figure is the chart's unless a batch was sold
\* twice, and, whatever outputs the processing records have, nothing is stored
\* or sold that was not processed (reports/*.service.ts).
THEOREM BooksSafe == SerialSpec => []BooksAgree
<1>1. SerialInv => BooksAgree
  BY NoKiloTwiceHolds, OneStoryHolds, WarehousesAddUpHolds, OneFigureHolds,
     NothingFromNowhereHolds DEF BooksAgree
<1> QED
  BY <1>1, SerialInvariance, PTL
=============================================================================
