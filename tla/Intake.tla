------------------------------- MODULE Intake -------------------------------
(***************************************************************************)
(* Deliveries and the weight of a batch: delivery.service.ts registers     *)
(* farmers' deliveries and attaches them to batches, adding their weight   *)
(* to the batch's total, which the warehouse later trusts.  Requests are   *)
(* slots that overlap at READ COMMITTED, as in Custody.                    *)
(***************************************************************************)
EXTENDS Integers, FiniteSets, Functions

CONSTANTS
  Batches,
  Deliveries,   \* the deliveries that may be registered
  Weight,       \* delivery -> its weight in kg
  Graded,       \* the deliveries registered with a quality grade
  Requests,     \* slots: how many assignments may be in flight at once
  None

ASSUME IntakeAssumption ==
  /\ IsFiniteSet(Deliveries)
  /\ Weight \in [Deliveries -> Nat \ {0}]
  /\ Graded \subseteq Deliveries
  /\ None \notin Batches

VARIABLES
  registered,   \* the rows of deliveries
  batchOf,      \* deliveries.batch_id
  total,        \* coffee_batches.total_weight_kg
  graded,       \* batch -> the deliveries its QUALITY_GRADED events name
  req           \* the assignments in flight

vars == <<registered, batchOf, total, graded, req>>

Stage == {"idle", "write", "append"}

Slot == [stage : Stage, batch : Batches \cup {None}, ids : SUBSET Deliveries,
         seenTotal : Nat]

Idle == [stage |-> "idle", batch |-> None, ids |-> {}, seenTotal |-> 0]

Init ==
  /\ registered = {}
  /\ batchOf = [d \in Deliveries |-> None]
  /\ total = [b \in Batches |-> 0]
  /\ graded = [b \in Batches |-> {}]
  /\ req = [r \in Requests |-> Idle]

WeightOf(D) == SumFunctionOnSet(Weight, D)

DeliveriesOf(b) == {d \in Deliveries : batchOf[d] = b}

-----------------------------------------------------------------------------
\* POST /deliveries, createDelivery: a new delivery belongs to no batch.
CreateDelivery(d) ==
  /\ d \notin registered
  /\ registered' = registered \cup {d}
  /\ UNCHANGED <<batchOf, total, graded, req>>

(* POST /deliveries/assign/:batchId, assignDeliveriesToBatch. *)

\* Every delivery asked for is there, and un-batched.
Unbatched(ids) == ids \subseteq registered /\ \A d \in ids : batchOf[d] = None

\* The transaction reads the batch and the deliveries asked for, every one of
\* which must still be un-batched.
AssignRead(r, b, ids) ==
  /\ req[r].stage = "idle"
  /\ ids # {}
  /\ Unbatched(ids)
  /\ req' = [req EXCEPT ![r] =
       [stage |-> "write", batch |-> b, ids |-> ids, seenTotal |-> total[b]]]
  /\ UNCHANGED <<registered, batchOf, total, graded>>

\* A slip: the new total is computed from the one that was read.
ComputedTotal(r) == req[r].seenTotal + WeightOf(req[r].ids)

\* The batch's total is incremented by the database, not computed here.
NewTotal(r) == total[req[r].batch] + WeightOf(req[r].ids)

\* It writes the deliveries, by id alone, and the batch, and commits.
AssignCommit(r) ==
  LET b == req[r].batch
      ids == req[r].ids
  IN  /\ req[r].stage = "write"
      /\ batchOf' = [d \in Deliveries |-> IF d \in ids THEN b ELSE batchOf[d]]
      /\ total' = [total EXCEPT ![b] = NewTotal(r)]
      /\ req' = [req EXCEPT ![r] =
           IF ids \cap Graded = {} THEN Idle ELSE [@ EXCEPT !.stage = "append"]]
      /\ UNCHANGED <<registered, graded>>

\* A slip: the grades are recorded before the assignment commits.
AppendGradesEarly(r) ==
  /\ req[r].stage # "idle"
  /\ graded' = [graded EXCEPT ![req[r].batch] = @ \cup (req[r].ids \cap Graded)]
  /\ req' = [req EXCEPT ![r] = Idle]
  /\ UNCHANGED <<registered, batchOf, total>>

\* The grades enter the batch's ledger after the commit.
AppendGrades(r) ==
  /\ req[r].stage = "append"
  /\ graded' = [graded EXCEPT ![req[r].batch] = @ \cup (req[r].ids \cap Graded)]
  /\ req' = [req EXCEPT ![r] = Idle]
  /\ UNCHANGED <<registered, batchOf, total>>

\* A check fails, the transaction times out or the server stops.
Abort(r) ==
  /\ req[r].stage # "idle"
  /\ req' = [req EXCEPT ![r] = Idle]
  /\ UNCHANGED <<registered, batchOf, total, graded>>

Next ==
  \/ \E d \in Deliveries : CreateDelivery(d)
  \/ \E r \in Requests :
       \/ \E b \in Batches, ids \in SUBSET Deliveries : AssignRead(r, b, ids)
       \/ AssignCommit(r) \/ AppendGrades(r) \/ Abort(r)

Spec == Init /\ [][Next]_vars

-----------------------------------------------------------------------------
(* What holds however the assignments overlap. *)

TypeOK ==
  /\ registered \subseteq Deliveries
  /\ batchOf \in [Deliveries -> Batches \cup {None}]
  /\ total \in [Batches -> Nat]
  /\ graded \in [Batches -> SUBSET Graded]
  /\ req \in [Requests -> Slot]

\* A batch's total is never less than the weight of the deliveries in it: no
\* overlap of two assignments loses an increment.
TotalCovers == \A b \in Batches : WeightOf(DeliveriesOf(b)) <= total[b]

\* A batch's total never shrinks.  The store route relies on it: it compares
\* with a total it read before its transaction (Custody, RowWithinTotal).
TotalGrows == [][\A b \in Batches : total[b] <= total'[b]]_vars

\* A grade on the ledger of a batch is that of a delivery some batch holds: the
\* event is never appended for an assignment that rolled back.
GradeBacked ==
  \A b \in Batches : \A d \in graded[b] : batchOf[d] # None

(* What holds while assignments do not overlap. *)

\* A delivery, once in a batch, is never moved to another: only un-batched
\* deliveries are attached.
NeverMoved ==
  [][\A d \in Deliveries : batchOf[d] # None => batchOf'[d] = batchOf[d]]_vars
=============================================================================
