---------------------------- MODULE Intake_proof ----------------------------
(***************************************************************************)
(* Proofs about Intake, for any deliveries, batches and any number of      *)
(* overlapping assignments.                                                *)
(*                                                                         *)
(* A slot knows a batch and deliveries it has read earlier.  What it may   *)
(* still rely on is little: that the deliveries of an assignment that has  *)
(* committed are in some batch, since none ever leaves the batches.  That  *)
(* they are still un-batched before the commit is known only when          *)
(* assignments do not overlap.                                             *)
(***************************************************************************)
EXTENDS IntakeReports, Sums

\* A slot in flight has a batch.
SlotsOK == \A r \in Requests : req[r].stage # "idle" => req[r].batch \in Batches

\* The deliveries of a slot that is to append its grades are batched.
AppendsBatched ==
  \A r \in Requests : req[r].stage = "append" =>
    \A d \in req[r].ids : batchOf[d] # None

Inv == TypeOK /\ SlotsOK /\ TotalCovers /\ GradeBacked /\ AppendsBatched

\* At most one assignment is in flight.
Serial == \A r, s \in Requests : r = s

\* What a slot has read as un-batched still is.
ReadsStand ==
  \A r \in Requests : req[r].stage = "write" =>
    \A d \in req[r].ids : batchOf[d] = None

-----------------------------------------------------------------------------
\* The steps whose slot changes keep its type and its batch: whatever the new
\* slot is, a well-formed one with a batch if it is in flight.
LEMMA SlotStep ==
  ASSUME TypeOK, SlotsOK, NEW r \in Requests, NEW s \in Slot,
         s.stage # "idle" => s.batch \in Batches,
         req' = [req EXCEPT ![r] = s]
  PROVE  req' \in [Requests -> Slot] /\ SlotsOK'
<1>1. req' \in [Requests -> Slot]
  BY DEF TypeOK
<1>2. ASSUME NEW q \in Requests, req'[q].stage # "idle"
      PROVE  req'[q].batch \in Batches
  <2>1. req'[q] = IF q = r THEN s ELSE req[q]
    BY DEF TypeOK
  <2> QED BY <1>2, <2>1 DEF SlotsOK
<1> QED BY <1>1, <1>2 DEF SlotsOK

\* The idle slot is a slot.
LEMMA IdleSlot == Idle \in Slot /\ Idle.stage = "idle"
  BY DEF Idle, Slot, Stage

\* What every sum of weights obeys.
LEMMA WeightsAdd ==
  /\ WeightOf({}) = 0
  /\ \A D \in SUBSET Deliveries : WeightOf(D) \in Nat
  /\ \A D, E \in SUBSET Deliveries :
       /\ WeightOf(D \cup E) <= WeightOf(D) + WeightOf(E)
       /\ WeightOf(D \ E) <= WeightOf(D)
<1>1. ASSUME NEW D \in SUBSET Deliveries
      PROVE  IsFiniteSet(D) /\ (\A d \in D : Weight[d] \in Nat) /\ WeightOf(D) \in Nat
  <2>1. IsFiniteSet(D) /\ \A d \in D : Weight[d] \in Nat
    BY IntakeAssumption, FS_Subset
  <2> QED
    BY <2>1, SumNat DEF WeightOf
<1>2. ASSUME NEW D \in SUBSET Deliveries, NEW E \in SUBSET Deliveries
      PROVE  /\ WeightOf(D \cup E) <= WeightOf(D) + WeightOf(E)
             /\ WeightOf(D \ E) <= WeightOf(D)
  <2> DEFINE F == D \ E
  <2>1. F \in SUBSET D /\ F \in SUBSET Deliveries /\ F \cap E = {} /\ F \cup E = D \cup E
    OBVIOUS
  <2>2. WeightOf(F) <= WeightOf(D)
    BY <1>1, <2>1, SumPart DEF WeightOf
  <2>3. WeightOf(F \cup E) = WeightOf(F) + WeightOf(E)
    <3>1. IsFiniteSet(F) /\ IsFiniteSet(E) /\ \A d \in F \cup E : Weight[d] \in Int
      BY <1>1, <2>1
    <3> HIDE DEF F
    <3> QED
      BY <2>1, <3>1, SumDisjoint DEF WeightOf
  <2>4. WeightOf(D) \in Nat /\ WeightOf(E) \in Nat /\ WeightOf(F) \in Nat
    BY <1>1, <2>1
  <2>5. WeightOf(D \cup E) = WeightOf(F) + WeightOf(E)
    BY <2>1, <2>3
  <2>6. WeightOf(D \cup E) <= WeightOf(D) + WeightOf(E)
    <3> HIDE DEF F
    <3> QED BY <2>2, <2>4, <2>5
  <2> QED
    BY <2>2, <2>6
<1> QED
  BY <1>1, <1>2, SumEmpty DEF WeightOf

\* Inv holds before any request arrives.
LEMMA InitInv == Init => Inv
<1> SUFFICES ASSUME Init PROVE Inv
  OBVIOUS
<1>1. TypeOK
  BY IdleSlot DEF Init, TypeOK
<1>2. SlotsOK /\ AppendsBatched
  BY DEF Init, SlotsOK, AppendsBatched, Idle
<1>3. ASSUME NEW b \in Batches PROVE WeightOf(DeliveriesOf(b)) <= total[b]
  <2>1. DeliveriesOf(b) = {}
    BY IntakeAssumption DEF Init, DeliveriesOf
  <2>2. WeightOf({}) = 0
    BY WeightsAdd
  <2> QED BY <2>1, <2>2 DEF Init
<1>4. GradeBacked
  BY DEF Init, GradeBacked
<1> QED BY <1>1, <1>2, <1>3, <1>4 DEF Inv, TotalCovers

-----------------------------------------------------------------------------
\* One lemma per action: each keeps Inv.

\* A registered delivery belongs to no batch.
LEMMA CreateInv ==
  ASSUME Inv, NEW d \in Deliveries, CreateDelivery(d)
  PROVE  Inv'
<1>1. registered' \subseteq Deliveries
  BY DEF CreateDelivery, Inv, TypeOK
<1>2. UNCHANGED <<batchOf, total, graded, req>>
  BY DEF CreateDelivery
<1> QED BY <1>1, <1>2 DEF Inv, TypeOK, SlotsOK, TotalCovers, DeliveriesOf,
                          GradeBacked, AppendsBatched

\* A read fills a slot and touches no row.
LEMMA ReadInv ==
  ASSUME Inv, NEW r \in Requests, NEW b \in Batches, NEW ids \in SUBSET Deliveries,
         AssignRead(r, b, ids)
  PROVE  Inv'
<1> DEFINE s == [stage |-> "write", batch |-> b, ids |-> ids, seenTotal |-> total[b]]
<1>1. s \in Slot /\ s.batch \in Batches /\ s.stage = "write"
  BY DEF Inv, TypeOK, Slot, Stage
<1>2. req' = [req EXCEPT ![r] = s]
  BY DEF AssignRead
<1> HIDE DEF s
<1>3. UNCHANGED <<registered, batchOf, total, graded>>
  BY DEF AssignRead
<1>4. TypeOK' /\ SlotsOK'
  BY <1>1, <1>2, <1>3, SlotStep DEF Inv, TypeOK
<1>5. AppendsBatched'
  BY <1>1, <1>2, <1>3 DEF Inv, TypeOK, AppendsBatched
<1> QED BY <1>3, <1>4, <1>5 DEF Inv, TotalCovers, DeliveriesOf, GradeBacked

\* The slot of r becomes s: idle, or on to append the grades it has read.
SlotAfter(r, s) ==
  /\ s.stage \in {"idle", "append"}
  /\ s.stage = "append" => s.batch = req[r].batch /\ s.ids = req[r].ids
  /\ req' = [req EXCEPT ![r] = s]

\* That is what a commit makes of its slot.
LEMMA CommitSlot ==
  ASSUME Inv, NEW r \in Requests, AssignCommit(r)
  PROVE  \E s \in Slot : SlotAfter(r, s)
<1> DEFINE old == req[r]
<1>1. old \in Slot /\ req \in [Requests -> Slot]
  BY DEF Inv, TypeOK
<1>2. CASE old.ids \cap Graded = {}
  <2>1. req' = [req EXCEPT ![r] = Idle]
    BY <1>2 DEF AssignCommit
  <2> QED BY <2>1, IdleSlot DEF SlotAfter
<1>3. CASE old.ids \cap Graded # {}
  <2> DEFINE s == [old EXCEPT !.stage = "append"]
  <2>1. req' = [req EXCEPT ![r] = s]
    BY <1>3 DEF AssignCommit
  <2>2. s \in Slot /\ s.stage = "append" /\ s.batch = old.batch /\ s.ids = old.ids
    BY <1>1 DEF Slot, Stage
  <2> HIDE DEF s
  <2> QED BY <2>1, <2>2 DEF SlotAfter
<1> QED BY <1>2, <1>3

\* The commit adds to its batch the weight of exactly the deliveries it adds.
LEMMA CommitInv ==
  ASSUME Inv, NEW r \in Requests, AssignCommit(r)
  PROVE  Inv' /\ \A c \in Batches : total[c] <= total'[c]
<1> DEFINE b == req[r].batch
           ids == req[r].ids
<1>1. b \in Batches /\ ids \in SUBSET Deliveries
  BY DEF Inv, TypeOK, SlotsOK, Slot, AssignCommit
<1>2. /\ batchOf' = [d \in Deliveries |-> IF d \in ids THEN b ELSE batchOf[d]]
      /\ total' = [total EXCEPT ![b] = total[b] + WeightOf(ids)]
      /\ UNCHANGED <<registered, graded>>
  BY DEF AssignCommit, NewTotal
<1>3. b # None
  BY <1>1, IntakeAssumption
<1>4. WeightOf(ids) \in Nat
  BY <1>1, WeightsAdd
<1>5. total \in [Batches -> Nat] /\ batchOf \in [Deliveries -> Batches \cup {None}]
  BY DEF Inv, TypeOK
<1>6. PICK s \in Slot : SlotAfter(r, s)
  BY CommitSlot
<1>7. /\ s.stage \in {"idle", "append"}
      /\ s.stage = "append" => s.batch = b /\ s.ids = ids
      /\ req' = [req EXCEPT ![r] = s]
  BY <1>6 DEF SlotAfter
<1> HIDE DEF b, ids
<1>8. TypeOK'
  <2>1. total' \in [Batches -> Nat]
    BY <1>1, <1>2, <1>4, <1>5
  <2>2. batchOf' \in [Deliveries -> Batches \cup {None}]
    BY <1>1, <1>2, <1>5
  <2>3. req' \in [Requests -> Slot]
    BY <1>1, <1>7, SlotStep DEF Inv
  <2> QED BY <1>2, <2>1, <2>2, <2>3 DEF Inv, TypeOK
<1>9. SlotsOK'
  BY <1>1, <1>7, SlotStep DEF Inv
<1>10. \A d \in Deliveries : batchOf[d] # None => batchOf'[d] # None
  BY <1>2, <1>3, <1>5
<1>11. TotalCovers'
  <2>1. SUFFICES ASSUME NEW c \in Batches
                 PROVE  WeightOf(DeliveriesOf(c))' <= total'[c]
    BY DEF TotalCovers
  <2>2. DeliveriesOf(c) \in SUBSET Deliveries
    BY DEF DeliveriesOf
  <2>3. WeightOf(DeliveriesOf(c)) \in Nat /\ WeightOf(DeliveriesOf(c)) <= total[c]
    BY <2>2, WeightsAdd DEF Inv, TotalCovers
  <2>4. CASE c = b
    <3>1. DeliveriesOf(c)' = DeliveriesOf(c) \cup ids
      BY <1>1, <1>2, <1>5, <2>4 DEF DeliveriesOf
    <3>2. WeightOf(DeliveriesOf(c) \cup ids) <= WeightOf(DeliveriesOf(c)) + WeightOf(ids)
      BY <1>1, <2>2, WeightsAdd
    <3>3. WeightOf(DeliveriesOf(c) \cup ids) \in Nat
      BY <1>1, <2>2, WeightsAdd
    <3>4. total'[c] = total[c] + WeightOf(ids) /\ total[c] \in Nat
      BY <1>1, <1>2, <1>5, <2>4
    <3>5. WeightOf(DeliveriesOf(c))' = WeightOf(DeliveriesOf(c) \cup ids)
      BY <3>1
    <3> QED BY <1>4, <2>3, <3>2, <3>3, <3>4, <3>5
  <2>5. CASE c # b
    <3>1. DeliveriesOf(c)' = DeliveriesOf(c) \ ids
      BY <1>1, <1>2, <1>5, <2>5 DEF DeliveriesOf
    <3>2. WeightOf(DeliveriesOf(c) \ ids) <= WeightOf(DeliveriesOf(c))
      BY <1>1, <2>2, WeightsAdd
    <3>3. WeightOf(DeliveriesOf(c) \ ids) \in Nat
      BY <1>1, <2>2, WeightsAdd
    <3>4. total'[c] = total[c] /\ total[c] \in Nat
      BY <1>1, <1>2, <1>5, <2>5
    <3>5. WeightOf(DeliveriesOf(c))' = WeightOf(DeliveriesOf(c) \ ids)
      BY <3>1
    <3> QED BY <2>3, <3>2, <3>3, <3>4, <3>5
  <2> QED BY <2>4, <2>5
<1>12. GradeBacked'
  <2>1. \A c \in Batches : graded[c] \in SUBSET Deliveries
    BY IntakeAssumption DEF Inv, TypeOK
  <2> QED BY <1>2, <1>10, <2>1 DEF Inv, GradeBacked
<1>13. AppendsBatched'
  <2>1. SUFFICES ASSUME NEW q \in Requests, req'[q].stage = "append",
                        NEW d \in req'[q].ids
                 PROVE  batchOf'[d] # None
    BY DEF AppendsBatched
  <2>2. req'[q] = IF q = r THEN s ELSE req[q]
    BY <1>7 DEF Inv, TypeOK
  <2>3. CASE q = r
    <3>1. d \in ids
      BY <1>7, <2>1, <2>2, <2>3
    <3> QED BY <1>1, <1>2, <1>3, <3>1
  <2>4. CASE q # r
    <3>1. req[q].stage = "append" /\ d \in req[q].ids /\ d \in Deliveries
      BY <2>1, <2>2, <2>4 DEF Inv, TypeOK, Slot
    <3> QED BY <1>10, <3>1 DEF Inv, AppendsBatched
  <2> QED BY <2>3, <2>4
<1>14. \A c \in Batches : total[c] <= total'[c]
  BY <1>1, <1>2, <1>4, <1>5
<1> QED BY <1>8, <1>9, <1>11, <1>12, <1>13, <1>14 DEF Inv

\* A request that ends touches no row, unless it names its grades, which are
\* those of batched deliveries.
LEMMA EndInv ==
  ASSUME Inv, NEW r \in Requests, AppendGrades(r) \/ Abort(r)
  PROVE  Inv'
<1>1. req' = [req EXCEPT ![r] = Idle] /\ UNCHANGED <<registered, batchOf, total>>
  BY DEF AppendGrades, Abort
<1>2. req' \in [Requests -> Slot] /\ SlotsOK'
  BY <1>1, IdleSlot, SlotStep DEF Inv
<1>3. graded' \in [Batches -> SUBSET Graded] /\ GradeBacked'
  <2>1. CASE Abort(r)
    BY <1>1, <2>1 DEF Abort, Inv, TypeOK, GradeBacked
  <2>2. CASE AppendGrades(r)
    <3> DEFINE new == req[r].ids \cap Graded
    <3>1. /\ req[r].batch \in Batches
          /\ graded' = [graded EXCEPT ![req[r].batch] = @ \cup new]
      BY <2>2 DEF AppendGrades, Inv, SlotsOK
    <3>2. \A d \in new : batchOf[d] # None
      BY <2>2 DEF AppendGrades, Inv, AppendsBatched
    <3>3. new \subseteq Graded /\ graded \in [Batches -> SUBSET Graded]
      BY DEF Inv, TypeOK
    <3> HIDE DEF new
    <3> QED BY <1>1, <3>1, <3>2, <3>3 DEF Inv, GradeBacked
  <2> QED BY <2>1, <2>2
<1>4. AppendsBatched'
  BY <1>1, IdleSlot DEF Inv, TypeOK, AppendsBatched
<1> QED BY <1>1, <1>2, <1>3, <1>4 DEF Inv, TypeOK, TotalCovers, DeliveriesOf

\* Every step keeps Inv, and no batch gets lighter.
LEMMA NextInv == Inv /\ [Next]_vars => Inv' /\ \A b \in Batches : total[b] <= total'[b]
<1> SUFFICES ASSUME Inv, [Next]_vars
             PROVE  Inv' /\ \A b \in Batches : total[b] <= total'[b]
  OBVIOUS
<1>0. total \in [Batches -> Nat]
  BY DEF Inv, TypeOK
<1>1. CASE UNCHANGED vars
  BY <1>0, <1>1 DEF vars, Inv, TypeOK, SlotsOK, TotalCovers, DeliveriesOf,
                    GradeBacked, AppendsBatched
<1>2. ASSUME NEW d \in Deliveries, CreateDelivery(d)
      PROVE  Inv' /\ \A b \in Batches : total[b] <= total'[b]
  BY <1>0, <1>2, CreateInv DEF CreateDelivery
<1>3. ASSUME NEW r \in Requests, NEW b \in Batches, NEW ids \in SUBSET Deliveries,
             AssignRead(r, b, ids)
      PROVE  Inv' /\ \A c \in Batches : total[c] <= total'[c]
  <2>1. Inv'
    BY <1>3, ReadInv
  <2>2. UNCHANGED total
    BY <1>3 DEF AssignRead
  <2> QED BY <1>0, <2>1, <2>2
<1>4. ASSUME NEW r \in Requests, AssignCommit(r)
      PROVE  Inv' /\ \A b \in Batches : total[b] <= total'[b]
  BY <1>4, CommitInv
<1>5. ASSUME NEW r \in Requests, AppendGrades(r) \/ Abort(r)
      PROVE  Inv' /\ \A b \in Batches : total[b] <= total'[b]
  BY <1>0, <1>5, EndInv DEF AppendGrades, Abort
<1> QED BY <1>1, <1>2, <1>3, <1>4, <1>5 DEF Next

-----------------------------------------------------------------------------
\* Inv holds in every reachable state.
THEOREM Invariance == Spec => []Inv
  BY InitInv, NextInv, PTL DEF Spec

\* The variables keep their types.
THEOREM TypeSafe == Spec => []TypeOK
<1>1. Inv => TypeOK
  BY DEF Inv
<1> QED BY <1>1, Invariance, PTL

\* However assignments overlap, no batch's total falls below the weight of the
\* deliveries in it: the increment of assignDeliveriesToBatch loses nothing.
THEOREM CoversSafe == Spec => []TotalCovers
<1>1. Inv => TotalCovers
  BY DEF Inv
<1> QED BY <1>1, Invariance, PTL

\* No grade is recorded for a delivery whose assignment was rolled back.
THEOREM GradeSafe == Spec => []GradeBacked
<1>1. Inv => GradeBacked
  BY DEF Inv
<1> QED BY <1>1, Invariance, PTL

\* A batch's total never shrinks: what the warehouse's store route relies on
\* when it compares with a total it read earlier.
THEOREM GrowsSafe == Spec => TotalGrows
<1>1. Inv /\ [Next]_vars => [\A b \in Batches : total[b] <= total'[b]]_vars
  BY NextInv
<1> QED BY <1>1, Invariance, PTL DEF Spec, TotalGrows

-----------------------------------------------------------------------------
\* With one assignment in flight, what it has read stands until it commits.
LEMMA SerialReads ==
  ASSUME Serial
  PROVE  /\ Init => ReadsStand
         /\ Inv /\ ReadsStand /\ [Next]_vars => ReadsStand'
<1>1. Init => ReadsStand
  BY DEF Init, Idle, ReadsStand
<1>2. ASSUME Inv, ReadsStand, [Next]_vars PROVE ReadsStand'
  <2> USE <1>2
  <2>0. req \in [Requests -> Slot]
    BY DEF Inv, TypeOK
  <2>1. CASE UNCHANGED vars
    BY <2>1 DEF vars, ReadsStand
  <2>2. ASSUME NEW d \in Deliveries, CreateDelivery(d) PROVE ReadsStand'
    BY <2>2 DEF CreateDelivery, ReadsStand
  <2>3. ASSUME NEW r \in Requests, NEW b \in Batches, NEW ids \in SUBSET Deliveries,
               AssignRead(r, b, ids)
        PROVE  ReadsStand'
    BY <2>0, <2>3 DEF AssignRead, Unbatched, ReadsStand, Serial
  <2>4. ASSUME NEW r \in Requests, AssignCommit(r) PROVE ReadsStand'
    <3>1. PICK s \in Slot : SlotAfter(r, s)
      BY <2>4, CommitSlot
    <3>2. \A q \in Requests : req'[q].stage # "write"
      BY <2>0, <3>1 DEF Serial, SlotAfter
    <3> QED BY <3>2 DEF ReadsStand
  <2>5. ASSUME NEW r \in Requests, AppendGrades(r) \/ Abort(r) PROVE ReadsStand'
    <3>1. req' = [req EXCEPT ![r] = Idle]
      BY <2>5 DEF AppendGrades, Abort
    <3>2. \A q \in Requests : req'[q].stage # "write"
      BY <2>0, <3>1, IdleSlot DEF Serial
    <3> QED BY <3>2 DEF ReadsStand
  <2> QED BY <2>1, <2>2, <2>3, <2>4, <2>5 DEF Next
<1> QED BY <1>1, <1>2

\* With one assignment at a time a delivery, once in a batch, stays there:
\* the check for un-batched deliveries is as good as a condition of the write.
THEOREM SerialNeverMoved == ASSUME Serial PROVE Spec => NeverMoved
<1>1. ASSUME Inv, ReadsStand, [Next]_vars
      PROVE  [\A d \in Deliveries : batchOf[d] # None => batchOf'[d] = batchOf[d]]_vars
  <2> USE <1>1
  <2>1. CASE UNCHANGED vars
    BY <2>1
  <2>2. CASE UNCHANGED batchOf
    BY <2>2
  <2>3. ASSUME NEW r \in Requests, AssignCommit(r)
        PROVE  \A d \in Deliveries : batchOf[d] # None => batchOf'[d] = batchOf[d]
    BY <2>3 DEF AssignCommit, ReadsStand
  <2> QED BY <2>1, <2>2, <2>3
          DEF Next, CreateDelivery, AssignRead, AppendGrades, Abort
<1>2. Spec => []ReadsStand
  <2>1. Init => ReadsStand
    BY SerialReads
  <2>2. Inv /\ ReadsStand /\ [Next]_vars => ReadsStand'
    BY SerialReads
  <2> QED BY <2>1, <2>2, Invariance, PTL DEF Spec
<1> QED BY <1>1, <1>2, Invariance, PTL DEF Spec, NeverMoved

-----------------------------------------------------------------------------
(* The reports. *)

\* Split by any key of a delivery, the weights come to what they weigh together.
LEMMA SplitByKey ==
  ASSUME NEW D \in SUBSET Deliveries, NEW h, NEW K, IsFiniteSet(K), \A d \in D : h[d] \in K,
         NEW g, DOMAIN g = K, \A k \in K : g[k] = WeightOf(Fibre(D, h, k))
  PROVE  SumFunction(g) = WeightOf(D)
<1>1. IsFiniteSet(D) /\ \A d \in D : Weight[d] \in Int
  BY IntakeAssumption, FS_Subset
<1>2. \A k \in K : g[k] = SumFunctionOnSet(Weight, Fibre(D, h, k))
  BY DEF WeightOf
<1>3. SumFunctionOnSet(g, K) = SumFunctionOnSet(Weight, D)
  BY <1>1, <1>2, SumByKey
<1> QED
  BY <1>3 DEF SumFunction, WeightOf

\* Counted by any key, the deliveries come to as many as they are.
LEMMA SplitCount ==
  ASSUME NEW D \in SUBSET Deliveries, NEW h, NEW K, IsFiniteSet(K), \A d \in D : h[d] \in K,
         NEW g, DOMAIN g = K, \A k \in K : g[k] = Cardinality(Fibre(D, h, k))
  PROVE  SumFunction(g) = Cardinality(D)
<1>1. IsFiniteSet(D)
  BY IntakeAssumption, FS_Subset
<1>2. SumFunctionOnSet(g, K) = Cardinality(D)
  BY <1>1, CountByKey
<1> QED
  BY <1>2 DEF SumFunction

\* The dashboard's total, its split by grade, the operations summary and the
\* farmers' statements account for the same coffee in every state: each is a
\* sum of the same rows, whatever the assignments do (dashboard.service.ts,
\* report.service.ts).
THEOREM ReceivedSafe == Spec => []ReceivedAgrees
<1>1. TypeOK => ReceivedAgrees
  <2> SUFFICES ASSUME TypeOK PROVE ReceivedAgrees
    OBVIOUS
  <2> DEFINE own(f) == Fibre(registered, FarmerOf, f)
             grades(D) == {GradeOf[d] : d \in D}
             rows == {FarmerOf[d] : d \in registered}
  <2>1. registered \in SUBSET Deliveries
    BY DEF TypeOK
  <2>2. \A D \in SUBSET Deliveries : IsFiniteSet(grades(D)) /\ IsFiniteSet({FarmerOf[d] : d \in D})
    <3> SUFFICES ASSUME NEW D \in SUBSET Deliveries
                 PROVE  IsFiniteSet(grades(D)) /\ IsFiniteSet({FarmerOf[d] : d \in D})
      OBVIOUS
    <3>1. IsFiniteSet(D)
      BY IntakeAssumption, FS_Subset
    <3> QED
      BY <3>1, ImageFinite
  <2>3. SumFunction(GradeSplit) = ReceivedKg
    <3>1. PICK K, g : K = grades(registered) /\ g = GradeSplit
      OBVIOUS
    <3>2. /\ IsFiniteSet(K) /\ \A d \in registered : GradeOf[d] \in K
      BY <2>1, <2>2, <3>1
    <3>3. DOMAIN g = K /\ \A k \in K : g[k] = WeightOf(Fibre(registered, GradeOf, k))
      BY <3>1 DEF GradeSplit, Fibre
    <3>4. SumFunction(g) = WeightOf(registered)
      BY <2>1, <3>2, <3>3, SplitByKey
    <3> QED
      BY <3>1, <3>4 DEF ReceivedKg
  <2>4. ASSUME NEW f \in rows
        PROVE  /\ FarmerStatement[f].totalKg = WeightOf(own(f))
               /\ FarmerStatement[f].deliveryCount = Cardinality(own(f))
               /\ FarmerStatement[f].grades =
                    [g \in grades(own(f)) |-> Cardinality(Fibre(own(f), GradeOf, g))]
    BY DEF FarmerStatement, StatementOf, Fibre
  <2>5. DOMAIN FarmerStatement = rows
    BY DEF FarmerStatement
  <2>6. IsFiniteSet(rows) /\ \A d \in registered : FarmerOf[d] \in rows
    BY <2>1, <2>2
  <2> HIDE DEF own, rows
  <2>7. StatementTotals.totalKg = ReceivedKg
    <3> DEFINE g == [f \in rows |-> WeightOf(own(f))]
    <3>1. DOMAIN g = rows /\ \A f \in rows : g[f] = WeightOf(Fibre(registered, FarmerOf, f))
      BY DEF own
    <3>2. StatementTotals.totalKg = SumFunction(g)
      BY <2>4, <2>5 DEF StatementTotals
    <3> HIDE DEF g
    <3>3. SumFunction(g) = WeightOf(registered)
      BY <2>1, <2>6, <3>1, SplitByKey
    <3> QED
      BY <3>2, <3>3 DEF ReceivedKg
  <2>8. StatementTotals.deliveryCount = OperationsSummary.totalDeliveries
    <3> DEFINE g == [f \in rows |-> Cardinality(own(f))]
    <3>1. DOMAIN g = rows /\ \A f \in rows : g[f] = Cardinality(Fibre(registered, FarmerOf, f))
      BY DEF own
    <3>2. StatementTotals.deliveryCount = SumFunction(g)
      BY <2>4, <2>5 DEF StatementTotals
    <3> HIDE DEF g
    <3>3. SumFunction(g) = Cardinality(registered)
      BY <2>1, <2>6, <3>1, SplitCount
    <3> QED
      BY <3>2, <3>3 DEF OperationsSummary
  <2>9. ASSUME NEW f \in rows
        PROVE  FarmerStatement[f].deliveryCount = SumFunction(FarmerStatement[f].grades)
    <3>1. PICK D, K : D = own(f) /\ K = grades(own(f))
      OBVIOUS
    <3> DEFINE g == [k \in K |-> Cardinality(Fibre(D, GradeOf, k))]
    <3>2. D \in SUBSET Deliveries
      BY <2>1, <3>1 DEF own, Fibre
    <3>3. IsFiniteSet(K) /\ \A d \in D : GradeOf[d] \in K
      BY <2>2, <3>1, <3>2
    <3>4. DOMAIN g = K /\ \A k \in K : g[k] = Cardinality(Fibre(D, GradeOf, k))
      OBVIOUS
    <3>5. /\ FarmerStatement[f].deliveryCount = Cardinality(D)
          /\ FarmerStatement[f].grades = g
      BY <2>4, <3>1
    <3> HIDE DEF g
    <3>6. SumFunction(g) = Cardinality(D)
      BY <3>2, <3>3, <3>4, SplitCount
    <3> QED
      BY <3>5, <3>6
  <2>10. OperationsSummary.totalWeightKg = ReceivedKg
    BY DEF OperationsSummary, ReceivedKg
  <2> QED
    BY <2>3, <2>5, <2>7, <2>8, <2>9, <2>10 DEF ReceivedAgrees
<1> QED BY <1>1, TypeSafe, PTL
=============================================================================
