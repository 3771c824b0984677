--------------------------- MODULE IntakeReports ----------------------------
(***************************************************************************)
(* What the reports say of the deliveries: the dashboard's total and its   *)
(* split by grade, the operations summary, and the farmers' statements.    *)
(* Each is computed from the rows of deliveries in a way of its own; none  *)
(* looks at the batches.  Periods are left out: a report is over all time. *)
(***************************************************************************)
EXTENDS Intake

CONSTANTS
  Farmers,
  FarmerOf,     \* delivery -> who brought it
  Grades,
  GradeOf,      \* delivery -> its grade, None where it has none
  Price         \* delivery -> its price per kg, None where it has none

ASSUME IntakeReportsAssumption ==
  /\ FarmerOf \in [Deliveries -> Farmers]
  /\ GradeOf \in [Deliveries -> Grades \cup {None}]
  /\ None \notin Grades
  /\ Graded = {d \in Deliveries : GradeOf[d] # None}
  /\ Price \in [Deliveries -> Nat \cup {None}]

\* The dashboard's figure, and its chart's: an aggregate over all rows.
ReceivedKg == WeightOf(registered)

\* getOperationsSummary, its part over deliveries; the mean to the hundredth.
OperationsSummary ==
  LET n == Cardinality(registered)
  IN  [totalDeliveries |-> n,
       totalWeightKg   |-> WeightOf(registered),
       avgWeight       |-> IF n = 0 THEN 0
                           ELSE (200 * WeightOf(registered) + n) \div (2 * n)]

\* A slip: deliveries without a grade are left out of the split.
GradeSplitGraded ==
  [g \in {GradeOf[d] : d \in registered \cap Graded} |->
     WeightOf({d \in registered : GradeOf[d] = g})]

\* getGradeSplit: a slice for every grade that has weight; None is "Ungraded".
GradeSplit ==
  [g \in {GradeOf[d] : d \in registered} |->
     WeightOf({d \in registered : GradeOf[d] = g})]

\* getFarmerStatement folds the deliveries of a farmer into an entry: what is
\* not priced adds weight and no value.
StatementOf(f) ==
  LET own == {d \in registered : FarmerOf[d] = f}
  IN  [deliveryCount |-> Cardinality(own),
       totalKg       |-> WeightOf(own),
       totalValue    |-> SumFunction([d \in {x \in own : Price[x] # None} |->
                                        Weight[d] * Price[d]]),
       grades        |-> [g \in {GradeOf[d] : d \in own} |->
                            Cardinality({d \in own : GradeOf[d] = g})]]

\* A row for every farmer who delivered, and no other.
FarmerStatement == [f \in {FarmerOf[d] : d \in registered} |-> StatementOf(f)]

StatementTotals ==
  LET rows == DOMAIN FarmerStatement
  IN  [deliveryCount |-> SumFunction([f \in rows |-> FarmerStatement[f].deliveryCount]),
       totalKg       |-> SumFunction([f \in rows |-> FarmerStatement[f].totalKg])]

\* Every report accounts for the same coffee: the split by grade, the farmers'
\* statements and the summary come to what the dashboard received, and every
\* delivery is counted under one grade of one statement.
ReceivedAgrees ==
  /\ SumFunction(GradeSplit) = ReceivedKg
  /\ StatementTotals.totalKg = ReceivedKg
  /\ OperationsSummary.totalWeightKg = ReceivedKg
  /\ StatementTotals.deliveryCount = OperationsSummary.totalDeliveries
  /\ \A f \in DOMAIN FarmerStatement :
       FarmerStatement[f].deliveryCount = SumFunction(FarmerStatement[f].grades)
=============================================================================
