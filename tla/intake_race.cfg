\* Two assignments overlap on three deliveries and two batches.
CONSTANTS
  Batches = {b1, b2}
  Deliveries = {d1, d2, d3}
  Heavy = {d2}
  Graded = {d1}
  Weight <- MCWeight
  Requests = {r1, r2}
  None = None
  ByFirst = {d1, d2}
  Farmers <- MCFarmers
  FarmerOf <- MCFarmerOf
  Grades = {"AA"}
  GradeOf <- MCGradeOf
  Price <- MCPrice
SPECIFICATION Spec
INVARIANTS
  TotalCovers
  GradeBacked
  ReceivedAgrees
PROPERTIES
  TotalGrows
CHECK_DEADLOCK FALSE
