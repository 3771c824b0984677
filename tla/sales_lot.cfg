\* A lot of two stored batches: two requests create, sell and confirm it, in
\* every overlap.  No single transfers.
CONSTANTS
  Batches = {b1, b2}
  Warehouses = {w1}
  Requests = {}
  RowIds = {i1, i2}
  Weights = {1}
  MaxTotal = 1
  CapacityKg = 2
  None = None
  ProcessingIds = {}
  Outputs = {}
  Capacity <- MCCapacity
  Sellers = {s1, s2}
  Transfers = {t1, t2, t3, t4}
  Lots = {g1}
  Members <- MCMembers
  Singles = {}
\* With its one lot sold the instance has nothing left to do.
CHECK_DEADLOCK FALSE
SPECIFICATION StoredSpec
SYMMETRY Symmetry
INVARIANTS
  LotSoldWhole
