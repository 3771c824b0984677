\* Two transfers of one batch, confirmed one after the other.
CONSTANTS
  Batches = {b1}
  Warehouses = {w1}
  Requests = {}
  RowIds = {i1, i2}
  Weights = {1}
  MaxTotal = 1
  CapacityKg = 2
  None = None
  ProcessingIds = {}
  Outputs = {}
  Capacity <- MCCapacity
  Sellers = {s1}
  Transfers = {t1, t2}
  Lots = {}
  Members <- MCMembers
  Singles = {b1}
CHECK_DEADLOCK FALSE
SPECIFICATION StoredSpec
INVARIANT
  SoldOnce
