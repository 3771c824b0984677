\* One batch, from its registration on: two confirmations overlap each other
\* and one request of Custody.
CONSTANTS
  Batches = {b1}
  Warehouses = {w1}
  Requests = {r1}
  RowIds = {i1, i2}
  Weights = {1}
  MaxTotal = 1
  CapacityKg = 1
  None = None
  Capacity <- MCCapacity
  Sellers = {s1, s2}
  Transfers = {t1, t2}
  Lots = {}
  Members <- MCMembers
  Singles = {b1}
  ProcessingIds = {}
  Outputs = {}
SPECIFICATION SalesSpec
SYMMETRY Symmetry
INVARIANTS
  SalesTypeOK
  SoldBacked
  HandoverBacked
PROPERTY
  FirstSaleSellsBatch
