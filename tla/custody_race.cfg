\* One batch and two overlapping requests: every race on the life of a batch.
CONSTANTS
  Batches = {b1}
  Warehouses = {w1, w2}
  Requests = {r1, r2}
  RowIds = {i1, i2}
  Weights = {1}
  MaxTotal = 1
  CapacityKg = 1
  None = None
  Capacity <- MCCapacity
SPECIFICATION FairSpec
INVARIANTS
  OneOpenRow
  RowWithinTotal
  ProcessingBacked
  StorageBacked
  StoredEventBacked
  LockHeldByStore
PROPERTIES
  LockReleased
  EntersWithRow
