\* Two overlapping requests: one rejects the batch the other moves on.
CONSTANTS
  Batches = {b1}
  Warehouses = {w1}
  Requests = {r1, r2}
  RowIds = {i1, i2}
  Weights = {1}
  MaxTotal = 1
  CapacityKg = 1
  None = None
  Capacity <- MCCapacity
SPECIFICATION Spec
PROPERTY
  StaysRejected
