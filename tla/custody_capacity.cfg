\* Two batches compete for the room of one warehouse.
CONSTANTS
  Batches = {b1, b2}
  Warehouses = {w1}
  Requests = {r1, r2}
  RowIds = {i1, i2}
  Weights = {1}
  MaxTotal = 1
  CapacityKg = 1
  None = None
  Capacity <- MCCapacity
SPECIFICATION Spec
SYMMETRY Symmetry
INVARIANTS
  CapacityRespected
