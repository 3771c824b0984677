\* The whole life of two batches, one request at a time, and the reports on it.
CONSTANTS
  Batches = {b1, b2}
  Warehouses = {w1}
  Requests = {r1}
  RowIds = {i1, i2, i3}
  Weights = {2}
  MaxTotal = 2
  CapacityKg = 4
  None = None
  Capacity <- MCCapacity
  Sellers = {s1}
  Transfers = {t1, t2}
  Lots = {}
  Members <- MCMembers
  Singles = {b1, b2}
  ProcessingIds = {p1, p2}
  Outputs = {1}
SPECIFICATION SerialSpec
SYMMETRY Symmetry
INVARIANTS
  ConfirmedStaysSold
  HandoverOnce
  OpenRowInStorage
  BooksAgree
PROPERTIES
  LegalTransitions
