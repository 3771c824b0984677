\* Two appends in flight on two batches, each stamped later than the last.
CONSTANTS
  Batches = {b1, b2}
  Payloads = {p1}
  Writers = {w1, w2}
  MaxEvents = 2
  MaxTime = 3
  ClockLag = 1
  StampsAdvance = TRUE
  BlockHash <- MCBlockHash
  None = None
SPECIFICATION FairSpec
INVARIANTS
  ChainVerifies
  NoFork
  TxHashUnique
PROPERTIES
  LockReleased
  HistoryAppendOnly
