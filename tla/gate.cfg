\* Two servers, two overlapping requests.
CONSTANTS
  Servers = {s1, s2}
  Requests = {r1, r2}
  LongTTL = 1
  ShortTTL = 1
  MaxTime = 2
  Writer = s2
  None = None
  TTL <- MCTTL
SPECIFICATION InstanceSpec
SYMMETRY Symmetry
INVARIANTS
  WithdrawalBinds
  OwnChangeSeen
