\* One farmer, two accounts, two overlapping requests.
CONSTANTS
  Users = {u1, u2}
  Contactable = {u1}
  Farmers = {f1}
  Requests = {r1, r2}
  MaxFailed = 2
  MaxEnds = 2
  Idlers = {u2}
  None = None
SPECIFICATION InstanceSpec
SYMMETRY Symmetry
INVARIANTS
  TypeOK
  EndedSessionsStayEnded
  UnclaimedReachesNothing
  IssuedIsLinked
  DeletedIsBarred
PROPERTY
  LockLifted
