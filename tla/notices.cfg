\* One emission at a time beside changes of status, reads and deletions.
CONSTANTS
  owner = owner
  admin = admin
  staff = staff
  other = other
  farmer = farmer
  k1 = k1
  k2 = k2
  Users = {owner, admin, staff, other, farmer}
  Cooperatives = {k1, k2}
  Farmers = {f1}
  Batches = {b1}
  Events = {e1, e2}
  Readers = {farmer}
  None = None
  RoleOf <- MCRoleOf
  CoopOf <- MCCoopOf
  BatchCoop <- MCBatchCoop
  Contributors <- MCContributors
SPECIFICATION Spec
SYMMETRY Symmetry
INVARIANTS
  TypeOK
  ToldOnce
  OutcomeHeard
  StaysInCooperative
CHECK_DEADLOCK FALSE
