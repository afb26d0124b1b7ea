SPECIFICATION FairSpec
CONSTANTS
  ann = ann
  bob = bob
  d1 = d1
  d2 = d2
  o1 = o1
  o2 = o2
  c1 = c1
  c2 = c2
  Users = {ann, bob}
  Devices = {d1, d2}
  Objects = {o1}
  Collections = {c1, c2}
  UserOf <- MC_TwoUsers
  OwnerOf <- MC_OwnedByAnn
  Shares <- MC_SharedC1
  PageSize = 2
  None = None
  Idle = Idle
  Doomed = {c1}
  Traffic = {"pair", "gc", "move"}
  MaxSeq = 3
  MaxLosses = 1
INVARIANTS CopiesSound NothingNeededCompacted
PROPERTY EventuallySynced
CHECK_DEADLOCK FALSE
