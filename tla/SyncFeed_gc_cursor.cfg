SPECIFICATION Spec
CONSTANTS
  ann = ann
  bob = bob
  d1 = d1
  d2 = d2
  o1 = o1
  o2 = o2
  c1 = c1
  c2 = c2
  Users = {ann, bob}
  Devices = {d1}
  Objects = {o1, o2}
  Collections = {c1}
  UserOf <- MC_OneUser
  OwnerOf <- MC_OwnedByAnn
  Shares <- MC_SharedC1
  PageSize = 2
  None = None
  Idle = Idle
  Doomed = {}
  Traffic = {"gc"}
  MaxSeq = 3
  MaxLosses = 0
INVARIANT CursorsWithinHead
CHECK_DEADLOCK FALSE
