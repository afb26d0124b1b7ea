SPECIFICATION Spec
CONSTANTS
  d1 = d1
  d2 = d2
  u1 = u1
  u2 = u2
  c1 = c1
  c2 = c2
  c3 = c3
  o1 = o1
  o2 = o2
  x = x
  y = y
  k1 = k1
  k2 = k2
  h1 = h1
  h2 = h2
  Devices <- TwoDevices
  Users <- TwoUsers
  Collections <- ThreeCollections
  Objects = {o1, o2}
  Contents = {x}
  Keys = {k1}
  Handlers = {h1}
  UserOf <- MCUserOf
  OwnerOf <- MCOwnerOf
  MirrorOf <- MCMirrorOf
  SystemDevices = {}
  NoObject = NoObject
  NoKey = NoKey
  NoMirror = NoMirror
  NoResult = NoResult
  Idle = Idle
  Traffic = {"push", "share", "revoke", "tree"}
  MaxSeq = 3
  MaxBatch = 1
CHECK_DEADLOCK FALSE
PROPERTIES WritesAuthorized ObjectsAdvance
