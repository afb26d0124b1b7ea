SPECIFICATION Spec
CONSTANTS
  d1 = d1
  d2 = d2
  u1 = u1
  u2 = u2
  c1 = c1
  c2 = c2
  c3 = c3
  o1 = o1
  o2 = o2
  x = x
  y = y
  k1 = k1
  k2 = k2
  h1 = h1
  h2 = h2
  Devices <- TwoDevices
  Users = {u1}
  Collections <- TwoCollections
  Objects = {o1}
  Contents = {x}
  Keys = {k1, k2}
  Handlers = {h1, h2}
  UserOf <- MCOwnUserOf
  OwnerOf <- MCOwnOwnerOf
  MirrorOf <- MCOwnMirrorOf
  SystemDevices = {}
  NoObject = NoObject
  NoKey = NoKey
  NoMirror = NoMirror
  NoResult = NoResult
  Idle = Idle
  Traffic = {"push", "tree"}
  MaxSeq = 4
  MaxBatch = 1
SYMMETRY Symmetric
CHECK_DEADLOCK FALSE
INVARIANTS NoObjectLeftBehind
