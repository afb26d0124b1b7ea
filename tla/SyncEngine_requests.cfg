SPECIFICATION Spec
CONSTANTS
  d1 = d1
  d2 = d2
  u1 = u1
  u2 = u2
  c1 = c1
  c2 = c2
  c3 = c3
  o1 = o1
  o2 = o2
  x = x
  y = y
  k1 = k1
  k2 = k2
  h1 = h1
  h2 = h2
  Devices = {d1}
  Users = {u1}
  Collections = {c1}
  Objects = {o1}
  Contents = {x, y}
  Keys = {k1, k2}
  Handlers = {h1, h2}
  UserOf <- MCOneUserOf
  OwnerOf <- MCOneOwnerOf
  MirrorOf <- MCOneMirrorOf
  SystemDevices = {}
  NoObject = NoObject
  NoKey = NoKey
  NoMirror = NoMirror
  NoResult = NoResult
  Idle = Idle
  Traffic = {"push", "ack"}
  MaxSeq = 3
  MaxBatch = 2
SYMMETRY Symmetric
CHECK_DEADLOCK FALSE
INVARIANTS JournalFaithful ResultsMatchJournal 
PROPERTIES CursorsAdvance ImplementsSyncService
