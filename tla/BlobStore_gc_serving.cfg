SPECIFICATION Spec
CONSTANTS
  ann = ann
  bob = bob
  x = x
  y = y
  o1 = o1
  o2 = o2
  Users = {ann, bob}
  Blobs = {x, y}
  Objects = {o1}
  Uploads = {1}
  OwnerOf <- MC_OwnerOf
  Payloads <- MC_SmallPayloads
  System = System
  NoBlob = NoBlob
  NoRow = NoRow
  NoObject = NoObject
  Idle = Idle
  Jobs = {"gc"}
  MaintenanceAlone = FALSE
INVARIANTS NoDanglingReference
CHECK_DEADLOCK FALSE
