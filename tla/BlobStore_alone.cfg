SPECIFICATION MC_Spec
CONSTANTS
  ann = ann
  bob = bob
  x = x
  y = y
  o1 = o1
  o2 = o2
  Users = {ann, bob}
  Blobs = {x, y}
  Objects = {o1, o2}
  Uploads = {1}
  OwnerOf <- MC_OwnerOf
  Payloads <- MC_Payloads
  System = System
  NoBlob = NoBlob
  NoRow = NoRow
  NoObject = NoObject
  Idle = Idle
  Jobs = {"gc", "repair", "backup"}
  MaintenanceAlone = TRUE
INVARIANTS ReferencesHeld JobsFinishTheirWork BackupComplete
PROPERTIES CountsStayExact
SYMMETRY Symmetric
CHECK_DEADLOCK FALSE
