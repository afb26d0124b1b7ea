SPECIFICATION DavSpec
CONSTANTS
  p = p
  q = q
  q2 = q2
  phone = phone
  mac = mac
  guest = guest
  v = v
  w = w
  z = z
  red = red
  None = None
  Fresh = Fresh
  Operator = Operator
  a = a
  b = b
  sub = sub
  t = t
  u1 = u1
  u2 = u2
  m = m
  n = n
  x = x
  h1 = h1
  h2 = h2
  y = y
  Homes = {p, q, q2}
  Items = {1, 2}
  Devices = {phone, mac, guest}
  People = {u1, u2}
  Words = {v, w}
  Titles = {v, w, z}
  Payloads = {x}
  Colors = {red}
  Owner <- MCOwner
  ShareLevel <- MCShareLevel
  StartHomes <- MCStartHomes
  StartItems <- MCStartItems
  Calls = {h1, h2}
  Reader = mac
  MaxCalls = 3
  Folders = {a, b, sub, t}
  Files = {1, 2, 3}
  Users = {u1, u2}
  Names = {m, n}
  Contents = {x, y}
  Handlers = {h1, h2}
  Top = Top
  NoRow = NoRow
  Idle = Idle
  AnyContent = AnyContent
  New = New
  StartFolders <- MCStartFolders
  StartFiles <- MCStartFiles
  StartShares <- MCStartShares
  Kinds <- AllKinds
  MaxRequests = 2
  MaxRestructuring = 1
SYMMETRY Symmetric
CHECK_DEADLOCK FALSE
INVARIANTS  MovesEnd HomesSound
PROPERTIES WritesSafe CalendarWritesSafe
