SPECIFICATION ClientsSpec
CONSTANTS
  None = None
  Null = Null
  p1 = p1
  p2 = p2
  p3 = p3
  p4 = p4
  al = al
  al2 = al2
  t1 = t1
  t2 = t2
  n1 = n1
  n2 = n2
  ServerMade = ServerMade
  a1 = a1
  m1 = m1
  d1 = d1
  d2 = d2
  u1 = u1
  u2 = u2
  c1 = c1
  c2 = c2
  c3 = c3
  o1 = o1
  o2 = o2
  x = x
  y = y
  k1 = k1
  k2 = k2
  h1 = h1
  h2 = h2
  Devices <- TwoDevices
  Users = {u1}
  Collections <- TwoCollections
  Objects = {o1}
  Contents = {x}
  Keys = {k1}
  Handlers = {h1, h2}
  UserOf <- MCOwnUserOf
  OwnerOf <- MCOwnOwnerOf
  MirrorOf <- MCOwnMirrorOf
  SystemDevices = {}
  NoObject = NoObject
  NoKey = NoKey
  NoMirror = NoMirror
  NoResult = NoResult
  Idle = Idle
  Traffic = {"push", "tree"}
  MaxSeq = 3
  MaxBatch = 1
  People = {u1}
  Albums = {al, al2}
  PhotoIds = {p1, p2, p3, p4}
  Names = {n1, n2}
  Originals <- MCOriginals
  Decodable <- MCDecodable
  Movies = {m1}
  Thumbs = {t1, t2}
  AlbumLevel <- MCAlbumLevel
  StartPhotos <- MCStartPhotos
  StartHeld <- MCStartHeld
  Requests = {h1, h2}
  MaxRequests = 2
  MaxTiles = 1
  Assets = {a1}
  Phone = u1
  MovieOf <- MCMovieOf
  NameOf <- MCNameOf
  MaxVersion = 2
  MaxKills = 1
  MaxTasks = 2
  MaxFaults = 1
  Values = {0, 1}
  Keeps = {1, 2}
  Interval = 1
  MaxClock = 2
  MaxSaves = 2
  MaxDeaths = 1
  MaxBack = 1
  Off = Off
  Processes = {h1, h2}
  Cols = {1, 2, 3}
  Old = {o1}
  New = {o2}
  Blobs = {x, y}
  Owner = u1
  MaxEnds = 1
SYMMETRY SymmetricParts
CHECK_DEADLOCK FALSE
INVARIANTS BackupSound MigratedSound
PROPERTIES ListedObjectsDeletedFirst  
