SPECIFICATION EntranceSpec
CONSTANTS
  Requests = {e1, e2, e3}
  Workers = {h1, h2}
  Skew = 2
  BodyTime = 2
  Ahead = 1
  SweepEvery = 2
  MaxNonces = 2
  Nothing = Nothing
  MaxTime = 8
  Users = {u1}
  Devices = {e1, e2, e3}
  WebLogins = {l1}
  Handlers = {h1, h2}
  MaxAppPasswords = 1
  None = None
  u2 = u2
  s1 = s1
  People = {u1, u2}
  Owner = u1
  Invites = {k1}
  Sessions = {s1, s2}
  Callers = {h1, h2}
  MaxAttempts = 1
  MaxActive = 1
  MaxUses = 2
  Absent = Absent
  Gone = Gone
SYMMETRY Symmetric
INVARIANTS  CacheBounded EndedStaysOut PasswordsCapped InvitesWithinUses AttemptsBounded
PROPERTIES AdminRemains RevokedInvitesOpenNothing
CHECK_DEADLOCK FALSE
