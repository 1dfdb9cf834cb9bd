SPECIFICATION Spec
CONSTANTS
  a1 = a1  a2 = a2  r1 = r1  r2 = r2
  u1 = u1  u2 = u2  u3 = u3  n1 = n1  n2 = n2
  s1 = s1  s2 = s2  i1 = i1  v1 = v1  v2 = v2
  x1 = x1  x2 = x2  x3 = x3  t1 = t1  t2 = t2  b1 = b1  b2 = b2  h1 = h1  h2 = h2  k1 = k1  k2 = k2
  Account = {a1, a2}  Code = {c1}  Gift = {g1}  Request = {r1, r2}
  Default = {1}  MaxUsed = 1  MaxRequest = 1  MaxFrame = 1  NoOne = NoOne
  UserId = {u1, u2, u3}  Name = {n1, n2}  NameOf <- Owner2  OwnerName = n2
  Session = {s1, s2}  Invite = {i1}  Visit = {v1, v2}  MaxHash = 2  Nobody = Nobody
  Device = {d1}  Client = {k1, k2}  Challenge = {x1, x2, x3}  Attempt = {t1, t2}
  Lifetime = 1  ClientHour = 1  MaxClients = 1  MaxConsumed = 1  MaxTime = 2
  NoDevice = NoDevice  NoClient = NoClient  NoChallenge = NoChallenge
  Key = {b1, b2, b3}  Limit = 1  Window = 2  Hour = 2  MaxRates = 2
  Hasher = {h1, h2}  Slots = 1  MaxTick = 4
SYMMETRY Symmetry
INVARIANTS UsageIsExact SessionsHold AccountsAgree ProofsHold BurstIsBounded
PROPERTIES CountsAreKept FrozenOnlyReduces
CHECK_DEADLOCK FALSE
