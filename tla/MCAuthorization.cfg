SPECIFICATION AuthorizationSpec
CONSTANTS
  u1 = u1
  u2 = u2
  d1 = d1
  agent = agent
  chat = chat
  g1 = g1
  g2 = g2
  None = None
  User <- MCUser
  Device = {d1}
  Client = {agent, chat}
  Grant <- MCGrant
  DeviceOf <- MCDeviceOf
  Switch = {"all"}
  MaxPair = 3
  MaxRotation = 1
  t1 = t1
  t2 = t2
  Token <- MCToken
  NoToken = NoToken
SYMMETRY Symmetry
INVARIANTS
  RevocationHolds MemoryIsDurable StopHolds UnsavedRevocationNeedsRelease
  RecordsIntact SingleHead EndedStaysEnded RotationEnds DeviceKeepsOwner
PROPERTIES ImplementsPromise DecidedOnce
