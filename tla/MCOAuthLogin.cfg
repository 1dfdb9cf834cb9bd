SPECIFICATION TokensSpec
CONSTANTS
  u1 = u1
  u2 = u2
  d1 = d1
  agent = agent
  chat = chat
  g1 = g1
  g2 = g2
  None = None
  User = {u1}
  Device = {d1}
  Client = {agent}
  Grant = {g1}
  DeviceOf <- MCDeviceOf
  Switch = {"all"}
  MaxPair = 1
  MaxRotation = 1

INVARIANT LoginIsCurrent
