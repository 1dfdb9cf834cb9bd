SPECIFICATION Spec
CONSTANTS
  d1 = d1  p1 = p1  p2 = p2  c1 = c1  t1 = t1  rd1 = rd1
  Device = {d1}  Peer = {p1, p2}  CallId = {c1}  MaxCalls = 1  MaxConnections = 1  None = None
  Task = {t1}  MaxActive = 1  MaxCrash = 1  CrashAt = {1}  MaxToggle = 3
  Reader = {rd1}  MaxOut = 4  TtyCap = 2  MaxLog = 3  Limit = 2
INVARIANT LogHolds
PROPERTIES
  RevocationCloses RevokedCallerEnds ClosedPeerLeaves
  KillSwitchPrevails KilledIsSettled TerminalNotOverwritten FinishedStaysFinished
  EofIsReached
CHECK_DEADLOCK FALSE
