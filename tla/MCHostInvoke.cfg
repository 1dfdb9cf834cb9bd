SPECIFICATION HostSpec
CONSTANTS
  p1 = p1  p2 = p2  r1 = r1  r2 = r2  f1 = f1  f2 = f2
  w1 = w1  w2 = w2  c1 = c1  c2 = c2  o1 = o1  o2 = o2  i1 = i1  i2 = i2
  Proc = {p1, p2}  Resource = {r1, r2}  Family = {f1, f2}  MaxGen = 2  NoCred = NoCred  NoProc = NoProc
  Agent = {p1}  DeviceOf <- Device1
  Path = {w1, w2}  Call = {c1, c2}  MaxVer = 3  NoFile = NoFile
  Tool = {o1, o2}  MaxSession = 3  NoTool = NoTool
  MaxNode = 4  UiBounds <- UiLimits
  Cli = {i1, i2}  MaxRelease = 3  MaxKey = 3
INVARIANT InvokedIsUnique
CHECK_DEADLOCK FALSE
