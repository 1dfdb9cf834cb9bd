SPECIFICATION TaskSpec
CONSTANTS
  t1 = t1
  t2 = t2
  Task = {t1}
  MaxActive = 1
  MaxCrash = 0  CrashAt = {1}
  MaxToggle = 0
PROPERTY DisconnectEndsTasks
