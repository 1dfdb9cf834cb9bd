SPECIFICATION TaskSpec
CONSTANTS
  t1 = t1
  t2 = t2
  Task <- MCTask
  MaxActive = 1
  MaxCrash = 1  CrashAt = {1}
  MaxToggle = 2
SYMMETRY Symmetry
INVARIANTS LiveWithinLimit KillSwitchKills SessionEndKills
