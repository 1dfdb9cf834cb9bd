SPECIFICATION Spec
CONSTANTS
  t1 = t1
  t2 = t2
  Token <- MCToken
  NoToken = NoToken
INVARIANT
  FreezeSurvivesRestart
