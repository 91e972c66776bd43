SPECIFICATION FairSpec
CONSTANTS
  g1 = g1
  Guis <- MCGuis
  MaxChanges = 2
  MaxSessions = 2
PROPERTIES
  GuisKnow
  NeverBackwards
CHECK_DEADLOCK FALSE
