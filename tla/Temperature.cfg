SPECIFICATION FairSpec
CONSTANTS
  t1 = t1
  t2 = t2
  Temps <- MCTemps
  cold = cold
  Good <- MCGood
  Busy = Busy
  Garbage = Garbage
  Fake = Fake
  MaxDrifts = 1
  MaxRequests = 3
  MaxFaults = 1
  KeyFaults = FALSE
INVARIANTS
  TypeOK
  TempTruthful
  CoolerTruthful
PROPERTIES
  Answered
  ServerKnows
CHECK_DEADLOCK FALSE
