SPECIFICATION FairSpec
CONSTANTS
  f1 = f1
  f2 = f2
  full = full
  half = half
  bad = bad
  NoFile = NoFile
  NoTime = NoTime
  FullFrame = full
  Files <- MCOneFile
  Frames <- MCOneFrame
  BadFrames = {}
  Pixels <- MCPixels
  Times <- MCTimes
  Resolution = 2
  MaxExposures = 2
  MaxCommands = 1
  Patient = FALSE
  Faulty = FALSE
PROPERTIES
  FateResolved
