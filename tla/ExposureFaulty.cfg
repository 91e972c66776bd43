SPECIFICATION Spec
CONSTANTS
  f1 = f1
  f2 = f2
  full = full
  half = half
  bad = bad
  NoFile = NoFile
  NoTime = NoTime
  FullFrame = full
  Files <- MCOneFile
  Frames <- MCFullAndBad
  BadFrames <- MCBad
  Pixels <- MCPixels
  Times <- MCNegative
  Resolution = 2
  MaxExposures = 1
  MaxCommands = 1
  Patient = FALSE
  Faulty = TRUE
INVARIANTS
  TypeOK
  ClockBounded
  AnswersTruthful
CHECK_DEADLOCK FALSE
