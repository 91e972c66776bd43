SPECIFICATION Spec
CONSTANTS
  Detector <- MCDetector
  MaxBin = 4
  Limit = 32
  Frames <- MCFrames
  MaxFrames = 2
INVARIANTS
  AnsweredRight
  RegionRight
  ImageTruthful
CHECK_DEADLOCK FALSE
