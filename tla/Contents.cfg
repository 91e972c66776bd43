SPECIFICATION ObjectSpec
CONSTANTS
  low = low
  up = up
  finest = finest
  fine = fine
  coarse = coarse
  Sp = Sp
  Joint = Joint
  Zero = zero
  UnknownError = unknown
  Success = zero
  TempOff = zero
  Pieces <- MCPieces
  Upper <- MCUpper
  Numbers <- MCNumbers
  Given <- MCGiven
  Whole <- MCWhole
  Rounded12 <- MCRounded12
  Rounded6 <- MCRounded6
  Texts <- MCTexts
  Vectors <- MCVectors
  StatusTexts <- MCStatusTexts
  MaxLength = 14
INVARIANTS
  CommandUnderstood
  AnswerUnderstood
  StateUnderstood
  SentOrStale
