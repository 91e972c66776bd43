SPECIFICATION FairSpec
CONSTANTS
  a = a
  b = b
  stranger = stranger
  NoClient = NoClient
  Clients <- MCClients
  Allowed <- MCAllowed
  MaxCommands = 2
INVARIANTS
  OneClient
  AnswersToAsker
PROPERTIES
  Answered
  FreedAgain
CHECK_DEADLOCK FALSE
