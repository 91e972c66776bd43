SPECIFICATION Spec
CONSTANTS
  Controls <- MCControls
  MaxCommands = 4
INVARIANTS
  SettingsMade
  StartSafe
  InitTruthful
CHECK_DEADLOCK FALSE
