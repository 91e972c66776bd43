SPECIFICATION Spec
CONSTANTS
  Options <- MCOptions
  Values = {"a", "b", "c"}
  KnownValues = {"a", "b"}
  Files = {"f1", "f2", "f3", "h2"}
  NoFile = "none"
  Standard <- MCStandard
  MaxClients = 3
  MaxRefusals = 1

  
  
PROPERTIES
  Delivered
CHECK_DEADLOCK FALSE
