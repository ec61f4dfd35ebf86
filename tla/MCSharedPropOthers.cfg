CONSTANTS
  Values <- MCSameLength
  ValLen <- MCSameLengthLen
  ReadModes = {}
  MaxCalls = 2
  MaxInfos = 1
  MaxKills = 0
  MaxOthers = 2
SPECIFICATION Spec
PROPERTY
  AreaSerialAdvances
CHECK_DEADLOCK FALSE
