CONSTANTS
  Values <- MCSameLength
  ValLen <- MCSameLengthLen
  ReadModes = {"libc"}
  MaxCalls = 2
  MaxInfos = 1
  MaxKills = 0
  MaxOthers = 0
SPECIFICATION Spec
INVARIANT
  NoTornRead
CHECK_DEADLOCK FALSE
