CONSTANTS
  Values <- MCValues
  ValLen <- MCValLen
  ReadModes = {"libc", "read_prop"}
  MaxCalls = 3
  MaxInfos = 2
  MaxKills = 1
  MaxOthers = 1
SPECIFICATION Spec
INVARIANTS
  TypeOK
  CleanSerialMeansWholeValue
  TornOnlyBehindASilentWrite
  NoTraceAtRest
PROPERTIES
  ReadReturns
  ChangeSeenBeforeItIsAnnounced
CHECK_DEADLOCK FALSE
