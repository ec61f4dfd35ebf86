CONSTANTS
  Values <- MCValues
  ValLen <- MCValLen
  ReadModes = {}
  MaxCalls = 3
  MaxInfos = 2
  MaxKills = 1
  MaxOthers = 1
  OldValues <- MCOldValues
  Timeouts = {TRUE, FALSE}
SPECIFICATION WSpec
INVARIANTS
  TrueIsEarned
  OnlyTheWindowLosesAWakeup
PROPERTY
  TimedWaitReturns
CHECK_DEADLOCK FALSE
