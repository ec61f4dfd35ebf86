CONSTANTS
  Values <- MCValues
  ValLen <- MCValLen
  ReadModes = {}
  MaxCalls = 1
  MaxInfos = 1
  MaxKills = 0
  MaxOthers = 0
  OldValues <- MCExists
  Timeouts = {FALSE}
SPECIFICATION WSpec
PROPERTY
  WaitReturns
CHECK_DEADLOCK FALSE
