CONSTANTS
  p1 = p1
  p2 = p2
  k1 = k1
  k2 = k2
  Procs <- MCProcs
  Keys <- MCKeys
  Values = {1}
  MaxCalls = 2
  MaxKills = 0
  MaxFaults = 0
  MaxRefusals = 0
SPECIFICATION Spec
INVARIANT
  SetSurvives
CHECK_DEADLOCK FALSE
