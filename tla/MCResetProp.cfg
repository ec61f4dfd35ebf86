CONSTANTS
  p1 = p1
  p2 = p2
  k1 = k1
  k2 = k2
  ro_x = ro_x
  alias_x = alias_x
  Procs <- MCProcs
  Keys <- MCKeys
  Names <- MCNames
  Strip <- MCStrip
  Files <- MCFiles
  HasOverride = TRUE
  Values = {1}
  MaxCalls = 3
  MaxKills = 1
  MaxFaults = 1
  MaxRefusals = 1
  MaxOps = 2
  MaxMisses = 1
  MaxReboots = 1
SPECIFICATION ResetSpec
INVARIANTS
  FileIsWhole
  SetSurvivesInOrder
  LabelKept
  PromisesSurviveReboot
  OverrideFollows
PROPERTY
  CallChangesItsKeyOnly
CHECK_DEADLOCK FALSE
SYMMETRY MCSymmetry
