CONSTANTS
  Keys <- MCFewKeys
  KeyLen <- MCFewKeyLen
  Values <- MCFewValues
  DataSize = 348
SPECIFICATION CSpec
INVARIANT
  BackupRoomReserved
