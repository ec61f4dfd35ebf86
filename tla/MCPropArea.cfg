CONSTANTS
  Keys <- MCKeys
  KeyLen <- MCKeyLen
  Values <- MCValues
  DataSize = 420
SPECIFICATION CSpec
INVARIANTS
  TypeOK
  TrieAscends
  OwnersAscend
  NoOverlap
  LookupAgreesWithIteration
  EveryObjectOwned
  SerialTellsLayout
  CompactLeavesNoHole
PROPERTY
  ImplementsStore
