CONSTANTS
  w1 = w1
  w2 = w2
  Writers = {w1, w2}
  Keys <- MCKeys
  KeyLen <- MCKeyLen
  Values <- MCValues
  DataSize = 364
  MaxKills = 1
SYMMETRY MCWriters
SPECIFICATION Spec
INVARIANTS
  TypeOK
  LinksLead
  NoOverlap
  RemoveLeavesNoDeadNode
PROPERTY
  ImplementsLiveStore
