CONSTANTS
  a = a
  b = b
  c = c
  Sources <- MCSources
  Timestamps = {1, 2, 3, 4}
  Size = 3
  MaxPerSource = 2
  MaxIngress = 7
SPECIFICATION Spec
SYMMETRY MCSymmetry
INVARIANT TypeOK
INVARIANT CountMatchesIndexes
INVARIANT CapacityRespected
INVARIANT OldestValueTreeCoherent
PROPERTY EvictsOldestFirst
CHECK_DEADLOCK FALSE
