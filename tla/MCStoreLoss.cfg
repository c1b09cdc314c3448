\* Spec 3 / 8.3 and store_test: envelopes with equal timestamps are all kept.
CONSTANTS
  a = a
  b = b
  c = c
  Sources <- MCSources
  Timestamps = {1, 2, 3, 4}
  Size = 3
  MaxPerSource = 2
  MaxIngress = 7
SPECIFICATION Spec
SYMMETRY MCSymmetry
INVARIANT NoSilentLoss
CHECK_DEADLOCK FALSE
