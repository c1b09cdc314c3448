\* Every AVL shape over up to four timestamps, two envelope kinds, ranges
\* that start and end below, at, inside and above the stored keys, limits
\* below, at and above the number of matches.
CONSTANTS
  Keys = {1, 2, 3, 4}
  EnvelopeTypes = {"log", "counter"}
  Times = {0, 1, 3, 5}
  Limits = {1, 2, 3}
  MaxEgress = 3
  Nil = Nil
SPECIFICATION Spec
INVARIANT TypeOK
INVARIANT GetMatchesScan
\* Get only reads; the run stops when the Egress bound is reached.
CHECK_DEADLOCK FALSE
