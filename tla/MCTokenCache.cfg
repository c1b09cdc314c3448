\* Two handlers racing on two tokens and two sources, two of whose pairs share
\* a cache key, over three pruner ticks.
CONSTANTS
  h1 = h1
  h2 = h2
  Handlers <- MCHandlers
  Tokens <- MCTokens
  SourceIds <- MCSourceIds
  Interval = 2
  MaxTime = 6
SYMMETRY MCSymmetry
SPECIFICATION Spec
INVARIANT CachedYesRecent
