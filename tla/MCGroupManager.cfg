CONSTANTS
  g1 = g1
  g2 = g2
  s1 = s1
  s2 = s2
  r1 = r1
  r2 = r2
  Names <- MCNames
  SourceIds <- MCSourceIds
  Requesters <- MCRequesters
  RequesterTimeout = 2
  MaxTime = 3
  MaxGroupSources = 2
SPECIFICATION Spec
SYMMETRY MCSymmetry
CONSTRAINT GroupRespBeforeTick
INVARIANT TypeOK
INVARIANT StorageSourcesMatchGroups
INVARIANT TrackedRequestersKnown
PROPERTY ReadExpiresStale
