\* Two processes configured as a cmd/log-cache cluster, one alone and one
\* without ADDR start, serve and one of them is closed, while the scheduler
\* swaps the cluster's sources and back and envelopes are ingested and
\* forwarded.
CONSTANTS
  N = 4
  Envelopes <- MCEnvelopes
  Src <- MCSrc
  Assignments <- MovingAssignments
  Envs <- ClusterEnvs
  Scheduled = {0, 1}
  Fed <- ClusterFed
  DefaultAddr = "DefaultAddr"
  Closed = {0}
SPECIFICATION Spec
INVARIANT StoredWhereOwned
INVARIANT CloseNeverFatal
INVARIANT StandaloneStoresLocally
PROPERTY LocalOnlyNeverForwards
\* Once every envelope has been ingested and handled, nothing is left to do.
CHECK_DEADLOCK FALSE
