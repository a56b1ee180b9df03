SPECIFICATION FairSpec
CONSTANTS
  Enrollments = {e1}
  Nodes <- WaitNodes
  Source = "source"
  Kind <- SameKind
  TagConditions = {}
  Edge <- WaitEdge
  NoNode = NoNode
  Leases = {l1, l2}
  NoLease = NoLease
  Ticks = {t1, t2}
  Workers = {w1, w2}
  NoMessage = NoMessage
  MaxRetries = 1
  Limit <- Sequential
INVARIANTS
  OneToken
PROPERTIES
  FollowsJobMachine
  RunsToCompletion
