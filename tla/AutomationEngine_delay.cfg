SPECIFICATION FairSpec
CONSTANTS
  Enrollments = {e1}
  Nodes <- DelayNodes
  Source = "source"
  Kind <- SameKind
  TagConditions = {}
  Edge <- DelayEdge
  NoNode = NoNode
  Leases = {l1, l2}
  NoLease = NoLease
  Ticks = {t1}
  Workers = {w1}
  NoMessage = NoMessage
  MaxRetries = 1
  Limit <- Calm
PROPERTIES
  RunsToCompletion
