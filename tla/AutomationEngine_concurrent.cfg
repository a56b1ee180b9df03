SPECIFICATION Spec
CONSTANTS
  Enrollments = {e1}
  Nodes <- ForkNodes
  Source = "source"
  Kind <- SameKind
  TagConditions = {"condition"}
  Edge <- ForkEdge
  NoNode = NoNode
  Leases = {l1, l2}
  NoLease = NoLease
  Ticks = {t1}
  Workers = {w1, w2}
  NoMessage = NoMessage
  MaxRetries = 0
  Limit <- Concurrent
SYMMETRY Symmetry
INVARIANTS
  TypeOK
  LeaseConsistency
  TokenNotLost
  NothingSkipped
