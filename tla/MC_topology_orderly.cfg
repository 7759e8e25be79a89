\* Every shape of a pipeline of four elements, then orderly changes to it.
CONSTANTS
  Root = "pipeline"
  Elements = {"bin", "src", "in", "out"}
  Parent <- NestedParent
  Name <- NestedName
  Pads <- NestedPads
  Threads = {"app"}
  Orderly = TRUE
  MaxChanges = 4
  MaxRequests = 1
SPECIFICATION Spec
CHECK_DEADLOCK FALSE
INVARIANTS TypeOK SnapshotIsFaithful 
