\* The topology asked for twice, then one orderly change.
CONSTANTS
  Root = "pipeline"
  Elements = {"bin", "src", "in"}
  Parent <- SmallParent
  Name <- SmallName
  Pads <- SmallPads
  Threads = {"app"}
  Orderly = TRUE
  MaxChanges = 1
  MaxRequests = 2
SPECIFICATION Spec
CHECK_DEADLOCK FALSE
INVARIANTS RemovedIsGone
