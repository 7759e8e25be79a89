\* Two threads that change the pipeline at any time, also under the walk.
CONSTANTS
  Root = "pipeline"
  Elements = {"bin", "src", "in"}
  Parent <- SmallParent
  Name <- SmallName
  Pads <- SmallPads
  Threads = {"app", "streaming"}
  Orderly = FALSE
  MaxChanges = 2
  MaxRequests = 1
SPECIFICATION Spec
CHECK_DEADLOCK FALSE
INVARIANTS NothingLost AbortsOnlyOnUnlink
