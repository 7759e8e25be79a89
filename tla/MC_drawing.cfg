\* A bin and an element beside it, whose links may form a loop.
SPECIFICATION FairSpec
CONSTANTS
  Root = Root
  filter = filter
  bin = bin
  inside = inside
  Order <- MCOrder
  Parent <- MCParent
  MaxFrames = 1
  MaxConnections = 1
  MaxActs = 2
INVARIANTS TypeOK ModelBeforeWakeUp NewestIsShown  LingersOnlyOnUpdate
PROPERTY DrawsWhatComes
CHECK_DEADLOCK FALSE
