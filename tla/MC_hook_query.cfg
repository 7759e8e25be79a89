\* Query hooks: any pad, a pad that comes and goes; one reconnection.
SPECIFICATION Spec
CONSTANTS
  Kind = "query"
  Numbers = {1}
  Names = {none, pad}
  NoName = none
  MessageAny = 0
  Conns = {c1, c2}
  NoConn = NoConn
  WireCapacity = 2
  MaxClicks = 4
  MaxEvents = 1
INVARIANTS NoShadowedHook EveryHookHasARow DataIsExplained
PROPERTIES RemovalIsExact ImplementsRegistry
SYMMETRY ConnSymmetry
CHECK_DEADLOCK FALSE
