\* Buffer hooks: every command is written twice; fair threads.
SPECIFICATION FairSpec
CONSTANTS
  Kind = "buffer"
  Numbers = {0}
  Names = {none, pad}
  NoName = none
  MessageAny = 0
  Conns = {c1, c2}
  NoConn = NoConn
  WireCapacity = 2
  MaxClicks = 2
  MaxEvents = 1
PROPERTIES HookGetsARow ServerForgets
CHECK_DEADLOCK FALSE
