\* Commands written by the GUI thread and the reader thread of the debugger.
SPECIFICATION Spec
CONSTANTS
  CommandWriters = {gui, reading}
  FrameWriters = {}
  Nobody = Nobody
  Sizes = {1, 2}
  Limit = 2
  Capacity = 12
  MaxMessages = 2
  Garbage = Garbage
INVARIANT BodyFitsTheBuffer
CHECK_DEADLOCK FALSE
