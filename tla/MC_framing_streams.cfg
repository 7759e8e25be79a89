\* Commands of one thread of the debugger, or frames of two threads of the
\* server under the client's mutex, into sockets that fill up.
SPECIFICATION FairSpec
CONSTANTS
  CommandWriters = {gui}
  FrameWriters = {t1, t2}
  Nobody = Nobody
  Sizes = {1, 2}
  Limit = 2
  Capacity = 3
  MaxMessages = 2
  Garbage = Garbage
INVARIANTS DeliveredInOrder UncutBodyFits
PROPERTY EverythingArrives
CHECK_DEADLOCK FALSE
