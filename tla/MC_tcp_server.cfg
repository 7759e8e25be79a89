\* Two clients, one of which sends a command, a streaming thread, sockets that
\* fill up, and the tracer that goes away; fair threads and reading peers.
SPECIFICATION FairSpec
CONSTANTS
  Clients = {c1, c2}
  Streamers = {s1}
  Nobody = Nobody
  SocketCapacity = 1
  Commanders = {c1}
  MaxCommands = 1
  MaxSends = 1
INVARIANTS TypeOK NoUseAfterFree NoTornPacket
PROPERTIES  FinalizeTerminates
CHECK_DEADLOCK FALSE
