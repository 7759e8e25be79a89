----------------------------- MODULE TcpServer -----------------------------
(***************************************************************************)
(* The threads of the debug server and the locks they share.               *)
(*                                                                         *)
(*   server threads   one per connection, run by the threaded socket       *)
(*                    service: register the client, read and execute its   *)
(*                    commands, unregister it                              *)
(*   streaming        threads of the pipeline: send data to the listeners  *)
(*   threads          of a hub or a topology change to every client        *)
(*   finalizer        the thread that disposes of the tracer: cancels the  *)
(*                    clients and waits until the last one has left        *)
(*                                                                         *)
(* Locks: the hub's mutex (all hubs are locked alike, one is modelled),    *)
(* clients_mutex for the list of clients, and one mutex per client around  *)
(* the two writes, header and body, that make a packet.  A write blocks    *)
(* while the socket is full; neither the lock nor the cancellable of the   *)
(* client can interrupt it.  Every log line of a server thread is itself   *)
(* sent to the clients that listen to the log.                             *)
(***************************************************************************)
EXTENDS Naturals, Sequences, SequencesExt, FiniteSets

CONSTANTS
  Clients,         \* connections, and the server threads that serve them
  Streamers,       \* streaming threads
  Nobody,          \* owner of a free mutex, target of an idle thread
  SocketCapacity,  \* halves of a packet a socket buffers
  Commanders,      \* connections whose debugger sends commands
  MaxCommands,     \* bound: commands such a debugger sends
  MaxSends         \* bound: things a streaming thread sends

ASSUME ThreadsAssumption ==
  Commanders \subseteq Clients /\ Clients \cap Streamers = {} /\ Nobody \notin Clients \cup Streamers
ASSUME SizesAssumption ==
  SocketCapacity \in Nat \ {0} /\ MaxCommands \in Nat /\ MaxSends \in Nat

Threads == Clients \cup Streamers

VARIABLES
  pc,            \* pc[t]: where thread t is
  job,           \* job[t]: the sending thread t is in the middle of
  hooksMutex, clientsMutex, clientMutex,   \* owners
  clients,       \* the server's list of clients
  client,        \* client[c]: the TcpClient of c is "none", "live" or "freed"
  listeners,     \* clients with a list in the hub
  cancelled,     \* clients whose cancellable was triggered
  socket,        \* socket[c]: halves of packets on their way to the peer
  peer,          \* peer[c]: the debugger at the other end
  inbox,         \* inbox[c]: how much of the next command has arrived
  finalizer,
  commands, sends \* counters for the bounds

locks == <<hooksMutex, clientsMutex, clientMutex>>
peers == <<peer, inbox, commands>>
lists == <<clients, client, listeners, cancelled>>
vars == <<pc, job, locks, lists, socket, peers, finalizer, sends>>

\* via    which outer lock is held: the hub's, clients_mutex, or none
\* left   clients still to be served
\* at     the client whose mutex the thread holds
\* half   the half of the packet it writes next
Idle == [via |-> "none", left |-> {}, at |-> Nobody, half |-> "header"]
Job == [via : {"none", "hub", "all", "reply"}, left : SUBSET Clients,
        at : Clients \cup {Nobody}, half : {"header", "body"}]

TypeOK ==
  /\ pc \in [Threads -> {"none", "new", "greet", "reading", "note", "body", "handle",
                         "reply", "leave", "free", "signal", "bye", "gone", "streaming"}]
  /\ job \in [Threads -> Job]
  /\ hooksMutex \in Threads \cup {Nobody}
  /\ clientsMutex \in Threads \cup {Nobody}
  /\ clientMutex \in [Clients -> Threads \cup {Nobody}]
  /\ clients \in Seq(Clients)
  /\ client \in [Clients -> {"none", "live", "freed"}]
  /\ listeners \subseteq Clients
  /\ cancelled \subseteq Clients
  /\ socket \in [Clients -> Seq([half : {"header", "body"}, by : Threads])]
  /\ peer \in [Clients -> {"absent", "open", "closed"}]
  /\ inbox \in [Clients -> {"empty", "header", "message"}]
  /\ finalizer \in {"running", "waiting", "drained"}
  /\ commands \in [Clients -> 0..MaxCommands]
  /\ sends \in [Streamers -> 0..MaxSends]

Init ==
  /\ pc = [t \in Threads |-> IF t \in Clients THEN "none" ELSE "streaming"]
  /\ job = [t \in Threads |-> Idle]
  /\ hooksMutex = Nobody
  /\ clientsMutex = Nobody
  /\ clientMutex = [c \in Clients |-> Nobody]
  /\ clients = <<>>
  /\ client = [c \in Clients |-> "none"]
  /\ listeners = {}
  /\ cancelled = {}
  /\ socket = [c \in Clients |-> <<>>]
  /\ peer = [c \in Clients |-> "absent"]
  /\ inbox = [c \in Clients |-> "empty"]
  /\ finalizer = "running"
  /\ commands = [c \in Clients |-> 0]
  /\ sends = [s \in Streamers |-> 0]

Goto(t, l) == pc' = [pc EXCEPT ![t] = l]

-----------------------------------------------------------------------------
\* The peers: a debugger connects, sends commands in pieces, reads or closes.

\* The service hands the connection to a thread of its pool; that thread may
\* start only after the service was stopped.
Accept(c) ==
  /\ finalizer = "running"
  /\ pc[c] = "none"
  /\ Goto(c, "new")
  /\ peer' = [peer EXCEPT ![c] = "open"]
  /\ UNCHANGED <<job, locks, lists, socket, inbox, commands, finalizer, sends>>

PeerBeginsCommand(c) ==
  /\ peer[c] = "open" /\ inbox[c] = "empty"
  /\ c \in Commanders /\ commands[c] < MaxCommands
  /\ commands' = [commands EXCEPT ![c] = @ + 1]
  /\ inbox' = [inbox EXCEPT ![c] = "header"]
  /\ UNCHANGED <<pc, job, locks, lists, socket, peer, finalizer, sends>>

PeerEndsCommand(c) ==
  /\ peer[c] = "open" /\ inbox[c] = "header"
  /\ inbox' = [inbox EXCEPT ![c] = "message"]
  /\ UNCHANGED <<pc, job, locks, lists, socket, peer, commands, finalizer, sends>>

PeerReads(c) ==
  /\ peer[c] = "open" /\ socket[c] # <<>>
  /\ socket' = [socket EXCEPT ![c] = Tail(@)]
  /\ UNCHANGED <<pc, job, locks, lists, peers, finalizer, sends>>

PeerCloses(c) ==
  /\ peer[c] = "open"
  /\ peer' = [peer EXCEPT ![c] = "closed"]
  /\ socket' = [socket EXCEPT ![c] = <<>>]
  /\ UNCHANGED <<pc, job, locks, lists, inbox, commands, finalizer, sends>>

-----------------------------------------------------------------------------
\* Sending: send_data and send_packet, for whichever thread calls them.

Sending(t) == job[t].via # "none"

\* gst_debugserver_hooks_send_data: all listeners the data passes for.
BeginHubSend(t) == \E targets \in SUBSET listeners :
  /\ hooksMutex = Nobody
  /\ hooksMutex' = t
  /\ job' = [job EXCEPT ![t] = [Idle EXCEPT !.via = "hub", !.left = targets]]
  /\ UNCHANGED <<clientsMutex, clientMutex>>

\* gst_debugserver_tcp_send_packet_to_all_clients.
BeginBroadcast(t) ==
  /\ clientsMutex = Nobody
  /\ clientsMutex' = t
  /\ job' = [job EXCEPT ![t] = [Idle EXCEPT !.via = "all", !.left = ToSet(clients)]]
  /\ UNCHANGED <<hooksMutex, clientMutex>>

BeginReply(c) ==
  /\ job' = [job EXCEPT ![c] = [Idle EXCEPT !.via = "reply", !.left = {c}]]
  /\ UNCHANGED locks

\* The next client of the round: hash order for a hub, list order for all.
NextTarget(t, c) ==
  /\ c \in job[t].left
  /\ job[t].via = "all" =>
       \E i \in DOMAIN clients : /\ clients[i] = c
                                 /\ \A j \in 1..(i - 1) : clients[j] \notin job[t].left

\* Mutant: two threads may write to a client at the same time.
LockClientShared(t) == \E c \in Clients :
  /\ Sending(t) /\ job[t].at = Nobody
  /\ NextTarget(t, c)
  /\ clientMutex' = [clientMutex EXCEPT ![c] = t]
  /\ job' = [job EXCEPT ![t].left = @ \ {c}, ![t].at = c, ![t].half = "header"]
  /\ UNCHANGED <<pc, hooksMutex, clientsMutex, lists, socket, peers, finalizer, sends>>

\* gst_debugserver_tcp_send_packet enters the client's critical section.  Its
\* test for a connection that is no longer connected never succeeds: the
\* service closes the connection after run has returned and freed the client.
LockClient(t) == \E c \in Clients :
  /\ Sending(t) /\ job[t].at = Nobody
  /\ NextTarget(t, c)
  /\ clientMutex[c] = Nobody
  /\ clientMutex' = [clientMutex EXCEPT ![c] = t]
  /\ job' = [job EXCEPT ![t].left = @ \ {c}, ![t].at = c, ![t].half = "header"]
  /\ UNCHANGED <<pc, hooksMutex, clientsMutex, lists, socket, peers, finalizer, sends>>

\* Mutant: the early return after a failed write keeps the mutex.
UnlockClientLeaking(t, ok) ==
  /\ clientMutex' = IF ok THEN [clientMutex EXCEPT ![job[t].at] = Nobody] ELSE clientMutex
  /\ job' = [job EXCEPT ![t].at = Nobody,
                        ![t].left = IF ok \/ job[t].via # "all" THEN @ ELSE {}]

\* The packet is out, or failed; after a failure a broadcast skips the rest.
UnlockClient(t, ok) ==
  /\ clientMutex' = [clientMutex EXCEPT ![job[t].at] = Nobody]
  /\ job' = [job EXCEPT ![t].at = Nobody,
                        ![t].left = IF ok \/ job[t].via # "all" THEN @ ELSE {}]

\* One write call of a packet: it blocks on a full socket, fails on a closed
\* one.  The socket may take only part of a body, which the code does not look
\* at: an entry of socket stands for what one call wrote, whole or not.
WriteHalf(t) ==
  /\ Sending(t) /\ job[t].at # Nobody
  /\ LET c == job[t].at
         half == job[t].half
     IN \/ /\ peer[c] = "closed"
           /\ UnlockClient(t, FALSE)
           /\ UNCHANGED socket
        \/ /\ peer[c] = "open" /\ Len(socket[c]) < SocketCapacity
           /\ socket' = [socket EXCEPT ![c] = Append(@, [half |-> half, by |-> t])]
           /\ IF half = "header"
              THEN job' = [job EXCEPT ![t].half = "body"] /\ UNCHANGED clientMutex
              ELSE UnlockClient(t, TRUE)
  /\ UNCHANGED <<pc, hooksMutex, clientsMutex, lists, peers, finalizer, sends>>

\* The round is over: the outer lock goes, the thread carries on.
After(l) == CASE l = "greet" -> "reading" [] l = "note" -> "body"
              [] l = "reply" -> "reading" [] l = "bye" -> "gone" [] OTHER -> l

EndSend(t) ==
  /\ Sending(t) /\ job[t].at = Nobody /\ job[t].left = {}
  /\ hooksMutex' = IF job[t].via = "hub" THEN Nobody ELSE hooksMutex
  /\ clientsMutex' = IF job[t].via = "all" THEN Nobody ELSE clientsMutex
  /\ job' = [job EXCEPT ![t] = Idle]
  /\ Goto(t, After(pc[t]))
  /\ UNCHANGED <<clientMutex, lists, socket, peers, finalizer, sends>>

\* A server thread logs: a round through the log's hub.
Log(c) ==
  /\ pc[c] \in {"greet", "note", "bye"} /\ ~Sending(c)
  /\ BeginHubSend(c)
  /\ UNCHANGED <<pc, lists, socket, peers, finalizer, sends>>

\* A streaming thread reports data to a hub, or a topology change to everyone.
Stream(s) ==
  /\ ~Sending(s)
  /\ sends[s] < MaxSends
  /\ sends' = [sends EXCEPT ![s] = @ + 1]
  /\ BeginHubSend(s) \/ BeginBroadcast(s)
  /\ UNCHANGED <<pc, lists, socket, peers, finalizer>>

-----------------------------------------------------------------------------
\* A server thread: gst_debugserver_tcp_run.

AddClient(c) ==
  /\ pc[c] = "new"
  /\ clientsMutex = Nobody
  /\ clients' = Append(clients, c)
  /\ client' = [client EXCEPT ![c] = "live"]
  /\ Goto(c, "greet")
  /\ UNCHANGED <<job, locks, listeners, cancelled, socket, peers, finalizer, sends>>

\* read_header: a cancelled read fails even if there is something to read.
ReadHeader(c) ==
  /\ pc[c] = "reading" /\ ~Sending(c)
  /\ \/ c \notin cancelled /\ inbox[c] # "empty" /\ Goto(c, "note")
     \/ c \notin cancelled /\ inbox[c] = "empty" /\ peer[c] = "closed" /\ Goto(c, "leave")
     \/ c \in cancelled /\ Goto(c, "leave")
  /\ UNCHANGED <<job, locks, lists, socket, peers, finalizer, sends>>

\* The body is read without a cancellable and the result is not looked at: at
\* the end of the stream the buffer keeps what it held, a former command or
\* something that cannot be unpacked.
ReadBody(c) ==
  /\ pc[c] = "body" /\ ~Sending(c)
  /\ \/ inbox[c] = "message" /\ Goto(c, "handle")
     \/ inbox[c] = "header" /\ peer[c] = "closed" /\ (Goto(c, "handle") \/ Goto(c, "reading"))
  /\ inbox' = [inbox EXCEPT ![c] = "empty"]
  /\ UNCHANGED <<job, locks, lists, socket, peer, commands, finalizer, sends>>

\* Mutant: the hook is registered for NULL, the address of everybody.
HandleHookForAll(c) ==
  /\ pc[c] = "handle"
  /\ hooksMutex = Nobody
  /\ listeners' \in {listeners \cup {Nobody}, listeners \ {c}}
  /\ Goto(c, "reply")
  /\ BeginReply(c)
  /\ UNCHANGED <<clients, client, cancelled, socket, peers, finalizer, sends>>

\* The command handler: a hook request goes through the hub's mutex and is
\* confirmed if it changed the list; other requests reply, or do nothing more.
HandleHook(c) ==
  /\ pc[c] = "handle"
  /\ hooksMutex = Nobody
  /\ listeners' \in {listeners \cup {c}, listeners \ {c}}
  /\ Goto(c, "reply")
  /\ BeginReply(c)
  /\ UNCHANGED <<clients, client, cancelled, socket, peers, finalizer, sends>>

HandleOther(c) ==
  /\ pc[c] = "handle"
  /\ \/ Goto(c, "reply") /\ BeginReply(c)
     \/ Goto(c, "reading") /\ UNCHANGED <<job, locks>>
  /\ UNCHANGED <<lists, socket, peers, finalizer, sends>>

\* client_disconnected_handler: out of every hub.
LeaveHubs(c) ==
  /\ pc[c] = "leave"
  /\ hooksMutex = Nobody
  /\ listeners' = listeners \ {c}
  /\ Goto(c, "free")
  /\ UNCHANGED <<job, locks, clients, client, cancelled, socket, peers, finalizer, sends>>

\* g_slist_remove; a client is in the list once.
Unlist(c) == \E i \in DOMAIN clients : clients[i] = c /\ clients' = RemoveAt(clients, i)

\* Mutant: the client is freed without taking clients_mutex.
FreeClientUnlocked(c) ==
  /\ pc[c] = "free"
  /\ client' = [client EXCEPT ![c] = "freed"]
  /\ Unlist(c)
  /\ Goto(c, "signal")
  /\ UNCHANGED <<job, locks, listeners, cancelled, socket, peers, finalizer, sends>>

FreeClient(c) ==
  /\ pc[c] = "free"
  /\ clientsMutex = Nobody
  /\ client' = [client EXCEPT ![c] = "freed"]
  /\ Unlist(c)
  /\ Goto(c, "signal")
  /\ UNCHANGED <<job, locks, listeners, cancelled, socket, peers, finalizer, sends>>

\* g_cond_signal; the service closes the connection once run has returned.
Signal(c) ==
  /\ pc[c] = "signal"
  /\ Goto(c, "bye")
  /\ UNCHANGED <<job, locks, lists, socket, peers, finalizer, sends>>

-----------------------------------------------------------------------------
\* Mutants: only the client that is first at the start is cancelled; the
\* finalizer waits for the clients to be cancelled, not to leave.
FinalizeRoundOnce ==
  /\ finalizer # "drained"
  /\ clientsMutex = Nobody
  /\ IF clients = <<>>
     THEN finalizer' = "drained" /\ UNCHANGED cancelled
     ELSE /\ finalizer' = "waiting"
          /\ cancelled' = IF finalizer = "running" THEN {Head(clients)} ELSE cancelled
  /\ UNCHANGED <<pc, job, locks, clients, client, listeners, socket, peers, sends>>

FinalizeRoundHasty ==
  /\ finalizer # "drained"
  /\ clientsMutex = Nobody
  /\ IF ToSet(clients) \subseteq cancelled
     THEN finalizer' = "drained" /\ UNCHANGED cancelled
     ELSE finalizer' = "waiting" /\ cancelled' = cancelled \cup ToSet(clients)
  /\ UNCHANGED <<pc, job, locks, clients, client, listeners, socket, peers, sends>>

\* gst_debugserver_tcp_finalize: each round cancels the first client and waits,
\* until signalled or for 5 ms at most, giving clients_mutex up meanwhile.
FinalizeRound ==
  /\ finalizer # "drained"
  /\ clientsMutex = Nobody
  /\ IF clients = <<>>
     THEN finalizer' = "drained" /\ UNCHANGED cancelled
     ELSE finalizer' = "waiting" /\ cancelled' = cancelled \cup {Head(clients)}
  /\ UNCHANGED <<pc, job, locks, clients, client, listeners, socket, peers, sends>>

-----------------------------------------------------------------------------
SendStep(t) == LockClient(t) \/ WriteHalf(t) \/ EndSend(t)

ServerStep(c) ==
  \/ AddClient(c) \/ ReadHeader(c) \/ ReadBody(c) \/ HandleHook(c) \/ HandleOther(c)
  \/ LeaveHubs(c) \/ FreeClient(c) \/ Signal(c) \/ Log(c)

PeerStep(c) ==
  \/ Accept(c) \/ PeerBeginsCommand(c) \/ PeerEndsCommand(c)
  \/ PeerReads(c) \/ PeerCloses(c)

Next ==
  \/ \E c \in Clients : PeerStep(c) \/ ServerStep(c)
  \/ \E s \in Streamers : Stream(s)
  \/ \E t \in Threads : SendStep(t)
  \/ FinalizeRound

Spec == Init /\ [][Next]_vars

\* Threads that can run do, and one that waits for a mutex gets it in the end:
\* the only thread that takes one again and again is the finalizer, which
\* leaves clients_mutex free for 5 ms between two rounds.  The peers keep
\* reading and do not stop in the middle of a command.
Fairness ==
  /\ \A c \in Clients : SF_vars(ServerStep(c))
  /\ \A t \in Threads : SF_vars(SendStep(t))
  /\ \A c \in Clients : WF_vars(PeerReads(c)) /\ WF_vars(PeerEndsCommand(c))
  /\ WF_vars(FinalizeRound /\ finalizer = "waiting")

FairSpec == Spec /\ Fairness

-----------------------------------------------------------------------------
\* Safety

\* No thread locks, writes to or is about to visit a client that was freed: a
\* client leaves the hubs and the list before its memory goes, and both are
\* locked for a whole round of sending.
NoUseAfterFree == \A t \in Threads : \A c \in Clients :
  c = job[t].at \/ c \in job[t].left => client[c] = "live"

\* Packets of different threads do not mix on a socket: what follows a header
\* is the body of the same thread, however many threads send to the client.
NoTornPacket == \A c \in Clients : \A i \in DOMAIN socket[c] :
  /\ socket[c][i].half = "header" /\ i < Len(socket[c]) =>
       socket[c][i + 1] = [half |-> "body", by |-> socket[c][i].by]
  /\ socket[c][i].half = "header" /\ i = Len(socket[c]) =>
       clientMutex[c] = socket[c][i].by /\ job[socket[c][i].by].half = "body"

\* When the finalizer goes on to free the hubs, no thread of a client it waited
\* for is still executing a command or about to leave the hubs; only a thread
\* the pool had not started by then can be.
HubsLeftBeforeFreed == [][finalizer' = "drained" /\ finalizer # "drained" =>
  \A c \in Clients : pc[c] \in {"none", "new", "signal", "bye", "gone"}]_vars

-----------------------------------------------------------------------------
\* Liveness

\* Disposing of the tracer ends: every client leaves, whatever its thread and
\* the streaming threads were doing when the finalizer began.
FinalizeTerminates == finalizer = "waiting" ~> finalizer = "drained"
=============================================================================
