---------------------------- MODULE HookProtocol ----------------------------
(***************************************************************************)
(* Hooks end to end, for one hub of the server and the control module of   *)
(* the debugger that drives it.                                            *)
(*                                                                         *)
(*   GUI thread     the user connects, disconnects, presses "Add hook" and *)
(*                  "Remove hook"; it shows a row per confirmed hook       *)
(*   reader thread  reads frames and queues confirmations for the GUI      *)
(*   server thread  one per connection: reads a command, updates the hub   *)
(*                  and then sends the command back as its confirmation    *)
(*   streaming      the pipeline's threads, which send every client the    *)
(*   threads        data its hooks let through, holding the hub's mutex    *)
(*                                                                         *)
(* The hub's mutex makes a list update or a round of sending one step; the *)
(* confirmation is written after the mutex is released, a step of its own. *)
(* The debugger is one process; each time it connects it uses a fresh      *)
(* connection, and the server may still be serving the old ones.           *)
(***************************************************************************)
EXTENDS HookLists, FiniteSets

CONSTANTS
  Conns,          \* connections, each used once
  NoConn,         \* the debugger is not connected
  WireCapacity,   \* frames or commands a socket buffers before a write blocks
  MaxClicks,      \* bound: presses of the two hook buttons
  MaxEvents       \* bound: things the pipeline reports

ASSUME ConnsAssumption == NoConn \notin Conns
ASSUME BoundsAssumption ==
  WireCapacity \in Nat \ {0, 1} /\ MaxClicks \in Nat /\ MaxEvents \in Nat

VARIABLES
  conn,        \* the debugger's connection, or NoConn
  thread,      \* thread[c]: the server thread of c
  commands,    \* commands[c]: bytes on the way to the server, as commands
  hub,         \* hub[c]: c's listener list in the hub
  reply,       \* reply[c]: the confirmation the server thread is about to send
  frames,      \* frames[c]: frames on the way to the debugger
  guiQueue,    \* the control module's "confirmation" queue
  rows,        \* rows[k]: rows the hooks list shows for key k
  resolvable,  \* pad paths that lead to a pad of the pipeline now
  clicks, events

vars == <<conn, thread, commands, hub, reply, frames, guiQueue, rows,
          resolvable, clicks, events>>

Command == [tag : {"ADD", "REMOVE"}, key : Key]
\* A data frame carries the key of the listener that let it through.
Frame   == [tag : {"ADD", "REMOVE", "data"}, key : Key]

TypeOK ==
  /\ conn \in Conns \cup {NoConn}
  /\ thread \in [Conns -> {"unused", "serving", "gone"}]
  /\ commands \in [Conns -> Seq(Command)]
  /\ hub \in [Conns -> Seq(Hook)]
  /\ reply \in [Conns -> Seq(Command)]
  /\ frames \in [Conns -> Seq(Frame)]
  /\ guiQueue \in Seq(Command)
  /\ rows \in [Key -> Nat]
  /\ resolvable \subseteq Names \ {NoName}
  /\ clicks \in 0..MaxClicks
  /\ events \in 0..MaxEvents

Init ==
  /\ conn = NoConn
  /\ thread = [c \in Conns |-> "unused"]
  /\ commands = [c \in Conns |-> <<>>]
  /\ hub = [c \in Conns |-> <<>>]
  /\ reply = [c \in Conns |-> <<>>]
  /\ frames = [c \in Conns |-> <<>>]
  /\ guiQueue = <<>>
  /\ rows = [k \in Key |-> 0]
  /\ resolvable \in SUBSET (IF PadKind THEN Names \ {NoName} ELSE {})
  /\ clicks = 0
  /\ events = 0

-----------------------------------------------------------------------------
\* GUI thread

\* The rows of an earlier session stay: client_disconnected clears the
\* pipeline model and the types, no control module listens to it.
Connect == \E c \in Conns :
  /\ conn = NoConn
  /\ thread[c] = "unused"
  /\ conn' = c
  /\ thread' = [thread EXCEPT ![c] = "serving"]
  /\ UNCHANGED <<commands, hub, reply, frames, guiQueue, rows, resolvable, clicks, events>>

\* The user disconnects or the reader thread meets the end of the stream; a
\* frame not read by then is never read.
EndSession ==
  /\ conn # NoConn
  /\ conn' = NoConn
  /\ frames' = [frames EXCEPT ![conn] = <<>>]
  /\ UNCHANGED <<thread, commands, hub, reply, guiQueue, rows, resolvable, clicks, events>>

\* The factory writes one command, the buffer command twice.
Written(cmd) == IF Kind = "buffer" THEN <<cmd, cmd>> ELSE <<cmd>>

Click(tag, k) ==
  LET cmd == [tag |-> tag, key |-> k] IN
  /\ conn # NoConn
  /\ clicks < MaxClicks
  /\ Len(commands[conn]) + Len(Written(cmd)) <= WireCapacity
  /\ clicks' = clicks + 1
  /\ commands' = [commands EXCEPT ![conn] = @ \o Written(cmd)]
  /\ UNCHANGED <<conn, thread, hub, reply, frames, guiQueue, rows, resolvable, events>>

\* The user picks level, type and category in the boxes and the pad in the tree.
ClickAdd == \E k \in Key : Click("ADD", k)

\* Only a row of the list can be removed; it stays until the confirmation.
ClickRemove == \E k \in Key : rows[k] > 0 /\ Click("REMOVE", k)

ConfirmationReceived ==
  /\ guiQueue # <<>>
  /\ LET m == Head(guiQueue) IN
     rows' = [rows EXCEPT ![m.key] =
                IF m.tag = "ADD" THEN @ + 1 ELSE IF @ > 0 THEN @ - 1 ELSE 0]
  /\ guiQueue' = Tail(guiQueue)
  /\ UNCHANGED <<conn, thread, commands, hub, reply, frames, resolvable, clicks, events>>

-----------------------------------------------------------------------------
\* Reader thread

ReadFrame ==
  /\ conn # NoConn
  /\ frames[conn] # <<>>
  /\ LET f == Head(frames[conn]) IN
     guiQueue' = IF f.tag = "data" THEN guiQueue ELSE Append(guiQueue, f)
  /\ frames' = [frames EXCEPT ![conn] = Tail(@)]
  /\ UNCHANGED <<conn, thread, commands, hub, reply, rows, resolvable, clicks, events>>

-----------------------------------------------------------------------------
\* Server thread of connection c

Reading(c) == thread[c] = "serving" /\ reply[c] = <<>>

\* The hook a request asks for: its pad is looked up in the pipeline as it is
\* when the request arrives, and a path that leads nowhere gives a NULL pad.
Requested(k) ==
  [n |-> k.n, name |-> k.name, any |-> PadKind /\ k.name \notin resolvable]

TakeCommand(c, cmd) ==
  /\ Reading(c)
  /\ commands[c] # <<>>
  /\ cmd = Head(commands[c])
  /\ commands' = [commands EXCEPT ![c] = Tail(@)]
  /\ UNCHANGED <<conn, thread, frames, guiQueue, rows, resolvable, clicks, events>>

\* set_hook changed the list: the command goes back as it came.
Granted(c, cmd, list) ==
  /\ hub' = [hub EXCEPT ![c] = list]
  /\ reply' = [reply EXCEPT ![c] = <<cmd>>]

ProcessAdd(c) == \E k \in Key :
  LET cmd == [tag |-> "ADD", key |-> k] IN
  /\ TakeCommand(c, cmd)
  /\ \E list \in AddHook(hub[c], Requested(k)) : Granted(c, cmd, list)

ProcessRemove(c) == \E k \in Key :
  LET cmd == [tag |-> "REMOVE", key |-> k] IN
  /\ TakeCommand(c, cmd)
  /\ \E list \in RemoveHook(hub[c], k) : Granted(c, cmd, list)

\* Mutant: every request is confirmed, whether it changed the list or not.
ProcessRefusedAnswered(c) == \E cmd \in Command :
  /\ TakeCommand(c, cmd)
  /\ \/ cmd.tag = "ADD" /\ AddHook(hub[c], Requested(cmd.key)) = {}
     \/ cmd.tag = "REMOVE" /\ RemoveHook(hub[c], cmd.key) = {}
  /\ Granted(c, cmd, hub[c])

\* A refused request is not answered at all.
ProcessRefused(c) == \E cmd \in Command :
  /\ TakeCommand(c, cmd)
  /\ \/ cmd.tag = "ADD" /\ AddHook(hub[c], Requested(cmd.key)) = {}
     \/ cmd.tag = "REMOVE" /\ RemoveHook(hub[c], cmd.key) = {}
  /\ UNCHANGED <<hub, reply>>

ProcessHookRequest(c) == ProcessAdd(c) \/ ProcessRemove(c) \/ ProcessRefused(c)

\* Nobody reads the frames of a connection the debugger has given up.
Deliverable(c) == c = conn
HasRoom(c) == Deliverable(c) => Len(frames[c]) < WireCapacity

\* Mutant: a confirmation that does not fit in the socket is dropped.
SendConfirmationLossy(c) ==
  /\ reply[c] # <<>>
  /\ frames' = IF Deliverable(c) /\ HasRoom(c)
               THEN [frames EXCEPT ![c] = @ \o reply[c]] ELSE frames
  /\ reply' = [reply EXCEPT ![c] = <<>>]
  /\ UNCHANGED <<conn, thread, commands, hub, guiQueue, rows, resolvable, clicks, events>>

SendConfirmation(c) ==
  /\ reply[c] # <<>>
  /\ HasRoom(c)
  /\ frames' = IF Deliverable(c) THEN [frames EXCEPT ![c] = @ \o reply[c]] ELSE frames
  /\ reply' = [reply EXCEPT ![c] = <<>>]
  /\ UNCHANGED <<conn, thread, commands, hub, guiQueue, rows, resolvable, clicks, events>>

\* Mutant: the hub is not told.
ClientGoneUnnoticed(c) ==
  /\ Reading(c)
  /\ c # conn
  /\ thread' = [thread EXCEPT ![c] = "gone"]
  /\ commands' = [commands EXCEPT ![c] = <<>>]
  /\ UNCHANGED <<conn, hub, reply, frames, guiQueue, rows, resolvable, clicks, events>>

\* The thread of a closed connection leaves: after the commands that still
\* arrived, or before if the close discarded them.
ClientGone(c) ==
  /\ Reading(c)
  /\ c # conn
  /\ thread' = [thread EXCEPT ![c] = "gone"]
  /\ hub' = [hub EXCEPT ![c] = <<>>]
  /\ commands' = [commands EXCEPT ![c] = <<>>]
  /\ UNCHANGED <<conn, reply, frames, guiQueue, rows, resolvable, clicks, events>>

-----------------------------------------------------------------------------
\* The pipeline

\* What can be reported: real pads, categories and types, never the wildcards.
Event == {k \in Key : IF Kind = "message" THEN k.n # MessageAny ELSE k.name # NoName}

Listening(c, e) == FirstPassing(hub[c], e) # {}

\* The streaming thread holds the hub's mutex for the whole round, so it
\* goes through only if no socket it writes to is full.
SendData(e) ==
  /\ events < MaxEvents
  /\ \E c \in Conns : Listening(c, e)
  /\ \A c \in Conns : Listening(c, e) => HasRoom(c)
  /\ events' = events + 1
  /\ frames' = [c \in Conns |->
       IF Listening(c, e) /\ Deliverable(c)
       THEN Append(frames[c],
              [tag |-> "data",
               key |-> KeyOf(hub[c][CHOOSE i \in FirstPassing(hub[c], e) : TRUE])])
       ELSE frames[c]]
  /\ UNCHANGED <<conn, thread, commands, hub, reply, guiQueue, rows, resolvable, clicks>>

\* A pad appears, or disappears with its element.
PipelineChanges == \E p \in Names \ {NoName} :
  /\ PadKind
  /\ resolvable' = IF p \in resolvable THEN resolvable \ {p} ELSE resolvable \cup {p}
  /\ UNCHANGED <<conn, thread, commands, hub, reply, frames, guiQueue, rows, clicks, events>>

-----------------------------------------------------------------------------
Next ==
  \/ Connect
  \/ EndSession
  \/ ClickAdd
  \/ ClickRemove
  \/ ConfirmationReceived
  \/ ReadFrame
  \/ \E c \in Conns : ProcessHookRequest(c) \/ SendConfirmation(c) \/ ClientGone(c)
  \/ \E e \in Event : SendData(e)
  \/ PipelineChanges

Spec == Init /\ [][Next]_vars

\* Threads that have something to do run, the GUI's main loop turns.  Nothing
\* is assumed of the user, of the network or of the pipeline.
Fairness ==
  /\ WF_vars(ReadFrame)
  /\ WF_vars(ConfirmationReceived)
  /\ \A c \in Conns : /\ WF_vars(ProcessHookRequest(c))
                    /\ WF_vars(SendConfirmation(c))
                    /\ WF_vars(ClientGone(c))

FairSpec == Spec /\ Fairness

-----------------------------------------------------------------------------
\* Safety

\* No listener is covered by an earlier one of the same client: what keeps
\* find_custom from ever picking another hook than the one asked for.
NoShadowedHook == \A c \in Conns : \A i, j \in DOMAIN hub[c] :
  i < j => ~Covers(hub[c][i], hub[c][j])

\* The confirmations in q take key k away at some point.
Takes(k, q) == \E i \in DOMAIN q : q[i] = [tag |-> "REMOVE", key |-> k]

\* They end up giving it: a confirmed ADD that nothing after it takes back.
Gives(k, q) == \E i \in DOMAIN q :
  /\ q[i] = [tag |-> "ADD", key |-> k]
  /\ \A j \in DOMAIN q : j > i => q[j] # [tag |-> "REMOVE", key |-> k]

\* Key k has a row once the GUI has seen all of q.
Shown(k, q) == Gives(k, q) \/ (rows[k] > 0 /\ ~Takes(k, q))

\* Everything the GUI has not seen yet, in the order it will see it.
Pending(c) == guiQueue \o frames[c] \o reply[c]

\* Every hook the server holds for the debugger has a row, or will have one
\* once the confirmations under way are displayed: no hook runs that the user
\* cannot see and remove, whatever the double clicks and reconnections.
EveryHookHasARow == \A c \in Conns : c = conn =>
  \A i \in DOMAIN hub[c] : Shown(KeyOf(hub[c][i]), Pending(c))

\* Data reaches the debugger on behalf of a hook the user sees, or whose ADD is
\* about to be confirmed: never after the removal of the hook was confirmed.
DataIsExplained == \A c \in Conns : c = conn =>
  \A i \in DOMAIN frames[c] : frames[c][i].tag = "data" =>
    LET k == frames[c][i].key IN
    \/ Shown(k, guiQueue \o SubSeq(frames[c], 1, i - 1))
    \/ \E j \in DOMAIN frames[c] : j > i /\ frames[c][j] = [tag |-> "ADD", key |-> k]
    \/ reply[c] = <<[tag |-> "ADD", key |-> k]>>

Holds(c, k) == \E i \in DOMAIN hub[c] : KeyOf(hub[c][i]) = k

\* A removal of a key the client holds removes the hook of that key and leaves
\* every other one in its place in the order.
RemovesTheKey == \A c \in Conns : \A k \in Key :
  /\ reply[c] = <<>>
  /\ reply'[c] = <<[tag |-> "REMOVE", key |-> k]>>
  /\ Holds(c, k)
  => \E i \in DOMAIN hub[c] : /\ KeyOf(hub[c][i]) = k
                            /\ hub'[c] = RemoveAt(hub[c], i)

RemovalIsExact == [][RemovesTheKey]_vars

\* In one session of exact-match hooks (messages), the list the user sees is
\* the list the server holds once the confirmations under way are displayed.
RowsMatchHooks == \A c \in Conns : c = conn => \A k \in Key :
  Shown(k, Pending(c)) => Holds(c, k)

-----------------------------------------------------------------------------
\* Liveness

\* A hook the server holds gets its row, unless it is removed or the connection
\* ends first.
HookGetsARow == \A c \in Conns : \A k \in Key :
  (conn = c /\ Holds(c, k)) ~> (conn # c \/ ~Holds(c, k) \/ rows[k] > 0)

\* A connection the debugger has given up leaves no listener behind, even one
\* its last commands added after the close.
ServerForgets == \A c \in Conns :
  (thread[c] = "serving" /\ conn # c) ~> (thread[c] = "gone" /\ hub[c] = <<>>)

-----------------------------------------------------------------------------
\* The hub as the abstract registry sees it.

Registry == INSTANCE HookRegistry WITH
  registry <- [c \in Conns |-> {hub[c][i] : i \in DOMAIN hub[c]}]

\* The list of a client implements a set of hooks with exact removal.
ImplementsRegistry == Registry!RegistrySpec
=============================================================================
