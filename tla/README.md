# A verification project for gst-debugger

gst-debugger is a remote debugger for GStreamer. A *tracer plug-in*
(`src/debugserver`) runs inside the process of the pipeline and serves TCP
connections; a GTK *debugger* (`src/gst-debugger`) connects to it, mirrors the
pipeline, asks for data ("hooks") and shows what comes back. Both sides speak
protobuf messages framed by a length (`src/common`). All paths below are
relative to `src/`.

## The system

| component | state it keeps | operations | threads |
|---|---|---|---|
| Hook hubs (`gstdebugserverhooks.c`, `log`, `qe`, `buffer`, `message`) | per client a list of hooks; a mutex per hub | add, remove, remove client, send data | server threads, streaming threads |
| Hook requests (`gstdebugserver.c`, `command_factory.cpp`, control modules) | rows of the hook lists, queue of confirmations | add/remove buttons, confirmation | GUI, reader and server threads |
| Server (`gstdebugservertcp.c`) | list of clients, a mutex per client, a cancellable per client | run, send, broadcast, finalize | one server thread per connection, streaming threads, the disposing thread |
| Framing (`protocol-utils.c`, `tcp_client.cpp`) | none | write and read header and body | all |
| TCP client (`tcp_client.cpp`) | connected, reader thread, cancellable | connect, disconnect, read, send | GUI and reader threads |
| Topology (`gstdebugservertopology.c`, `topology_controller.cpp`, models) | the mirror of the pipeline | element and pad added and removed, link, unlink, entire topology | streaming, server, reader threads |
| Types (`gstdebugservertypes.c`, caches of `controller.cpp`) | enum, factory, klass containers | request, update, clear | server, reader, GUI threads |
| Properties (`serializer.c`, `gst_properties_module.cpp`, `gvalue-converter`) | widgets and values per property | request, receive, set | server, reader, GUI threads |
| Filter parser (`filter-parser`) | none | parse, evaluate | GUI thread |
| GUI dispatch (`iview.h`, `base_main_module.cpp`, `graph_module.cpp`) | a queue and a pipe per dispatcher | push, emit, pop | reader and GUI threads |
| Dialogs, add-ins, graphviz plug-in | widgets | | GUI thread |

How they interact: a command goes from a button through the command factory
and the TCP client to a server thread, which calls into a hub, the topology,
the types or the pipeline, and answers on the same socket. Data goes from a
streaming thread through a hub (locked for the whole round) and the client's
mutex to the socket, is read by the reader thread and passed to the control
modules through a queue and a dispatcher. Topology changes go from any thread
of the pipeline to every client.

What makes each component correct:

- *hooks*: a hook can be removed exactly as it was added; the list the user
  sees and the list the server holds agree once confirmations have arrived; data
  comes only for hooks the user sees; nothing is left behind by a client that left.
- *server*: no client is used after it was freed; packets do not mix on a
  socket; disposing of the tracer ends, and nobody is in a hub any more when it does.
- *framing*: what is written is read, whole, once and in order.
- *topology*: the mirror shows what is there and nothing else.
- *TCP client*: what a session received does not outlive it; a reader thread
  exists exactly while connected.
- *types*: a type is asked for until it is known, and what is shown is current.
- *properties*: a value read is the value shown, a value set is the value sent.
- *GUI dispatch and drawing*: every wake-up finds its model, the last model is
  what is shown, the drawing ends with the window, and a picture shows the links
  that are there and have been reported.
- *filter parser*: the value of an expression is that of its grammar.

What is hard: threads of the pipeline, of the server and of the debugger meet
in the hubs and on the sockets; requests are confirmed after the locks were
released; a reconnection mixes the rest of one session with the next; sockets
block; and the mirror of the pipeline is built from messages that may be late,
missing or doubled. `PROJECT.json` lists each hazard at its line, with the
properties that would catch it.

## The modules

**`HookLists`** has no state: keys, listeners, and the four kinds of hub as
operators. A hub keeps a `GSList` per client; `g_slist_find_custom` takes the
*first* listener that covers a key (`Covers`: the log's level and category, the
wildcards of queries, events and buffers, equality for messages), for adding
and removing alike. `AddHook` and `RemoveHook` give the set of lists the
operation may leave, empty when it is refused; the kind is a constant.

**`HookProtocol`** extends it with the life of a hook end to end: buttons,
sockets, server threads, the hub, confirmations, the reader thread, the GUI's
queue and the rows. The hub's mutex makes a list update or a round of sending
one step; the confirmation is sent in a later one, as in
`gst_debugserver_command_handler`. `Connect` and `EndSession` make sessions; a
server thread may go on with the commands of a session that has ended.

**`HookRegistry`** is what a hub promises without lists: a set of hooks per
client, granted unless covered, revoked exactly. `HookProtocol` is checked to
implement it (`ImplementsRegistry`).

**`TcpServer`** models `gst_debugserver_tcp_run` with a program counter per
server thread, streaming threads that send to a hub's listeners or to all
clients, the three kinds of mutex, the list of clients, the two writes of a
packet, and the rounds of `gst_debugserver_tcp_finalize`. Every log line of a
server thread is itself a round through the log's hub.

**`Framing`** is one direction of a connection, unit by unit: a header and a body
in two writes, sockets that take part of a body, a reader that believes every
header. An execution is about commands (a buffer of limited size, the
assertion, no lock around the writes) or about frames (a mutex, a buffer as
large as the header says): `direction` is chosen at the beginning.

**`Topology`** has three actors: threads that change the pipeline through
GStreamer and trigger the hooks of the tracer; the server thread, which walks
the pipeline with iterators that restart when it changes, collects linked source
pads and sends links at the end; the debugger, which finds a place by its path
and takes the deepest known ancestor when the path leads nowhere. `nodes` and
`peer` are the `ElementModel`s and `PadModel`s, an element being the index at
which it was appended. A frame is applied when it is sent: the channel is in
order (`Framing`), nothing that flows back changes the topology, and the
properties look at the mirror at rest.

**`Session`** is the life of a connection on the side of the debugger
(`tcp_client.cpp`, `controller.cpp`, `main_window.cpp`). `gui` and `reader` are
the program counters of the two threads; `connected`, the models (`mirror`,
`known`) and `label` are what they share without a lock. Each slot of
`signal_status_changed` and each request of `process_frame` is a step, since
the other thread can run in between. An exception that leaves the reader thread
is `reader = "terminated"`. The server answers type requests, and a request for
a type that does not exist ends its process (`crashed`), as the null pointer in
`send_type_doesnt_exist_error` does. Descriptions carry the number of the
session that brought them, so that a leftover can be told.

**`PropertyPanel`** is the property panel with everything it depends on: the
selection, the events posted to the GUI thread, the values in the models, the
widgets, the wires, the server and an application that changes properties or
replaces elements. `model[o][p]` may be `"none"`, `"null"` (the empty entry that
looking for it inserts) or a value; `rows[p]` is the object whose value a row
shows. Check buttons announce every change (`Announces`), other widgets only
those of the user. Four history variables say what a property may not claim:
what the application changed since (`changed`), values that were set with an
older answer under way (`crossed`), the last edit (`wanted`), and answers that
came before the klass (`late`).

**`DotGraph`** has no state: how a link becomes an edge of the picture.
`SendLink` is `send_link` with its recursion through ghost pads, `AddLink` and
`RemoveLink` are `process_link`, `ToDotData` is the converter, and `TruePicture`
is the reference: what a picture of a bin should show; `Fed` says which bins are fed
from a pad that is no ghost pad, so that links in them are reported. Internal pads, which the
debugger does not know, are pads of the model.

**`Drawing`** extends it with the threads. `gvRender` runs the main loop inside
the handler that asked for the drawing, so a wake-up is handled in a loop inside
a loop: `running` is the flag of the one `GMainLoop`, `depth` how many runs of it
are nested. `Quit`, `Push` and `Emit` are the three statements of
`update_model`; `Take`, `Convert`, `Draw` and `FreeGraph` are the parts of
`update_model_`. Around them are the user (moving into bins and out, connecting,
closing the window), the end of the connection, and an application that undoes
links and removes elements.

The `MC*` modules give symmetry sets and small pipelines. `ListFacts` has the facts
about lists and finite sets that several proofs use; `HookProtocolProofs`,
`TcpServerProofs`, `FramingProofs`, `TopologyProofs`, `SessionProofs`,
`PropertyPanelProofs` and `DrawingProofs` hold the proofs about the module they are
named after. Definitions whose
comment begins with *Mutant* are not used by any specification: each is a plausible
slip in the code that the property named in `PROJECT.json` must reject.

## The runs

| run | question | result |
|---|---|---|
| `hook_query` | Queries with the wildcard pad, pads that come and go, two connections: no shadowed hook, every hook has a row, removal takes the right hook, data is explained by a hook the user sees, the hub implements the registry | holds |
| `hook_buffer` | Buffer commands are written twice; fair threads: a hook gets its row, a dead connection leaves nothing | holds |
| `hook_message` | Equality of types, one session, five clicks: rows and hooks agree in both directions | holds |
| `tcp_server` | Two clients, a streaming thread, full sockets, closing peers, the finalizer: no use after free, no torn packet, hubs are left before they are freed, finalize ends | holds |
| `framing_streams` | Two threads under the client's mutex: frames are decoded in order and arrive, and every body fits, as long as none was cut by a full socket | holds |
| `framing_race` | GUI and reader thread write commands: the server's assertion on the size | **violated** |
| `topology_orderly` | Every shape of a pipeline of four elements, then four orderly changes: the first topology is exact, the mirror follows | holds |
| `topology_race` | Two threads change the pipeline before, under and after the walk: what stays is never missing, the walk fails only on an unlink | holds |
| `topology_refresh` | The topology asked for twice, then an element removed: it is gone from the mirror | **violated** |
| `session` | Two connections to a changing pipeline that may end at any time: nothing of the first survives, types are known once, flag and label tell the truth, the reader thread is ended only by "Disconnect", disconnecting ends, the debugger catches up | holds |
| `panel` | Three actions of the user and two of the application among requests, answers and events: rows are of the selected element, values are those of the pipeline, edits stand, nothing is set that nobody set | holds |
| `drawing` | Every way to link a bin, an element in it and one beside it; frames, moves, the end of the connection and of the window between the steps of nested loops: the newest model is shown, the picture is true, without phantom edges, the loops end with the window, what is posted is drawn | holds |

### What the violated runs show

*`framing_race`.* `TcpClient::send_command` writes a header and a body in two
calls without a lock. The GUI thread calls it from buttons, the reader thread
from `Controller::process_frame` (type requests for the elements of a topology).
When the two interleave, the server takes bytes of a body for a header and
`assert (size <= 1024)` (`gstdebugservertcp.c:151`) ends the process of the
pipeline, although no command is that long.

*`topology_refresh`.* "Refresh graph" asks for the topology again; the model is
not cleared before and `add_child`, unlike `add_pad`, does not look for an element
of that name, so every element is in the model twice. When it is removed,
`remove_child` erases one of the two, and the graph keeps showing it.

### Exceptions inside the properties that hold

Where the code does go wrong in a way nothing in the repository contradicts, the
property says exactly when, and holds: that is what makes it checkable.

- `TerminatesOnlyOnDisconnect`: "Disconnect" while the reader is between a frame
  of an unknown element and its type requests ends the debugger.
- `InSync`: a connection that ended before `connect` returned may leave the
  label at "Connected".
- `ShownIsTrue`, `EditsStand`: an answer that crosses an edit undoes it, and a
  check button then sends the old value back.
- `CrashesOnlyOnReplaced`: replacing an element between an answer and its event
  makes the panel follow a null pointer.
- `NewestIsShown`: a move of the user that falls between reading `current_model`
  and posting it is overdrawn, and so is everything after the end of a connection
  that left `current_model` behind (`astray`).
- `PictureIsTrue`: a link may be missing from the picture in three cases (`Hidden`).
  What is behind a ghost pad is reported only together with a link that leads there
  from a pad that is no ghost pad, through however many bins (`Fed`). Undoing a link
  behind a ghost pad clears the peers of both its ends, and takes the edge in front
  of it along. And when an element is removed, the debugger is told before the links
  of the element are undone, so it looks for the pad of an element it no longer knows
  in the bin around it; if the bin has a pad of that name, its link is taken away, as in
  `bin.remove (child)` with `child.src`, `bin.src` and a link from `bin.src`. On the other
  hand, a link undone behind a ghost pad may stay in the picture.
- The end of a connection clears the models without the lock, maybe while they are
  read: `Drawing` stops there (`torn`), since anything may come of it.
- `LingersOnlyOnUpdate`: a model that is posted around the closing of the window
  starts a loop again, and the process stays.

### Bounds and why they are enough

Hooks: two connections let the rest of a session meet the next one (a third
would only repeat it); a wire of two frames makes writers block; two to five
clicks are an addition, its double, the removal and its double on two keys, of
which one covers the other; one reported event suffices for a data frame
between two confirmations. Server: with two clients a broadcast or a hub round
has a client it has served and one it has not; sockets of one or two halves
block in the middle of a packet; one command reaches every label, and the client
that sends none (`Commanders`) is blocked in greetings, broadcasts and farewells.
Framing: bodies of one and two units tell a header from either end of a body; a
capacity of three cuts the longer one; twelve, in `framing_race`, cuts none.
Topology: a bin, an element in it and a neighbour give every relation a path can
have; the walk over four elements with two equal names checks that paths and not
names decide; four changes are enough to take an element out, change its pads
and links and bring it back; under the walk two changes, each of several steps,
reach a restart of either iterator and the loss of a collected link.
Session: two connections make the rest of one meet the next; one enum, two
elements of which one has no factory, and two changes give known and unknown
types in both, a repeated request, and the crash of the server. Panel: two
elements tell the selected from the other one, a check button and a choice are
the two kinds of widget that differ, two changes take an element out and put
another of its name in; three clicks are a selection and two edits, or a
selection, an edit and a change of the selection. Drawing: the three elements
have every kind of link a ghost pad can be part of, up to a loop, and all of them
are initial states; one frame that is handled alone and two acts pile up three
loops; all earlier frames of the topology are handled without anybody looking,
which `Connect` does in one step. All bounds are
constants: `MaxClicks`, `MaxEvents`, `WireCapacity`, `MaxCommands`, `MaxSends`,
`SocketCapacity`, `Capacity`, `MaxMessages`, `MaxChanges`, `MaxRequests`,
`MaxSessions`, `MaxFrames`, `MaxConnections`, `MaxActs`.
`CHECK_DEADLOCK` is off because all of these systems stop when the bounds are
used up or everybody has left.

### Fairness

Nothing is assumed of the user, the network or the pipeline unless said here.

- `HookProtocol`: weak fairness of the reader thread, the GUI's main loop and
  each action of a server thread. They are threads of their own (or a main loop)
  and each waits for nothing but what its guard says.
- `TcpServer`: strong fairness for steps that wait for a mutex. The only
  thread that takes one over and over is the finalizer, and
  `g_cond_wait_until` gives `clients_mutex` up for 5 ms per round. Weak
  fairness for peers that read and do not stop in the middle of a command; a
  peer that stops reading blocks the server for good, which is a property of the
  code, not of the model.
- `Framing`: weak fairness for the reader; strong for a thread that has begun a
  message, since the room in the socket comes and goes.
- `Topology` and `PropertyPanel` have safety properties only.
- `Session`: weak fairness of the GUI thread once a button was pressed, of the
  reader thread and of the server. `JoinReader` waits for the reader, which
  waits for nothing once the stream is closed; nobody has to press a button.
- `Drawing`: weak fairness of the GUI thread's loops, since a main loop polls, and
  of the reader thread, except that no connection has to end. No fairness for
  the user. The lock of the models is only held within one step or, by the GUI
  thread, until `Convert`.

### Assumptions about libraries

`Drawing` takes the source of the wake-ups to be dispatched inside its own handler
(were it not, nothing posted while a graph is shown would ever be handled);
`g_main_loop_run` sets the flag, `g_main_loop_quit` clears it, and a loop looks
at it between two iterations. `DotGraph` walks the pipeline in one order: that
the order does not matter for what is reported is the business of `Topology`.
`PropertyPanel` takes a handler of the GUI thread as one step.

## The proofs

| module | theorem | says |
|---|---|---|
| `HookProtocolProofs` | `TypeCorrect` | `Spec => []TypeOK` |
| | `NeverShadowed` | `Spec => []NoShadowedHook` |
| | `RemovalExact` | `Spec => RemovalIsExact`, an action property |
| | `RegistryImplemented` | `Spec => ImplementsRegistry`, the refinement of `HookRegistry` |
| | `HooksAreVisible` | `Spec => []EveryHookHasARow` |
| | `DataHasAHook` | `Spec => []DataIsExplained` |
| | `RowsStandForHooks` | `Spec => []RowsMatchHooks`, for the message hub and one connection |
| `TcpServerProofs` | `TypeCorrect` | `Spec => []TypeOK` |
| | `ClientsServedAreLive` | `Spec => []NoUseAfterFree` |
| | `PacketsAreWhole` | `Spec => []NoTornPacket` |
| | `DrainedMeansLeft` | `Spec => HubsLeftBeforeFreed`, an action property |
| `FramingProofs` | `FramesInOrder` | `Spec => [](direction = "frames" => DeliveredInOrder)` |
| | `InOrder` | `Spec => []DeliveredInOrder`, if one thread writes the commands |
| | `FitsWhenWhole` | `Spec => []UncutBodyFits`, if besides no command is longer than the buffer |
| `TopologyProofs` | `TypeCorrect` | `Spec => []TypeOK` |
| | `AbortNeedsUnlink` | `Spec => []AbortsOnlyOnUnlink` |
| | `NothingIsLost` | `Spec => []NothingLost`, if no two elements have the same name |
| | `FirstTopologyIsFaithful` | `Spec => [](requests <= 1 => SnapshotIsFaithful)` |
| | `OrderlyChangesAreFollowed` | `Spec => [](requests <= 1 => MirrorFollows)`, if one thread makes orderly changes |
| `SessionProofs` | `TypeCorrect` | `Spec => []TypeOK` |
| | `FlagTellsTheTruth` | `Spec => []FlagFollowsReader` |
| | `OnlyDisconnectTerminates` | `Spec => []TerminatesOnlyOnDisconnect` |
| | `NewConnectionIsClean` | `Spec => []NothingSurvives` |
| | `RestsInSync` | `Spec => []InSync` |
| `PropertyPanelProofs` | `TypeCorrect` | `Spec => []TypeOK` |
| | `OnlyOnPurpose` | `Spec => ChangedOnPurpose`, an action property |
| | `ReplacementsCrash` | `Spec => []CrashesOnlyOnReplaced` |
| | `EditsStay` | `Spec => []EditsStand` |
| | `RowsAreOfSelected` | `Spec => []PanelIsOfSelected` |
| | `PanelIsTrue` | `Spec => []ShownIsTrue` |
| `DrawingProofs` | `TypeCorrect` | `Spec => []TypeOK` |
| | `WakeUpsHaveModels` | `Spec => []ModelBeforeWakeUp` |
| | `WindowEndsTheLoops` | `Spec => []LingersOnlyOnUpdate` |
| | `NewestStays` | `Spec => []NewestIsShown` |
| | `PictureStaysTrue` | `Spec => []PictureIsTrue` |

Where nothing else is said they hold for all values of the constants that satisfy
the assumptions of the modules: every kind of hub, every set of keys, clients,
elements, pads, properties and threads, every pipeline, capacity and bound. The
assumptions are those the constants need to mean anything (numbers are naturals,
`Nobody` is not a thread, `""` is not a property, an element has one parent, the
order of `DotGraph` lists a bin before what is in it, no bin of `Topology` is put into
itself by way of others) and that the sets of elements and properties are finite, since
the server sends a list of each.

Some hypotheses are conditions under which the code keeps its word.
With two threads that write commands, `framing_race` is the counterexample.
`RowsMatchHooks` says that rows and hooks agree in both directions: a hub of
another kind has listeners that cover each other, and with a second connection
confirmations of the first may arrive late, so `hook_message` is the run that has it.
`NothingIsLost` needs names that differ: something removed from a bin that is not in
the pipeline is reported by its name alone, and the debugger then hides an element
of that name beside the bin. `topology_race` has names that differ; with a name shared
between the element beside the bin and the one in it, TLC finds what is hidden in eleven
steps. Names that GStreamer makes up differ; those of `gst-launch` and of
applications may not.
`OrderlyChangesAreFollowed` is about changes by one thread after the topology has
arrived, to what is in the pipeline or on its own. With a second thread the child
of a bin can be reported before the bin and is then shown beside it; a bin that is
filled before it is added is reported without what is in it; and a link tried
inside a bin that is not in the pipeline is reported by paths that lead elsewhere.

### The arguments

*Lists.* `ListFacts` says what appending, deleting, taking the head off and
putting one list behind another does to what is in a list, to its last item of some
kind, and to the counts. Two inductions are done over finite sets there (`SetInduction`): a
recursive function or a fold over the elements of a set is determined one element at a
time, which is how the results of `SetToSeq`, `FlattenSeq` and `MapThenFoldSet` are shown to
be what the models take them for.

*Hooks.* An appended listener is covered by none before it, deleting one keeps the
order of the rest, and the listener of a key is the first that covers it when
nothing is shadowed. `HubOK` (each list is a sequence of listeners of which none is
covered by an earlier one) is inductive by these lemmas alone; `NeverShadowed` and
`RemovalExact` follow. `RegistryImplemented` maps the list of a client to the
set of its elements: under `HubOK` a key occurs once, so an accepted ADD is a `Grant`,
an accepted REMOVE a `Revoke`, the end of a server thread a `Leave`, and every
other step leaves the registry alone.
`EveryHookHasARow` says that replaying the pending confirmations on the rows ends
with a row for each hook, but a removal under way, a double click or a stale
confirmation could take the row of a hook that is still there. `RowsOK` adds what
makes that impossible: which part of the pipeline of confirmations (the reply, the
socket, the GUI's queue, the rows) shows a hook, and that connections not yet used
carry nothing. `DataIsExplained` rests on it: when a data frame is written the
list has its hook, and what can be ahead of it is at most the one confirmation
that its hub's thread has not written yet (`DataOK`). For `RowsMatchHooks`, the
confirmations of a key alternate between added and removed, and the last one
says whether the key is in the list (`TurnsOK`).

*Server.* Each mutex belongs to the thread whose job needs it (`MutexOK`), and whom a
thread serves is either protected by the outer lock of its round or its own client
(`ServesRightly`): taking a client out of the list or the hub needs that same lock, so
it is gone from every round before it is freed. A packet is torn only by a thread
that writes without the client's mutex, or by one that goes on after the socket was
closed. `HubsLeftBeforeFreed` needs that a client outside the list is past its hubs.

*Framing.* What has been read, followed by what is in the stream, is a chain in which
a body's parts follow their header (`Follows`); what has been decoded, followed by
what is in that chain, ends with what was written. So the reader is at a header
exactly when the stream is at one. Closing a socket ends the chain early; a cut
body is where the claim ends.

*Session.* `ControlOK` ties the two program counters to the flag: between
connecting and disconnecting the flag is up exactly while the reader is in its
loop, a new connection begins with a reader that is through with its frames, and a
connection is given up with the flag down. `ModelsOK` rests on it: no reader
processes a frame while a new connection waits for the last one, so whatever is in
the models was brought by the running connection. For `InSync`, an element is
there exactly if the last frame about it under way adds it, or the model has it
and no frame is under way that removes it; a type that is used is known, or its
description, its request or the step that requests it is still to come; and
the label says "Connected" without a connection only if it ended before `connect`
returned.

*Panel.* `BoundsOK` has the ranges; `TypeOK` follows with one lemma per handler. The
"set" commands of widgets are those of check buttons (`TogglesOK`). The first
model of an element has no empty entries, and an event about one finds its value
there (`EntriesOK`), so that a null pointer is followed only for an element that
was replaced. `EditsStand`: unless the edit was crossed, the model shows the wanted
value or none, every answer under way carries it, and the server has it already or
gets it before the next request for it, with no "set" of another value behind
(`StandsOK`). `PanelIsOfSelected`: in each of the three queues (requests, answers,
events) whatever could put the value of another element into a row has one of the
selected element behind it, and the last of them has one left or the row is right
already (`PanelOf`); that an element of the pipeline has its model needs that
its last "removed" has an "added" behind it (`MirrorOK`). `ShownIsTrue`: unless a set
of it was crossed, a value that is being set is the last one of its property, ahead
of every request for it, and already what the debugger shows (`SetOK`); if none is
being set, the value of the pipeline is asked for, or carried by a frame that is
behind every frame with another value and behind every new model, or no frame is
left and the row shows it or an event is posted that will (`ValueOK`). For pads the
same holds of their caps, and the list follows what is known by an event (`PadsOK`).

*Drawing.* `QueueOK` counts: the queue has at least a model for each wake-up that is
posted, is being handled, or is still to be emitted. `NewestOK` follows the current
model on its way: what the reader thread has just read, else the last in the
queue, else what was taken, else what the page was made from. What a handled frame
changes in the mirror while it is on its way does not matter, because a graph is
made from the mirror of that moment and the reader posts the model again after each
frame that touches it. That it is a picture at all uses that the walk from ghost
pad to internal pad to ghost pad ends: each step goes one level deeper.
`TypeOK` says that pads the debugger knows are pads of elements, although `Located` puts
a pad down to the root when nothing above it is known. That never comes to pass:
`MirrorsOK` has it that the frames on their way are `Ready`, each pad behind the frames
of all that is around it and ahead of any removal. The topology is sent so
(`TopologyIsReady`), handling a frame keeps it (`ReadyNext`), and what the application
changes later comes behind it and tells of no pad (`ReadyConcat`).
`PictureIsTrue` needs more than that the models are right when they are at rest, since
frames of an old pipeline are handled while a newer one has its own behind them.
`PictureOK` therefore speaks of the models that will be there when all frames on their
way are handled: those show the pipeline of the server but for what is hidden (`Shows`,
through `Agrees`), and every model on the way there fits (`Fits`: a peer belongs to a link,
and what it leads to is shown or the link was undone). A list of models that come of a
list of frames is a `Trace`; sending more makes it longer (`AgreesMore`), handling a frame
takes its first off (`AgreesNext`). What one change sends is a list of reports, and the
report of a link is that of the link behind it with one more at its end (`Chain`,
`ChainIs`), so what such a list touches is found by induction along the chain, inwards
from bin to bin (`ChainInduction`, `ChainIsInside`). A link that is reported clears what
is drawn at its ends, and each of these was undone as well or is hidden from now on
(`UnlinkHides`); with an element that is removed the same is shown of the pads that are
looked for in the bin around it (`RemoveHides`). The topology is a list in two parts: after
elements and pads all are known and nothing is linked (`FirstPartShows`), and the links
that follow make every peer except those behind ghost pads that nothing feeds
(`FedIsReported`, `SecondPartShows`). The proof is where `Hidden` has its present form from:
with a bin in a bin, that a ghost pad is linked is not enough for what is behind it to be
drawn, and a bin with several elements can lose a link of its own with any of them.
Pipelines of three elements, as in the run, tell neither apart from the narrower
condition that only names the first ghost pad.

*Topology.* `AbortsOnlyOnUnlink`: a pad is collected because it is linked, and stays so
until somebody undoes a link. `TypeOK` needs that nobody begins with what another thread
has in hand and that a pad that is being taken away has no link (`PipelineOK`), and that
the place of a frame is one of the models (`PlaceFacts`). For `NothingLost` the path
of an element is followed down the models (`Way`): what is found by it is visible
and has that path (`ShownIs`), and it stays found where it was as long as no model of
a name on the way is hidden (`KnownStays`). `KeptOK` is inductive then: once the
topology was asked for, whatever stays is known, or the server thread will come to
it or to a bin above it (`AnnouncedOK`), and what it has come to is in a bin that is
known (`ReachedOK`). When it is through there is nothing it could come to.
`SnapshotIsFaithful` builds on that, and needs no condition on names, since nothing is
hidden while nothing changes: `SnapOK` holds until the first change or the second
request. The server thread is never twice at the same place nor at what is known
already (`VisitsOK`), so every model is of another element (`OnceOK`, with
`PathInIsInjective`: different elements have different paths); a pad of what is known
was sent or is still to be (`PadsSentOK`); and since links come last, the one that a
source pad belongs to waits in `srcs`, is in `found`, or joins two pads of the mirror
(`LinksSentOK`). A second request adds everything again, so the theorem says
`requests <= 1`.
`MirrorFollows` goes on from there: at the first change `SnapOK` gives `FollowOK`
(`SnapIsFollow`), which every later change keeps. What was announced, that is all of
the pipeline but what the thread has in hand, has a model, and every model that is
shown is of it (`MirroredOK`); a pad of the mirror has a pad of what was announced
behind it unless its model is hidden (`PadsOK`), and so a peer a link that was made
or refused (`LinksOK`). What comes has no model yet, or a second element would have
its path; what goes hides its own model and no other, for the same reason; and its
links were undone while the pads of the mirror could still be found by their paths.

### Model-checked only

All liveness, since fairness is out of the prover's reach: the invariants and action
properties of the passing runs are all theorems, under the conditions the table names.

## What is not modelled, and why

- Payloads: log texts, buffers, caps, templates, serialized values. No property
  depends on them; properties and caps are values that differ or do not.
- What a cut body leads to, beyond that it happens: from then on anything can be read.
- Two clients that ask for the topology at the same time share `src_pads`.
- In `TcpServer`, a thread of the pool that starts after the finalizer is done.
- Full sockets in both directions of a session at once; a full pipe of a
  dispatcher. The bounds of the code are so large that only a small fake one
  could be checked.
- Data races inside GTK, the signal library and `std::vector`: the models take the
  access of one thread as a step.
- What happens to the pipeline while there is no connection or no window, in
  `Drawing`: nobody looks.
- The lists of received data and their filter, and the filter's parser: pure
  functions without concurrency, whose subject is single characters.
- Dialogs, add-ins and the drawing of the graph itself: widgets without state that
  the program depends on.
- How GStreamer behaves is taken from how `src/` uses it (marked external in the
  map): when the hooks are called relative to the change, that a link between
  different bins is refused, that an iterator has to be restarted after a change,
  what leads from a ghost pad to its internal pad and back.

## Plan

Done: hooks, because they are the purpose of the program and cross all
its threads; the server and framing they rest on; the mirror; the life of a
connection; the property panel; the drawing; and the proofs above.

Left, in this order:

1. `Topology` with two clients that share `src_pads`.
2. The lists of received data beside the hook lists of `HookProtocol`.
