------------------------------- MODULE Session -------------------------------
(***************************************************************************)
(* The life of the debugger's connections.                                 *)
(*                                                                         *)
(* The GUI thread connects, asks the first questions and disconnects; a    *)
(* reader thread of its own takes the frames of each connection, asks for  *)
(* the factory and the klass of an element it does not know, and cleans up *)
(* when the connection is over.  The two share the flag "connected", the   *)
(* model of the pipeline, the descriptions of types and the label of the   *)
(* menu, and no lock.  send_command throws when the flag is down, which    *)
(* ends the process if it happens in the reader thread.                    *)
(*                                                                         *)
(* Messages travel whole and in order (module Framing).  The server        *)
(* collects a topology in one step (module Topology shows the walk).       *)
(***************************************************************************)
EXTENDS Integers, Sequences, SequencesExt, FiniteSets

CONSTANTS
  Elements,     \* what the pipeline may contain; also names its class
  NoFactory,    \* elements whose class does not come from a factory
  Enums,        \* names of the enums asked for when a connection begins
  MaxSessions,  \* bound: connections
  MaxChanges    \* bound: changes of the pipeline

ASSUME ElementsAssumption == IsFiniteSet(Elements) /\ NoFactory \subseteq Elements
ASSUME EnumsAssumption == Enums \in Seq(STRING)
ASSUME SessionBounds == MaxSessions \in Nat /\ MaxChanges \in Nat

Kinds == {"enum", "factory", "klass"}
Described == Elements \cup Range(Enums) \cup {""}

VARIABLES
  connected,  \* TcpClient::connected
  session,    \* number of the connection
  gui,        \* "idle", "join", "ask", "label" or "close"
  todo,       \* what the GUI thread has still to ask for
  reader,     \* "none", "loop", "factory", "klass", "clean", "label", "ended", "terminated"
  added,      \* element of the frame the reader is at
  mirror,     \* the model: elements, each with its session
  known,      \* known[k]: descriptions in a container, each with its session
  label,      \* the label says "Connected"
  open,       \* the connection is open
  crashed,    \* the process of the pipeline is gone
  pipeline,   \* elements in the pipeline
  commands,   \* on their way to the server
  frames,     \* on their way to the debugger
  early,      \* history: this connection ended before connect() returned
  changes

guiVars == <<gui, todo>>
readerVars == <<reader, added>>
modelVars == <<mirror, known>>
serverVars == <<pipeline, crashed, changes>>
wires == <<commands, frames>>
vars == <<connected, session, guiVars, readerVars, modelVars, label, open, serverVars, wires, early>>

Frame == [what : {"enum", "factory", "klass", "add", "remove"}, name : Described]
Command == [what : Kinds \cup {"topology"}, name : Described]
Entry == [name : Described, of : 0..MaxSessions]

TypeOK ==
  /\ connected \in BOOLEAN /\ session \in 0..MaxSessions
  /\ gui \in {"idle", "join", "ask", "label", "close"} /\ todo \in Seq(Command)
  /\ reader \in {"none", "loop", "factory", "klass", "clean", "label", "ended", "terminated"}
  /\ added \in Elements \cup {""}
  /\ mirror \subseteq Entry /\ known \in [Kinds -> Seq(Entry)]
  /\ label \in BOOLEAN /\ open \in BOOLEAN /\ crashed \in BOOLEAN /\ early \in BOOLEAN
  /\ pipeline \subseteq Elements
  /\ commands \in Seq(Command) /\ frames \in Seq(Frame)
  /\ commands # <<>> => open
  /\ reader \in {"factory", "klass"} => added \in Elements
  /\ changes \in 0..MaxChanges

Init ==
  /\ connected = FALSE /\ session = 0
  /\ gui = "idle" /\ todo = <<>> /\ reader = "none" /\ added = ""
  /\ mirror = {} /\ known = [k \in Kinds |-> <<>>]
  /\ label = FALSE /\ open = FALSE /\ crashed = FALSE /\ early = FALSE
  /\ pipeline \in SUBSET Elements
  /\ commands = <<>> /\ frames = <<>> /\ changes = 0

Running == reader # "terminated"
Ask(what, name) == [what |-> what, name |-> name]

\* Mutant: what is written to a connection that is closed waits there.
SendAnyway(c) == commands' = Append(commands, c)

\* What is written to a connection that is closed is lost without notice.
Send(c) == commands' = IF open THEN Append(commands, c) ELSE commands

-----------------------------------------------------------------------------
\* GUI thread: the menu item, TcpClient::connect and disconnect

FirstQuestions ==
  [i \in DOMAIN Enums |-> Ask("enum", Enums[i])] \o <<Ask("topology", "")>>

\* The flag goes up before the last reader is joined.  An attempt that fails
\* changes nothing.
Connect ==
  /\ Running /\ gui = "idle" /\ ~connected
  /\ session < MaxSessions /\ ~crashed
  /\ connected' = TRUE /\ session' = session + 1
  /\ open' = TRUE /\ commands' = <<>> /\ frames' = <<>>
  /\ gui' = "join"
  /\ UNCHANGED <<todo, readerVars, modelVars, label, serverVars, early>>

StartReader ==
  /\ Running /\ gui = "join"
  /\ reader \in {"none", "ended"}
  /\ reader' = "loop"
  /\ gui' = "ask" /\ todo' = FirstQuestions
  /\ early' = FALSE
  /\ UNCHANGED <<connected, session, added, modelVars, label, open, serverVars, wires>>

\* The first slot of signal_status_changed; the exception of send_command is
\* caught in connect, and the slots that follow are not called.
AskFirst ==
  /\ Running /\ gui = "ask"
  /\ \/ /\ todo # <<>> /\ connected
        /\ Send(Head(todo))
        /\ todo' = Tail(todo) /\ UNCHANGED gui
     \/ /\ todo # <<>> /\ ~connected
        /\ todo' = <<>> /\ gui' = "idle" /\ UNCHANGED commands
     \/ /\ todo = <<>>
        /\ gui' = "label" /\ UNCHANGED <<todo, commands>>
  /\ UNCHANGED <<connected, session, readerVars, modelVars, label, open, serverVars, frames, early>>

\* The second slot, MainWindow::connection_status_changed.
LabelConnected ==
  /\ Running /\ gui = "label"
  /\ label' = TRUE /\ gui' = "idle"
  /\ UNCHANGED <<connected, session, todo, readerVars, modelVars, open, serverVars, wires, early>>

Disconnect ==
  /\ Running /\ gui = "idle" /\ connected
  /\ connected' = FALSE /\ open' = FALSE
  /\ commands' = <<>>
  /\ gui' = "close"
  /\ UNCHANGED <<session, todo, readerVars, modelVars, label, serverVars, frames, early>>

\* Mutant: nobody waits.
JoinNobody ==
  /\ Running /\ gui = "close" /\ gui' = "idle"
  /\ UNCHANGED <<connected, session, todo, readerVars, modelVars, label, open, serverVars, wires, early>>

JoinReader ==
  /\ Running /\ gui = "close" /\ reader = "ended"
  /\ reader' = "none" /\ gui' = "idle"
  /\ UNCHANGED <<connected, session, todo, added, modelVars, label, open, serverVars, wires, early>>

-----------------------------------------------------------------------------
\* Reader thread: TcpClient::read_data and Controller::process_frame

Knows(k, name) == \E i \in DOMAIN known[k] : known[k][i].name = name

\* Mutant: a second description of a type is kept beside the first.
LearnTwice(k, name) ==
  known' = [known EXCEPT ![k] = Append(@, [name |-> name, of |-> session])]

\* update_enum_model, update_factory_model, update_klass_model
Learn(k, name) ==
  known' = [known EXCEPT ![k] =
    IF Knows(k, name)
    THEN [i \in DOMAIN @ |-> IF @[i].name = name THEN [@[i] EXCEPT !.of = session] ELSE @[i]]
    ELSE Append(@, [name |-> name, of |-> session])]

ProcessFrame ==
  /\ reader = "loop" /\ connected /\ frames # <<>>
  /\ frames' = Tail(frames)
  /\ LET f == Head(frames)
         it == [name |-> f.name, of |-> session]
     IN \/ /\ f.what \in Kinds
           /\ Learn(f.what, f.name)
           /\ UNCHANGED <<mirror, readerVars>>
        \/ /\ f.what \in {"add", "remove"}
           /\ mirror' = IF f.what = "add" THEN mirror \cup {it} ELSE mirror \ {it}
           /\ reader' = "factory" /\ added' = f.name
           /\ UNCHANGED known
  /\ UNCHANGED <<connected, session, guiVars, label, open, serverVars, commands, early>>

FactoryOf(e) == IF e \in NoFactory THEN "" ELSE e

\* An exception that leaves a thread ends the process.
RequestUnlessKnown(k, name, after) ==
  \/ Knows(k, name) /\ reader' = after /\ UNCHANGED commands
  \/ ~Knows(k, name) /\ connected /\ reader' = after /\ Send(Ask(k, name))
  \/ ~Knows(k, name) /\ ~connected /\ reader' = "terminated" /\ UNCHANGED commands

RequestFactory ==
  /\ reader = "factory"
  /\ RequestUnlessKnown("factory", FactoryOf(added), "klass")
  /\ UNCHANGED <<connected, session, guiVars, added, modelVars, label, open, serverVars, frames, early>>

RequestKlass ==
  /\ reader = "klass"
  /\ RequestUnlessKnown("klass", added, "loop")
  /\ UNCHANGED <<connected, session, guiVars, added, modelVars, label, open, serverVars, frames, early>>

\* Mutants: the flag is left to disconnect; the end of the stream, or the
\* flag, is not noticed.
LeaveQuietly ==
  /\ reader = "loop" /\ (~connected \/ (~open /\ frames = <<>>))
  /\ reader' = "clean" /\ early' = (early \/ gui \in {"ask", "label"})
  /\ UNCHANGED <<connected, session, guiVars, added, modelVars, label, open, serverVars, wires>>

LeaveWhenTold ==
  /\ reader = "loop" /\ ~connected
  /\ reader' = "clean" /\ early' = (early \/ gui \in {"ask", "label"})
  /\ UNCHANGED <<connected, session, guiVars, added, modelVars, label, open, serverVars, wires>>

LeaveAtEnd ==
  /\ reader = "loop" /\ ~open /\ frames = <<>>
  /\ connected' = FALSE /\ reader' = "clean"
  /\ early' = (early \/ gui \in {"ask", "label"})
  /\ UNCHANGED <<session, guiVars, added, modelVars, label, open, serverVars, wires>>

Leave ==
  /\ reader = "loop"
  /\ ~connected \/ (~open /\ frames = <<>>)
  /\ connected' = FALSE
  /\ reader' = "clean"
  /\ early' = (early \/ gui \in {"ask", "label"})
  /\ UNCHANGED <<session, guiVars, added, modelVars, label, open, serverVars, wires>>

\* Mutant: the klasses stay.
CleanMost ==
  /\ reader = "clean"
  /\ mirror' = {} /\ known' = [known EXCEPT !["enum"] = <<>>, !["factory"] = <<>>]
  /\ reader' = "label"
  /\ UNCHANGED <<connected, session, guiVars, added, label, open, serverVars, wires, early>>

ClientDisconnected ==
  /\ reader = "clean"
  /\ mirror' = {} /\ known' = [k \in Kinds |-> <<>>]
  /\ reader' = "label"
  /\ UNCHANGED <<connected, session, guiVars, added, label, open, serverVars, wires, early>>

LabelDisconnected ==
  /\ reader = "label"
  /\ label' = FALSE /\ reader' = "ended"
  /\ UNCHANGED <<connected, session, guiVars, added, modelVars, open, serverVars, wires, early>>

-----------------------------------------------------------------------------
\* The server: its thread for this client, and the hooks

\* The message is written through a null pointer.
SendTypeDoesntExistError ==
  /\ crashed' = TRUE /\ open' = FALSE /\ commands' = <<>>
  /\ UNCHANGED frames

Answer(fs) ==
  /\ frames' = frames \o fs /\ commands' = Tail(commands)
  /\ UNCHANGED <<open, crashed>>

Describe(k, name, existing) ==
  \/ name \in existing /\ Answer(<<Ask(k, name)>>)
  \/ name \notin existing /\ SendTypeDoesntExistError

SendEnumFlags(name) == Describe("enum", name, Range(Enums))
SendFactory(name) == Describe("factory", name, Elements \ NoFactory)
SendKlass(name) == Describe("klass", name, Elements)

SendTopology ==
  Answer([i \in 1..Cardinality(pipeline) |-> Ask("add", SetToSeq(pipeline)[i])])

Serve ==
  /\ open /\ commands # <<>>
  /\ LET c == Head(commands)
     IN \/ c.what = "topology" /\ SendTopology
        \/ c.what = "enum" /\ SendEnumFlags(c.name)
        \/ c.what = "factory" /\ SendFactory(c.name)
        \/ c.what = "klass" /\ SendKlass(c.name)
  /\ UNCHANGED <<connected, session, guiVars, readerVars, modelVars, label, pipeline, changes, early>>

\* do_bin_add_post, do_bin_remove_pre
Change == \E e \in Elements :
  /\ ~crashed /\ changes < MaxChanges
  /\ changes' = changes + 1
  /\ pipeline' = IF e \in pipeline THEN pipeline \ {e} ELSE pipeline \cup {e}
  /\ frames' = IF open THEN Append(frames, Ask(IF e \in pipeline THEN "remove" ELSE "add", e))
               ELSE frames
  /\ UNCHANGED <<connected, session, guiVars, readerVars, modelVars, label, open, crashed,
                 commands, early>>

\* The application ends or the network fails; what was under way may be lost.
ConnectionEnds ==
  /\ open /\ open' = FALSE
  /\ commands' = <<>>
  /\ \E k \in 0..Len(frames) : frames' = SubSeq(frames, 1, k)
  /\ UNCHANGED <<connected, session, guiVars, readerVars, modelVars, label, serverVars, early>>

-----------------------------------------------------------------------------
Gui == Connect \/ StartReader \/ AskFirst \/ LabelConnected \/ Disconnect \/ JoinReader
Reader == \/ ProcessFrame \/ RequestFactory \/ RequestKlass
          \/ Leave \/ ClientDisconnected \/ LabelDisconnected
Next == Gui \/ Reader \/ Serve \/ Change \/ ConnectionEnds

Spec == Init /\ [][Next]_vars

\* Threads that are able to run do; nobody has to press a button.
Fairness ==
  /\ WF_vars(StartReader \/ AskFirst \/ LabelConnected \/ JoinReader)
  /\ WF_vars(Reader) /\ WF_vars(Serve)
FairSpec == Spec /\ Fairness

-----------------------------------------------------------------------------
Entries == mirror \cup UNION {Range(known[k]) : k \in Kinds}
ReaderDone == reader \in {"none", "ended"}
Settled == gui = "idle" /\ (ReaderDone \/ (reader = "loop" /\ open /\ wires = <<<<>>, <<>>>>))

\* Controller::client_disconnected: once a new reader runs, nothing of an
\* earlier connection is left, and nothing at all when no reader runs.
NothingSurvives ==
  /\ gui # "join" => \A e \in Entries : e.of = session
  /\ ReaderDone => Entries = {}

\* TcpClient::is_connected decides what the menu item does: it is never up
\* when no thread reads, and it is up while one waits for frames.
FlagFollowsReader == gui = "idle" /\ Running =>
  /\ ReaderDone => ~connected
  /\ reader = "loop" => connected

KnownOnce(k, name) == \E i \in DOMAIN known[k] :
  known[k][i].name = name /\ \A j \in DOMAIN known[k] : known[k][j].name = name => j = i

\* At rest the model has exactly the elements of the pipeline; their factories,
\* klasses and the enums of the first questions are known, once, however often
\* they were asked for; and the label is right, unless the connection had
\* ended before connect() told that it had begun.
InSync == Settled =>
  /\ label = connected \/ (label /\ early)
  /\ connected =>
       /\ {e.name : e \in mirror} = pipeline
       /\ \A e \in pipeline : KnownOnce("factory", FactoryOf(e)) /\ KnownOnce("klass", e)
       /\ \A i \in DOMAIN Enums : KnownOnce("enum", Enums[i])

\* send_command throws in the reader thread only when "Disconnect" is pressed
\* while the frame of an unknown element is processed; a server that goes
\* away never does that.
TerminatesOnlyOnDisconnect == ~Running => gui = "close"

\* "Disconnect" comes to an end.
DisconnectEnds == gui = "close" ~> (gui = "idle" \/ ~Running)

\* The debugger catches up with whatever the pipeline was when it connected.
CatchesUp == (gui = "ask") ~> (Settled \/ gui = "close" \/ ~Running)
=============================================================================
