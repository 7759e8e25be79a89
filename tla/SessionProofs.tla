---------------------------- MODULE SessionProofs ----------------------------
(***************************************************************************)
(* What holds of the two threads of the debugger for every pipeline, every *)
(* number of connections and whatever the server does.                     *)
(***************************************************************************)
EXTENDS Session, ListFacts, FiniteSetTheorems, SequenceTheorems, TLAPS

Processing == {"loop", "factory", "klass"}
GuiSteps == {"idle", "join", "ask", "label", "close"}
ReaderSteps == Processing \cup {"none", "clean", "label", "ended", "terminated"}

\* Where the two threads can be: between connect and disconnect the flag is
\* up exactly while the reader processes frames; a connection begins with a
\* reader that is through with its frames; it is given up with the flag down.
ControlOK ==
  /\ connected \in BOOLEAN /\ gui \in GuiSteps /\ reader \in ReaderSteps
  /\ gui \in {"idle", "ask", "label"} /\ Running => (connected <=> reader \in Processing)
  /\ gui = "join" => connected /\ reader \notin Processing
  /\ gui = "close" => ~connected /\ reader # "none"
  /\ ~Running => gui = "close"

LEMMA ControlInit == Init => ControlOK
BY DEF Init, ControlOK, GuiSteps, ReaderSteps, Processing, Running

\* The reader thread lowers the flag when it leaves its loop, and is thrown out
\* of a frame only with the flag down.
LEMMA ControlStep == ControlOK /\ [Next]_vars => ControlOK'
<1> SUFFICES ASSUME ControlOK, [Next]_vars PROVE ControlOK'
  OBVIOUS
<1> USE DEF ControlOK, GuiSteps, ReaderSteps, Processing, Running
<1>1. CASE Connect
  BY <1>1 DEF Connect, readerVars
<1>2. CASE StartReader
  BY <1>2 DEF StartReader
<1>3. CASE AskFirst
  BY <1>3 DEF AskFirst, readerVars
<1>4. CASE LabelConnected
  BY <1>4 DEF LabelConnected, readerVars
<1>5. CASE Disconnect
  BY <1>5 DEF Disconnect, readerVars
<1>6. CASE JoinReader
  BY <1>6 DEF JoinReader
<1>7. CASE ProcessFrame
  BY <1>7 DEF ProcessFrame, guiVars, readerVars
<1>8. ASSUME NEW k, NEW name, NEW after \in Processing, reader \in Processing,
             RequestUnlessKnown(k, name, after), UNCHANGED <<connected, guiVars>>
      PROVE  ControlOK'
  BY <1>8 DEF RequestUnlessKnown, guiVars
<1>9. CASE RequestFactory
  BY <1>8, <1>9 DEF RequestFactory
<1>10. CASE RequestKlass
  BY <1>8, <1>10 DEF RequestKlass
<1>11. CASE Leave
  BY <1>11 DEF Leave, guiVars
<1>12. CASE ClientDisconnected
  BY <1>12 DEF ClientDisconnected, guiVars
<1>13. CASE LabelDisconnected
  BY <1>13 DEF LabelDisconnected, guiVars
<1>14. CASE Serve \/ Change \/ ConnectionEnds \/ UNCHANGED vars
  BY <1>14 DEF Serve, Change, ConnectionEnds, vars, guiVars, readerVars
<1> QED
  BY <1>1, <1>2, <1>3, <1>4, <1>5, <1>6, <1>7, <1>9, <1>10, <1>11, <1>12, <1>13, <1>14
  DEF Next, Gui, Reader

LEMMA ControlAlways == Spec => []ControlOK
BY ControlInit, ControlStep, PTL DEF Spec

\* What the menu item asks is_connected is true of the reader thread: no
\* connection is shown as one without a thread that reads it.
THEOREM FlagTellsTheTruth == Spec => []FlagFollowsReader
<1>1. ControlOK => FlagFollowsReader
  BY DEF ControlOK, FlagFollowsReader, ReaderDone, Running, Processing
<1> QED  BY <1>1, ControlAlways, PTL

\* The exception of send_command ends the debugger in one situation only: the
\* user has pressed "Disconnect" and waits for the reader.
THEOREM OnlyDisconnectTerminates == Spec => []TerminatesOnlyOnDisconnect
<1>1. ControlOK => TerminatesOnlyOnDisconnect
  BY DEF ControlOK, TerminatesOnlyOnDisconnect
<1> QED  BY <1>1, ControlAlways, PTL

-----------------------------------------------------------------------------
\* Descriptions all of which were brought by connection n.
BroughtBy(s, n) == \E N : s \in Seq([name : N, of : {n}])

\* Only the reader thread of the running connection fills the models; while a
\* new connection waits for the last reader to end, the models may still be
\* those of the last one, but nobody adds to them, and they are empty when that
\* reader has cleaned up.
ModelsOK ==
  /\ DOMAIN known = Kinds
  /\ gui # "join" => /\ \A e \in mirror : e.of = session
                     /\ \A k \in Kinds : BroughtBy(known[k], session)
  /\ reader \in {"none", "label", "ended"} => mirror = {} /\ \A k \in Kinds : known[k] = <<>>

LEMMA EmptyIsBrought == \A n : BroughtBy(<<>>, n)
<1> SUFFICES ASSUME NEW n PROVE BroughtBy(<<>>, n)
  OBVIOUS
<1>1. <<>> \in Seq([name : {}, of : {n}])
  OBVIOUS
<1> QED  BY <1>1 DEF BroughtBy

\* A description that comes again takes the place of the first, a new one goes
\* to the end; both are of this connection.
LEMMA LearnKeeps ==
  ASSUME NEW k \in Kinds, NEW name, DOMAIN known = Kinds, Learn(k, name),
         \A j \in Kinds : BroughtBy(known[j], session)
  PROVE  DOMAIN known' = Kinds /\ \A j \in Kinds : BroughtBy(known'[j], session)
<1>1. DOMAIN known' = Kinds /\ \A j \in Kinds \ {k} : known'[j] = known[j]
  BY DEF Learn
<1>2. PICK N : known[k] \in Seq([name : N, of : {session}])
  BY DEF BroughtBy
<1> DEFINE Mine == [name : N \cup {name}, of : {session}]
<1>3. [name : N, of : {session}] \subseteq Mine
  OBVIOUS
<1>4. known[k] \in Seq(Mine)
  BY <1>2, <1>3, SeqMonotonic
<1>5. known'[k] \in Seq(Mine)
  <2>1. CASE Knows(k, name)
    <3> DEFINE new == [i \in DOMAIN known[k] |-> IF known[k][i].name = name
                                                THEN [known[k][i] EXCEPT !.of = session]
                                                ELSE known[k][i]]
    <3>1. known'[k] = new
      BY <2>1 DEF Learn
    <3>2. \A e \in Mine : [e EXCEPT !.of = session] \in Mine
      OBVIOUS
    <3> HIDE DEF Mine
    <3>3. DOMAIN known[k] = 1..Len(known[k]) /\ Len(known[k]) \in Nat
          /\ \A i \in DOMAIN known[k] : known[k][i] \in Mine
      BY <1>4, LenProperties, ElementOfSeq
    <3>4. new \in [1..Len(known[k]) -> Mine]
      BY <3>2, <3>3
    <3>5. new \in Seq(Mine)
      BY <3>3, <3>4, SeqDef
    <3> QED  BY <3>1, <3>5
  <2>2. CASE ~Knows(k, name)
    <3>1. known'[k] = Append(known[k], [name |-> name, of |-> session])
      BY <2>2 DEF Learn
    <3>2. [name |-> name, of |-> session] \in Mine
      OBVIOUS
    <3> QED  BY <1>4, <3>1, <3>2, AppendProperties
  <2> QED  BY <2>1, <2>2
<1>6. BroughtBy(known'[k], session)
  BY <1>5 DEF BroughtBy
<1> QED  BY <1>1, <1>6

LEMMA ModelsInit == Init => ModelsOK
BY EmptyIsBrought DEF Init, ModelsOK

LEMMA ModelsStep == ControlOK /\ ModelsOK /\ [Next]_vars => ModelsOK'
<1> SUFFICES ASSUME ControlOK, ModelsOK, [Next]_vars PROVE ModelsOK'
  OBVIOUS
<1> USE DEF ModelsOK
<1>1. CASE Connect
  BY <1>1 DEF Connect, readerVars, modelVars
<1>2. CASE StartReader
  BY <1>2, EmptyIsBrought DEF StartReader, modelVars
<1>3. CASE AskFirst
  BY <1>3 DEF AskFirst, readerVars, modelVars
<1>4. CASE LabelConnected \/ Disconnect
  BY <1>4 DEF LabelConnected, Disconnect, readerVars, modelVars
<1>5. CASE JoinReader
  BY <1>5 DEF JoinReader, modelVars
<1>6. CASE ProcessFrame
  <2>1. gui # "join" /\ reader = "loop"
    BY <1>6 DEF ProcessFrame, ControlOK, Processing
  <2>2. gui' = gui /\ session' = session /\ reader' \in {"loop", "factory"}
    BY <1>6, <2>1 DEF ProcessFrame, guiVars, readerVars
  <2>3. (\A e \in mirror' : e.of = session)
        /\ DOMAIN known' = Kinds /\ \A k \in Kinds : BroughtBy(known'[k], session)
    <3>1. CASE UNCHANGED mirror /\ Head(frames).what \in Kinds
               /\ Learn(Head(frames).what, Head(frames).name)
      BY <2>1, <3>1, LearnKeeps
    <3>2. CASE UNCHANGED known
               /\ \E it : it.of = session /\ (mirror' = mirror \cup {it} \/ mirror' = mirror \ {it})
      BY <2>1, <3>2
    <3> QED  BY <1>6, <3>1, <3>2 DEF ProcessFrame
  <2> QED  BY <2>1, <2>2, <2>3
<1>7. ASSUME NEW k, NEW name, NEW after \in Processing, reader \in Processing,
             RequestUnlessKnown(k, name, after), UNCHANGED <<session, guiVars, modelVars>>
      PROVE  ModelsOK'
  BY <1>7 DEF RequestUnlessKnown, guiVars, modelVars, Processing
<1>8. CASE RequestFactory
  BY <1>7, <1>8 DEF RequestFactory, Processing
<1>9. CASE RequestKlass
  BY <1>7, <1>9 DEF RequestKlass, Processing
<1>10. CASE Leave
  BY <1>10 DEF Leave, guiVars, modelVars
<1>11. CASE ClientDisconnected
  BY <1>11, EmptyIsBrought DEF ClientDisconnected, guiVars
<1>12. CASE LabelDisconnected
  BY <1>12 DEF LabelDisconnected, guiVars, modelVars
<1>13. CASE Serve \/ Change \/ ConnectionEnds \/ UNCHANGED vars
  BY <1>13 DEF Serve, Change, ConnectionEnds, vars, guiVars, readerVars, modelVars
<1> QED
  BY <1>1, <1>2, <1>3, <1>4, <1>5, <1>6, <1>8, <1>9, <1>10, <1>11, <1>12, <1>13
  DEF Next, Gui, Reader

\* Controller::client_disconnected: whatever a connection brought is gone
\* before a new reader runs, whenever the last one noticed its end.
THEOREM NewConnectionIsClean == Spec => []NothingSurvives
<1>1. ModelsOK => NothingSurvives
  <2> SUFFICES ASSUME ModelsOK PROVE NothingSurvives
    OBVIOUS
  <2>1. ASSUME gui # "join", NEW k \in Kinds, NEW e \in Range(known[k]) PROVE e.of = session
    <3>1. PICK N : known[k] \in Seq([name : N, of : {session}])
      BY <2>1 DEF ModelsOK, BroughtBy
    <3>2. PICK i \in DOMAIN known[k] : e = known[k][i]
      BY <2>1 DEF Range
    <3>3. e \in [name : N, of : {session}]
      BY <3>1, <3>2, LenProperties, ElementOfSeq, ZenonT(40)
    <3> QED  BY <3>3
  <2>2. ReaderDone => \A k \in Kinds : Range(known[k]) = {}
    BY DEF ReaderDone, ModelsOK, Range
  <2> QED  BY <2>1, <2>2 DEF NothingSurvives, ModelsOK, Entries, ReaderDone
<1> QED  BY <1>1, ModelsInit, ModelsStep, ControlAlways, PTL DEF Spec

-----------------------------------------------------------------------------
Names == {x.name : x \in mirror}
TopologyRequest == Ask("topology", "")

\* Where the lists come from: the topology is asked for last, by the GUI thread,
\* and only elements are announced.
ListsOK ==
  /\ \A i \in 1..Len(frames) : frames[i].what \in {"add", "remove"} => frames[i].name \in Elements
  /\ Names \subseteq Elements
  /\ open => connected
  /\ gui # "ask" => todo = <<>>
  /\ todo # <<>> => todo[Len(todo)] = TopologyRequest

LEMMA QuestionTypes ==
  /\ \A e \in Elements : e \in Described /\ FactoryOf(e) \in Described
  /\ \A k \in Kinds, name \in Described :
       /\ Ask(k, name) \in Command /\ Ask(k, name) \in Frame
       /\ Ask(k, name).what = k /\ Ask(k, name).name = name
  /\ TopologyRequest \in Command
  /\ \A what \in {"add", "remove"}, e \in Elements :
       Ask(what, e) \in Frame /\ Ask(what, e).what = what /\ Ask(what, e).name = e
BY DEF Described, FactoryOf, Ask, Command, Frame, Kinds, TopologyRequest

LEMMA FirstQuestionsAre ==
  /\ FirstQuestions \in Seq(Command)
  /\ FirstQuestions # <<>>
  /\ FirstQuestions[Len(FirstQuestions)] = TopologyRequest
  /\ \A i \in DOMAIN Enums : Contains(FirstQuestions, Ask("enum", Enums[i]))
<1> DEFINE asks == [i \in DOMAIN Enums |-> Ask("enum", Enums[i])]
<1>1. Len(Enums) \in Nat /\ DOMAIN Enums = 1..Len(Enums)
  BY EnumsAssumption, LenProperties
<1>2. \A i \in DOMAIN Enums : Ask("enum", Enums[i]) \in Command
  <2>1. \A i \in DOMAIN Enums : Enums[i] \in Described
    BY DEF Described, Range
  <2> QED  BY <2>1, QuestionTypes DEF Kinds
<1>3. asks \in [1..Len(Enums) -> Command]
  BY <1>1, <1>2
<1>4. asks \in Seq(Command) /\ Len(asks) = Len(Enums) /\ \A i \in DOMAIN Enums : asks[i] = Ask("enum", Enums[i])
  BY <1>1, <1>3, SeqDef, LenProperties
<1> HIDE DEF asks
<1>5. TopologyRequest \in Command /\ <<TopologyRequest>> \in Seq(Command)
  BY QuestionTypes
<1>6. FirstQuestions = Append(asks, TopologyRequest)
  <2>1. FirstQuestions = asks \o <<TopologyRequest>>
    BY DEF FirstQuestions, asks, TopologyRequest
  <2> QED  BY <1>4, <1>5, <2>1, AppendIsConcat
<1>7. /\ FirstQuestions \in Seq(Command) /\ FirstQuestions # <<>>
      /\ Len(FirstQuestions) = Len(asks) + 1
      /\ FirstQuestions[Len(asks) + 1] = TopologyRequest
  BY <1>4, <1>5, <1>6, AppendProperties
<1>8. ASSUME NEW i \in DOMAIN Enums PROVE Contains(FirstQuestions, Ask("enum", Enums[i]))
  <2>1. Contains(asks, Ask("enum", Enums[i]))
    BY <1>1, <1>4 DEF Contains
  <2> QED  BY <1>4, <1>5, <1>6, <2>1, AppendItems
<1> QED  BY <1>7, <1>8

\* What a description brings to a container.
LEMMA LearnTypes ==
  ASSUME TypeOK, NEW k \in Kinds, NEW name \in Described, Learn(k, name)
  PROVE  known' \in [Kinds -> Seq(Entry)]
<1> DEFINE it == [name |-> name, of |-> session]
           again == [i \in DOMAIN known[k] |-> IF known[k][i].name = name
                                               THEN [known[k][i] EXCEPT !.of = session]
                                               ELSE known[k][i]]
<1>1. known \in [Kinds -> Seq(Entry)] /\ known[k] \in Seq(Entry) /\ session \in 0..MaxSessions
  BY DEF TypeOK
<1>2. it \in Entry /\ \A e \in Entry : [e EXCEPT !.of = session] \in Entry
  BY <1>1 DEF Entry
<1>3. Append(known[k], it) \in Seq(Entry)
  BY <1>1, <1>2, AppendProperties
<1>4. again \in Seq(Entry)
  <2>1. DOMAIN known[k] = 1..Len(known[k]) /\ Len(known[k]) \in Nat
        /\ \A i \in DOMAIN known[k] : known[k][i] \in Entry
    BY <1>1, LenProperties, ElementOfSeq
  <2>2. again \in [1..Len(known[k]) -> Entry]
    BY <1>2, <2>1
  <2> QED  BY <2>1, <2>2, SeqDef
<1>5. known' = [known EXCEPT ![k] = IF Knows(k, name) THEN again ELSE Append(known[k], it)]
  BY <1>1 DEF Learn
<1> HIDE DEF it, again
<1> QED  BY <1>1, <1>3, <1>4, <1>5

LEMMA TypesInit == Init => TypeOK /\ ListsOK
<1> SUFFICES ASSUME Init PROVE TypeOK /\ ListsOK
  OBVIOUS
<1>1. <<>> \in Seq(Command) /\ <<>> \in Seq(Frame) /\ <<>> \in Seq(Entry)
  OBVIOUS
<1>2. TypeOK
  <2>0. session = 0 /\ changes = 0
    BY Zenon DEF Init
  <2>1. session \in 0..MaxSessions /\ changes \in 0..MaxChanges
    BY <2>0, SessionBounds
  <2>5. /\ connected \in BOOLEAN /\ label \in BOOLEAN /\ open \in BOOLEAN
        /\ crashed \in BOOLEAN /\ early \in BOOLEAN
    BY Zenon DEF Init
  <2>2. known \in [Kinds -> Seq(Entry)]
    BY <1>1 DEF Init
  <2>3. /\ todo \in Seq(Command) /\ commands \in Seq(Command) /\ frames \in Seq(Frame)
        /\ mirror \subseteq Entry /\ pipeline \subseteq Elements /\ added \in Elements \cup {""}
    BY <1>1 DEF Init
  <2>4. gui = "idle" /\ reader = "none" /\ commands = <<>>
    BY DEF Init
  <2> QED  BY <2>1, <2>2, <2>3, <2>4, <2>5 DEF TypeOK
<1>3. ListsOK
  <2>1. frames = <<>> /\ mirror = {} /\ todo = <<>> /\ open = FALSE
    BY Zenon DEF Init
  <2>2. Len(frames) = 0 /\ Names = {}
    BY <2>1 DEF Names
  <2> QED  BY <2>1, <2>2 DEF ListsOK
<1> QED  BY <1>2, <1>3

LEMMA GuiKeepsTypes == ASSUME ControlOK, TypeOK, ListsOK, Gui PROVE TypeOK' /\ ListsOK'
<1>0. <<>> \in Seq(Command) /\ <<>> \in Seq(Frame)
  OBVIOUS
<1>1. CASE Connect
  <2>1. TypeOK'
    <3>0. session \in 0..MaxSessions /\ session' = session + 1 /\ session < MaxSessions
      BY <1>1, Zenon DEF Connect, TypeOK
    <3>1. session' \in 0..MaxSessions
      BY <3>0, SessionBounds
    <3>3. UNCHANGED <<todo, reader, added, mirror, known, label, pipeline, crashed, changes, early>>
      BY <1>1 DEF Connect, readerVars, modelVars, serverVars
    <3>2. connected' = TRUE /\ open' = TRUE /\ commands' = <<>> /\ frames' = <<>> /\ gui' = "join"
      BY <1>1 DEF Connect
    <3> QED  BY <1>0, <3>1, <3>2, <3>3 DEF TypeOK
  <2>2. ListsOK'
    BY <1>0, <1>1 DEF Connect, ListsOK, Names, readerVars, modelVars, serverVars
  <2> QED  BY <2>1, <2>2
<1>2. CASE StartReader
  <2>1. TypeOK'
    BY <1>2, FirstQuestionsAre DEF StartReader, TypeOK, modelVars, serverVars, wires
  <2>2. ListsOK'
    BY <1>2, FirstQuestionsAre DEF StartReader, ListsOK, Names, modelVars, serverVars, wires
  <2> QED  BY <2>1, <2>2
<1>3. CASE AskFirst
  <2>1. UNCHANGED <<connected, session, reader, added, mirror, known, label, open, pipeline, crashed, changes, frames, early>>
        /\ gui = "ask" /\ gui' \in {"ask", "label", "idle"} /\ (gui' # "ask" => todo' = <<>>)
    BY <1>3 DEF AskFirst, readerVars, modelVars, serverVars
  <2>2. /\ todo' \in Seq(Command) /\ commands' \in Seq(Command)
        /\ commands' # <<>> => open
        /\ todo' # <<>> => todo'[Len(todo')] = TopologyRequest
    <3>0. todo \in Seq(Command) /\ commands \in Seq(Command) /\ (commands # <<>> => open)
      BY DEF TypeOK
    <3>1. CASE todo # <<>> /\ todo' = Tail(todo) /\ Send(Head(todo))
      <4>1. /\ Head(todo) \in Command /\ Tail(todo) \in Seq(Command)
            /\ Len(Tail(todo)) = Len(todo) - 1 /\ Len(todo) \in Nat
            /\ \A i \in 1..Len(Tail(todo)) : Tail(todo)[i] = todo[i + 1]
        BY <3>0, <3>1, HeadTailProperties, LenProperties
      <4>2. Append(commands, Head(todo)) \in Seq(Command)
        BY <3>0, <4>1, AppendProperties
      <4>3. commands' \in Seq(Command) /\ (commands' # <<>> => open)
        BY <3>0, <3>1, <4>2 DEF Send
      <4>4. Tail(todo) # <<>> => Tail(todo)[Len(Tail(todo))] = TopologyRequest
        <5> SUFFICES ASSUME Tail(todo) # <<>> PROVE Tail(todo)[Len(Tail(todo))] = TopologyRequest
          OBVIOUS
        <5>1. Len(Tail(todo)) # 0
          BY <4>1, EmptySeq
        <5>2. Len(Tail(todo)) \in 1..Len(Tail(todo)) /\ Len(Tail(todo)) + 1 = Len(todo)
          BY <4>1, <5>1
        <5> QED  BY <3>1, <4>1, <5>2 DEF ListsOK
      <4> QED  BY <3>1, <4>1, <4>3, <4>4
    <3>2. CASE (todo' = <<>> \/ todo' = todo) /\ commands' = commands
      BY <1>0, <3>0, <3>2 DEF ListsOK
    <3> QED  BY <1>3, <3>1, <3>2 DEF AskFirst
  <2>3. TypeOK'
    BY <2>1, <2>2, ZenonT(40) DEF TypeOK
  <2>4. ListsOK'
    BY <2>1, <2>2 DEF ListsOK, Names
  <2> QED  BY <2>3, <2>4
<1>4. CASE LabelConnected
  BY <1>4 DEF LabelConnected, TypeOK, ListsOK, Names, readerVars, modelVars, serverVars, wires
<1>5. CASE Disconnect
  BY <1>0, <1>5 DEF Disconnect, TypeOK, ListsOK, Names, readerVars, modelVars, serverVars
<1>6. CASE JoinReader
  BY <1>6 DEF JoinReader, TypeOK, ListsOK, Names, modelVars, serverVars, wires
<1> QED  BY <1>1, <1>2, <1>3, <1>4, <1>5, <1>6 DEF Gui

LEMMA RequestTypes ==
  ASSUME TypeOK, NEW k \in Kinds, NEW name \in Described, NEW after,
         RequestUnlessKnown(k, name, after)
  PROVE  commands' \in Seq(Command) /\ (commands' # <<>> => open) /\ reader' \in {after, "terminated"}
<1>1. commands \in Seq(Command) /\ (commands # <<>> => open) /\ Ask(k, name) \in Command
  BY QuestionTypes DEF TypeOK
<1>2. Append(commands, Ask(k, name)) \in Seq(Command)
  BY <1>1, AppendProperties
<1> QED  BY <1>1, <1>2 DEF RequestUnlessKnown, Send

LEMMA ReaderKeepsTypes == ASSUME ControlOK, TypeOK, ListsOK, Reader PROVE TypeOK' /\ ListsOK'
<1>1. CASE ProcessFrame
  <2> DEFINE f == Head(frames)
             it == [name |-> f.name, of |-> session]
  <2>1. /\ UNCHANGED <<connected, session, gui, todo, label, open, pipeline, crashed, changes, commands, early>>
        /\ frames' = Tail(frames) /\ frames # <<>> /\ reader = "loop"
    BY <1>1 DEF ProcessFrame, guiVars, serverVars
  <2>2. frames \in Seq(Frame) /\ Len(frames) \in Nat
    BY LenProperties DEF TypeOK
  <2>3. /\ f \in Frame /\ Tail(frames) \in Seq(Frame) /\ Len(Tail(frames)) = Len(frames) - 1
        /\ \A i \in 1..Len(Tail(frames)) : Tail(frames)[i] = frames[i + 1]
        /\ 1 \in 1..Len(frames) /\ f = frames[1]
    BY <2>1, <2>2, HeadTailProperties, EmptySeq
  <2>4. \A i \in 1..Len(frames') : frames'[i].what \in {"add", "remove"} => frames'[i].name \in Elements
    BY <2>1, <2>2, <2>3 DEF ListsOK
  <2> HIDE DEF f
  <2>5. CASE f.what \in Kinds /\ Learn(f.what, f.name) /\ UNCHANGED <<mirror, readerVars>>
    <3>1. f.name \in Described
      BY <2>3 DEF Frame
    <3>2. known' \in [Kinds -> Seq(Entry)]
      BY <2>5, <3>1, LearnTypes
    <3>3. TypeOK'
      BY <2>1, <2>3, <2>5, <3>2 DEF TypeOK, readerVars
    <3>4. ListsOK'
      BY <2>1, <2>4, <2>5 DEF ListsOK, Names
    <3> QED  BY <3>3, <3>4
  <2>6. CASE /\ f.what \in {"add", "remove"} /\ UNCHANGED known
             /\ mirror' = (IF f.what = "add" THEN mirror \cup {it} ELSE mirror \ {it})
             /\ reader' = "factory" /\ added' = f.name
    <3>1. f.name \in Elements
      BY <2>3, <2>6 DEF ListsOK
    <3>2. it \in Entry
      BY <3>1, QuestionTypes DEF Entry, TypeOK
    <3>3. it.name = f.name
      OBVIOUS
    <3> HIDE DEF it
    <3>4. mirror' \subseteq Entry /\ mirror' \subseteq mirror \cup {it}
      BY <2>6, <3>2 DEF TypeOK
    <3>5. Names' \subseteq Elements
      BY <3>1, <3>3, <3>4 DEF Names, ListsOK
    <3>6. TypeOK'
      BY <2>1, <2>3, <2>6, <3>1, <3>4 DEF TypeOK
    <3>7. ListsOK'
      BY <2>1, <2>4, <3>5 DEF ListsOK
    <3> QED  BY <3>6, <3>7
  <2> QED  BY <1>1, <2>5, <2>6 DEF ProcessFrame, f, it
<1>2. ASSUME NEW k \in Kinds, NEW name \in Described, NEW after \in {"loop", "klass"},
             RequestUnlessKnown(k, name, after), reader \in {"factory", "klass"},
             UNCHANGED <<connected, session, guiVars, added, modelVars, label, open, serverVars, frames, early>>
      PROVE  TypeOK' /\ ListsOK'
  <2>1. commands' \in Seq(Command) /\ (commands' # <<>> => open) /\ reader' \in {"loop", "klass", "terminated"}
    BY <1>2, RequestTypes
  <2> QED  BY <1>2, <2>1, ZenonT(40) DEF TypeOK, ListsOK, Names, guiVars, modelVars, serverVars
<1>3. CASE RequestFactory
  <2>1. FactoryOf(added) \in Described /\ "factory" \in Kinds
    BY <1>3, QuestionTypes DEF RequestFactory, TypeOK, Kinds
  <2> QED  BY <1>2, <1>3, <2>1 DEF RequestFactory
<1>4. CASE RequestKlass
  <2>1. added \in Described /\ "klass" \in Kinds
    BY <1>4, QuestionTypes DEF RequestKlass, TypeOK, Kinds
  <2> QED  BY <1>2, <1>4, <2>1 DEF RequestKlass
<1>5. CASE Leave
  <2>1. open' => connected'
    BY <1>5 DEF Leave, ListsOK
  <2>2. UNCHANGED <<session, gui, todo, added, mirror, known, label, open, pipeline, crashed, changes, commands, frames>>
        /\ connected' = FALSE /\ reader' = "clean" /\ early' \in BOOLEAN
    BY <1>5 DEF Leave, TypeOK, guiVars, modelVars, serverVars, wires
  <2> QED  BY <2>1, <2>2 DEF TypeOK, ListsOK, Names
<1>6. CASE ClientDisconnected
  <2>1. <<>> \in Seq(Entry)
    OBVIOUS
  <2>2. known' \in [Kinds -> Seq(Entry)] /\ mirror' = {} /\ Names' = {} /\ reader' = "label"
    BY <1>6, <2>1 DEF ClientDisconnected, Names
  <2>3. UNCHANGED <<connected, session, gui, todo, added, label, open, pipeline, crashed, changes, commands, frames, early>>
    BY <1>6 DEF ClientDisconnected, guiVars, serverVars, wires
  <2> QED  BY <2>2, <2>3 DEF TypeOK, ListsOK
<1>7. CASE LabelDisconnected
  BY <1>7 DEF LabelDisconnected, TypeOK, ListsOK, Names, guiVars, modelVars, serverVars, wires
<1> QED  BY <1>1, <1>3, <1>4, <1>5, <1>6, <1>7 DEF Reader

\* The answer to the request for the topology: each element of the pipeline.
TopologyAnswer == [i \in 1..Cardinality(pipeline) |-> Ask("add", SetToSeq(pipeline)[i])]

LEMMA TopologyAnswerIs ==
  ASSUME pipeline \subseteq Elements
  PROVE  /\ TopologyAnswer \in Seq(Frame)
         /\ \A i \in 1..Len(TopologyAnswer) : \E e \in pipeline : TopologyAnswer[i] = Ask("add", e)
         /\ \A e \in pipeline : Contains(TopologyAnswer, Ask("add", e))
<1> DEFINE n == Cardinality(pipeline)
           list == SetToSeq(pipeline)
<1>1. IsFiniteSet(pipeline)
  BY ElementsAssumption, FS_Subset
<1>2. n \in Nat /\ list \in [1..n -> pipeline] /\ \A e \in pipeline : \E i \in 1..n : list[i] = e
  BY <1>1, SetToSeqItems
<1> HIDE DEF list
<1>3. \A i \in 1..n : Ask("add", list[i]) \in Frame
  BY <1>2, QuestionTypes
<1>4. TopologyAnswer = [i \in 1..n |-> Ask("add", list[i])]
  BY DEF TopologyAnswer, list
<1> HIDE DEF n
<1>5. TopologyAnswer \in [1..n -> Frame]
  BY <1>3, <1>4
<1>6. TopologyAnswer \in Seq(Frame) /\ Len(TopologyAnswer) = n
  BY <1>2, <1>5, SeqDef, LenProperties
<1>7. \A i \in 1..n : TopologyAnswer[i] = Ask("add", list[i]) /\ list[i] \in pipeline
  BY <1>2, <1>4
<1> QED  BY <1>2, <1>6, <1>7 DEF Contains

\* What the server does with a command: it crashes, repeats the name of the
\* description, or tells the elements.
LEMMA ServeDoes ==
  ASSUME TypeOK, Serve
  PROVE  /\ commands # <<>> /\ Head(commands) \in Command /\ Tail(commands) \in Seq(Command) /\ open
         /\ \/ frames' = frames /\ commands' = <<>> /\ open' = FALSE /\ crashed' = TRUE
            \/ /\ open' = open /\ crashed' = crashed /\ commands' = Tail(commands)
               /\ \/ \E k \in Kinds, name \in Described :
                       Head(commands) = Ask(k, name) /\ frames' = frames \o <<Ask(k, name)>>
                  \/ Head(commands).what = "topology" /\ frames' = frames \o TopologyAnswer
<1> DEFINE c == Head(commands)
<1>1. commands # <<>> /\ c \in Command /\ Tail(commands) \in Seq(Command) /\ open
  BY HeadTailProperties DEF Serve, TypeOK
<1>2. CASE \E k \in Kinds : \E existing : c.what = k /\ Describe(k, c.name, existing)
  <2>0. PICK k \in Kinds : \E existing : c.what = k /\ Describe(k, c.name, existing)
    BY <1>2
  <2>1. PICK existing : c.what = k /\ Describe(k, c.name, existing)
    BY <2>0
  <2>2. c = Ask(k, c.name) /\ c.name \in Described
    BY <1>1, <2>1 DEF Command, Ask
  <2> HIDE DEF c
  <2>3. CASE Answer(<<Ask(k, c.name)>>)
    BY <1>1, <2>2, <2>3 DEF Answer, c
  <2>4. CASE SendTypeDoesntExistError
    BY <1>1, <2>4 DEF SendTypeDoesntExistError, c
  <2> QED  BY <2>1, <2>3, <2>4 DEF Describe
<1>3. CASE c.what = "topology" /\ SendTopology
  BY <1>1, <1>3 DEF SendTopology, Answer, TopologyAnswer
<1>4. (c.what = "topology" /\ SendTopology) \/ \E k \in Kinds : \E existing : c.what = k /\ Describe(k, c.name, existing)
  BY DEF Serve, SendEnumFlags, SendFactory, SendKlass, Kinds
<1> QED  BY <1>2, <1>3, <1>4

LEMMA ServerKeepsTypes ==
  ASSUME ControlOK, TypeOK, ListsOK, Serve \/ Change \/ ConnectionEnds
  PROVE  TypeOK' /\ ListsOK'
<1>0. /\ frames \in Seq(Frame) /\ commands \in Seq(Command) /\ <<>> \in Seq(Command)
      /\ pipeline \subseteq Elements /\ changes \in 0..MaxChanges
      /\ \A i \in 1..Len(frames) : frames[i].what \in {"add", "remove"} => frames[i].name \in Elements
  <2>1. <<>> \in Seq(Command)
    OBVIOUS
  <2> QED  BY <2>1, Zenon DEF TypeOK, ListsOK
<1> DEFINE FramesFine ==
      /\ frames' \in Seq(Frame)
      /\ \A i \in 1..Len(frames') : frames'[i].what \in {"add", "remove"} => frames'[i].name \in Elements
<1>1. ASSUME NEW sent \in Seq(Frame), frames' = frames \o sent,
             \A i \in 1..Len(sent) : sent[i].what \in {"add", "remove"} => sent[i].name \in Elements
      PROVE  FramesFine
  BY <1>0, <1>1, ConcatItems
<1>2. CASE Serve
  <2>1. UNCHANGED <<connected, session, gui, todo, reader, added, mirror, known, label, pipeline, changes, early>>
    BY <1>2 DEF Serve, guiVars, readerVars, modelVars
  <2>2. /\ open' \in BOOLEAN /\ crashed' \in BOOLEAN /\ commands' \in Seq(Command)
        /\ (commands' # <<>> => open') /\ (open' => open)
    BY <1>0, <1>2, ServeDoes DEF TypeOK
  <2>3. FramesFine
    <3>1. CASE frames' = frames
      BY <1>0, <3>1
    <3>2. ASSUME NEW k \in Kinds, NEW name \in Described, frames' = frames \o <<Ask(k, name)>>
          PROVE  FramesFine
      <4>1. Ask(k, name) \in Frame /\ Ask(k, name).what \notin {"add", "remove"}
        BY QuestionTypes DEF Kinds
      <4> DEFINE sent == <<Ask(k, name)>>
      <4>2. sent \in Seq(Frame) /\ Len(sent) = 1 /\ sent[1] = Ask(k, name)
        BY <4>1
      <4>3. \A i \in 1..Len(sent) : sent[i].what \in {"add", "remove"} => sent[i].name \in Elements
        BY <4>1, <4>2
      <4> HIDE DEF sent
      <4> QED  BY <1>1, <3>2, <4>2, <4>3 DEF sent
    <3>3. CASE frames' = frames \o TopologyAnswer
      <4>1. \A i \in 1..Len(TopologyAnswer) : TopologyAnswer[i].name \in Elements
        BY <1>0, TopologyAnswerIs, QuestionTypes
      <4> QED  BY <1>0, <1>1, <3>3, <4>1, TopologyAnswerIs
    <3> QED  BY <1>2, <3>1, <3>2, <3>3, ServeDoes
  <2>4. TypeOK'
    BY <2>1, <2>2, <2>3 DEF TypeOK
  <2>5. ListsOK'
    BY <2>1, <2>2, <2>3 DEF ListsOK, Names
  <2> QED  BY <2>4, <2>5
<1>3. CASE Change
  <2>1. PICK e \in Elements :
          /\ changes < MaxChanges /\ changes' = changes + 1
          /\ pipeline' = (IF e \in pipeline THEN pipeline \ {e} ELSE pipeline \cup {e})
          /\ frames' = IF open THEN Append(frames, Ask(IF e \in pipeline THEN "remove" ELSE "add", e)) ELSE frames
    BY <1>3 DEF Change
  <2>2. UNCHANGED <<connected, session, gui, todo, reader, added, mirror, known, label, open, crashed, commands, early>>
    BY <1>3 DEF Change, guiVars, readerVars, modelVars
  <2>3. changes' \in 0..MaxChanges
    BY <1>0, <2>1, SessionBounds
  <2>4. pipeline' \subseteq Elements
    BY <1>0, <2>1
  <2>5. FramesFine
    <3> DEFINE f == Ask(IF e \in pipeline THEN "remove" ELSE "add", e)
               sent == <<f>>
    <3>1. f \in Frame /\ f.name \in Elements
      BY QuestionTypes
    <3> HIDE DEF f
    <3>2. sent \in Seq(Frame) /\ Len(sent) = 1 /\ sent[1] = f /\ Append(frames, f) = frames \o sent
      BY <1>0, <3>1, AppendIsConcat
    <3> HIDE DEF sent
    <3>3. \A i \in 1..Len(sent) : sent[i].what \in {"add", "remove"} => sent[i].name \in Elements
      BY <3>1, <3>2
    <3>4. CASE ~open
      BY <1>0, <2>1, <3>4
    <3>5. CASE open
      BY <1>1, <2>1, <3>2, <3>3, <3>5 DEF f
    <3> QED  BY <3>4, <3>5
  <2>6. TypeOK'
    BY <2>2, <2>3, <2>4, <2>5, ZenonT(40) DEF TypeOK
  <2>7. ListsOK'
    BY <2>2, <2>5 DEF ListsOK, Names
  <2> QED  BY <2>6, <2>7
<1>4. CASE ConnectionEnds
  <2>1. PICK k \in 0..Len(frames) : frames' = SubSeq(frames, 1, k)
    BY <1>4 DEF ConnectionEnds
  <2>2. /\ frames' \in Seq(Frame)
        /\ \A i \in 1..Len(frames') : i \in 1..Len(frames) /\ frames'[i] = frames[i]
    <3>1. Len(frames) \in Nat /\ \A i \in 1..Len(frames) : frames[i] \in Frame
      BY <1>0, LenProperties, ElementOfSeq
    <3>2. \A i \in 1..k : frames[i] \in Frame
      BY <3>1
    <3> QED  BY <2>1, <3>1, <3>2, SubSeqProperties
  <2>3. /\ UNCHANGED <<connected, session, gui, todo, reader, added, mirror, known, label, pipeline, crashed, changes, early>>
        /\ open' = FALSE /\ commands' = <<>>
    BY <1>4 DEF ConnectionEnds, guiVars, readerVars, modelVars, serverVars
  <2>4. TypeOK'
    BY <1>0, <2>2, <2>3, ZenonT(40) DEF TypeOK
  <2>5. ListsOK'
    BY <1>0, <2>2, <2>3 DEF ListsOK, Names
  <2> QED  BY <2>4, <2>5
<1> QED  BY <1>2, <1>3, <1>4

LEMMA TypesStep == ControlOK /\ TypeOK /\ ListsOK /\ [Next]_vars => TypeOK' /\ ListsOK'
<1> SUFFICES ASSUME ControlOK, TypeOK, ListsOK, [Next]_vars PROVE TypeOK' /\ ListsOK'
  OBVIOUS
<1>1. CASE UNCHANGED vars
  <2>1. /\ UNCHANGED <<connected, session, gui, todo, reader, added, mirror, known, label>>
        /\ UNCHANGED <<pipeline, changes, early, open, crashed, commands, frames>>
    BY <1>1 DEF vars, guiVars, readerVars, modelVars, serverVars, wires
  <2>2. TypeOK'
    BY <2>1, ZenonT(40) DEF TypeOK
  <2>3. ListsOK'
    BY <2>1 DEF ListsOK, Names
  <2> QED  BY <2>2, <2>3
<1> QED  BY <1>1, GuiKeepsTypes, ReaderKeepsTypes, ServerKeepsTypes DEF Next

\* The types of everything the two threads and the server exchange, for every
\* pipeline: in particular commands wait only for a connection that is open, and a
\* reader that asks for a type has an element to ask for.
THEOREM TypeCorrect == Spec => []TypeOK
BY TypesInit, TypesStep, ControlAlways, PTL DEF Spec

-----------------------------------------------------------------------------
\* The label: it is set when the questions have been asked, if the connection is
\* there; "early" remembers that the reader was faster.
LabelOK ==
  /\ gui = "idle" /\ reader \in Processing => label
  /\ gui \in {"ask", "label"} /\ reader \notin Processing => early
  /\ reader \in {"none", "ended"} => ~label \/ early

LEMMA LabelInit == Init => LabelOK
BY DEF Init, LabelOK, Processing

LEMMA LabelStep == ControlOK /\ LabelOK /\ [Next]_vars => LabelOK'
<1> SUFFICES ASSUME ControlOK, LabelOK, [Next]_vars PROVE LabelOK'
  OBVIOUS
<1> USE DEF ControlOK, LabelOK, Processing, ReaderSteps, GuiSteps, Running
<1>1. CASE Connect
  BY <1>1 DEF Connect, readerVars
<1>2. CASE StartReader
  BY <1>2 DEF StartReader
<1>3. CASE AskFirst
  BY <1>3 DEF AskFirst, readerVars
<1>4. CASE LabelConnected
  BY <1>4 DEF LabelConnected, readerVars
<1>5. CASE Disconnect
  BY <1>5 DEF Disconnect, readerVars
<1>6. CASE JoinReader
  BY <1>6 DEF JoinReader
<1>7. CASE ProcessFrame
  BY <1>7 DEF ProcessFrame, guiVars, readerVars
<1>8. ASSUME NEW k, NEW name, NEW after \in Processing, reader \in Processing,
             RequestUnlessKnown(k, name, after), UNCHANGED <<connected, guiVars, label, early>>
      PROVE  LabelOK'
  BY <1>8 DEF RequestUnlessKnown, guiVars
<1>9. CASE RequestFactory
  BY <1>8, <1>9 DEF RequestFactory
<1>10. CASE RequestKlass
  BY <1>8, <1>10 DEF RequestKlass
<1>11. CASE Leave
  BY <1>11 DEF Leave, guiVars
<1>12. CASE ClientDisconnected
  BY <1>12 DEF ClientDisconnected, guiVars
<1>13. CASE LabelDisconnected
  BY <1>13 DEF LabelDisconnected, guiVars
<1>14. CASE Serve \/ Change \/ ConnectionEnds \/ UNCHANGED vars
  BY <1>14 DEF Serve, Change, ConnectionEnds, vars, guiVars, readerVars
<1> QED
  BY <1>1, <1>2, <1>3, <1>4, <1>5, <1>6, <1>7, <1>9, <1>10, <1>11, <1>12, <1>13, <1>14
  DEF Next, Gui, Reader

-----------------------------------------------------------------------------
\* The containers: a description that comes again changes no name.
OnceOK == \A k \in Kinds : \A i, j \in DOMAIN known[k] : known[k][i].name = known[k][j].name => i = j

LEMMA LearnProperties ==
  ASSUME TypeOK, NEW k \in Kinds, NEW name, Learn(k, name)
  PROVE  /\ \A j \in Kinds : \A n : Knows(j, n)' <=> Knows(j, n) \/ (j = k /\ n = name)
         /\ OnceOK => OnceOK'
<1> DEFINE old == known[k]
           new == known'[k]
<1>1. old \in Seq(Entry) /\ DOMAIN known = Kinds /\ session \in 0..MaxSessions
  BY DEF TypeOK
<1>2. \A j \in Kinds \ {k} : known'[j] = known[j]
  BY <1>1 DEF Learn
<1>3. Len(old) \in Nat /\ DOMAIN old = 1..Len(old) /\ \A i \in DOMAIN old : old[i] \in Entry
  BY <1>1, LenProperties, ElementOfSeq
<1>4. CASE Knows(k, name)
  <2>1. new = [i \in DOMAIN old |-> IF old[i].name = name THEN [old[i] EXCEPT !.of = session] ELSE old[i]]
    BY <1>1, <1>4 DEF Learn
  <2>2. \A e \in Entry : [e EXCEPT !.of = session].name = e.name
    BY DEF Entry
  <2>3. DOMAIN new = DOMAIN old /\ \A i \in DOMAIN old : new[i].name = old[i].name
    BY <1>3, <2>1, <2>2
  <2> HIDE DEF new
  <2>4. \A n : (\E i \in DOMAIN new : new[i].name = n) <=> (\E i \in DOMAIN old : old[i].name = n)
    BY <2>3
  <2>5. \A j \in Kinds : \A n : Knows(j, n)' <=> Knows(j, n) \/ (j = k /\ n = name)
    BY <1>2, <1>4, <2>4 DEF Knows, new
  <2>6. OnceOK => OnceOK'
    BY <1>2, <2>3 DEF OnceOK, new
  <2> QED  BY <2>5, <2>6
<1>5. CASE ~Knows(k, name)
  <2> DEFINE it == [name |-> name, of |-> session]
             S == Entry \cup {it}
  <2>1. new = Append(old, it)
    BY <1>1, <1>5 DEF Learn
  <2>2. it.name = name /\ it \in S
    OBVIOUS
  <2>3. old \in Seq(S)
    <3>1. Entry \subseteq S
      OBVIOUS
    <3> QED  BY <1>1, <3>1, SeqMonotonic
  <2> HIDE DEF it, S
  <2>4. /\ DOMAIN new = 1..(Len(old) + 1)
        /\ \A i \in 1..Len(old) : new[i] = old[i]
        /\ new[Len(old) + 1] = it
    BY <2>1, <2>2, <2>3, AppendProperties, LenProperties
  <2> HIDE DEF new
  <2>5. \A i \in DOMAIN new : i \in DOMAIN old \/ i = Len(old) + 1
    BY <1>3, <2>4
  <2>6. \A n : (\E i \in DOMAIN new : new[i].name = n) <=> (\E i \in DOMAIN old : old[i].name = n) \/ n = name
    <3>1. Len(old) + 1 \in DOMAIN new /\ DOMAIN old \subseteq DOMAIN new
      BY <1>3, <2>4
    <3> QED  BY <1>3, <2>2, <2>4, <2>5, <3>1
  <2>7. \A j \in Kinds : \A n : Knows(j, n)' <=> Knows(j, n) \/ (j = k /\ n = name)
    BY <1>2, <2>6 DEF Knows, new
  <2>8. \A i \in DOMAIN old : old[i].name # name
    BY <1>5 DEF Knows
  <2>9. (\A i, j \in DOMAIN old : old[i].name = old[j].name => i = j)
        => \A i, j \in DOMAIN new : new[i].name = new[j].name => i = j
    BY <1>3, <2>2, <2>4, <2>5, <2>8
  <2>10. OnceOK => OnceOK'
    BY <1>2, <2>9 DEF OnceOK, new
  <2> QED  BY <2>7, <2>10
<1> QED  BY <1>4, <1>5

LEMMA OnceInit == Init => OnceOK
<1> SUFFICES ASSUME Init PROVE OnceOK
  OBVIOUS
<1>1. known = [k \in Kinds |-> <<>>]
  BY Zenon DEF Init
<1>2. \A k \in Kinds : DOMAIN known[k] = {}
  BY <1>1
<1> QED  BY <1>2 DEF OnceOK

LEMMA OnceStep == TypeOK /\ OnceOK /\ [Next]_vars => OnceOK'
<1> SUFFICES ASSUME TypeOK, OnceOK, [Next]_vars PROVE OnceOK'
  OBVIOUS
<1>1. CASE UNCHANGED known
  BY <1>1 DEF OnceOK
<1>2. CASE ProcessFrame
  <2>1. (Head(frames).what \in Kinds /\ Learn(Head(frames).what, Head(frames).name)) \/ UNCHANGED known
    BY <1>2 DEF ProcessFrame
  <2> QED  BY <1>1, <2>1, LearnProperties
<1>3. CASE ClientDisconnected
  BY <1>3 DEF ClientDisconnected, OnceOK
<1>4. UNCHANGED known \/ ProcessFrame \/ ClientDisconnected
  BY DEF Next, Gui, Reader, Connect, StartReader, AskFirst, LabelConnected, Disconnect, JoinReader,
         RequestFactory, RequestKlass, Leave, LabelDisconnected, Serve, Change, ConnectionEnds,
         vars, modelVars
<1> QED  BY <1>1, <1>2, <1>3, <1>4

-----------------------------------------------------------------------------
\* The elements.  One is shown, or will be when the frames under way have been
\* processed: the last frame of it adds it, or the model has it and no frame
\* removes it.  What the last connection left does not count.
Shown(e) == \/ LastIs(frames, Ask("add", e), Ask("remove", e))
            \/ gui # "join" /\ e \in Names /\ ~Contains(frames, Ask("remove", e))

\* The topology is still to be asked for, or to be told.
Due == todo # <<>> \/ Contains(commands, TopologyRequest)

\* The hooks tell every change as it happens, so that nothing is shown that is
\* gone; once the topology was told, everything is.
PipelineOK == open =>
  \A e \in Elements : /\ Shown(e) => e \in pipeline
                      /\ gui # "join" /\ ~Due /\ e \in pipeline => Shown(e)

LEMMA FramesDiffer ==
  \A e, d : /\ Ask("add", e) # Ask("remove", d)
            /\ e # d => Ask("add", e) # Ask("add", d) /\ Ask("remove", e) # Ask("remove", d)
            /\ \A k \in Kinds : /\ Ask(k, e) # Ask("add", d) /\ Ask(k, e) # Ask("remove", d)
                               /\ Ask(k, e) # TopologyRequest
BY DEF Ask, Kinds, TopologyRequest

\* What more frames change.
LEMMA ShownAfter ==
  ASSUME frames \in Seq(Frame), NEW sent \in Seq(Frame), frames' = frames \o sent,
         UNCHANGED <<gui, mirror>>, NEW e
  PROVE  Shown(e)' <=> \/ LastIs(sent, Ask("add", e), Ask("remove", e))
                       \/ Shown(e) /\ ~Contains(sent, Ask("remove", e))
<1> DEFINE a == Ask("add", e)
           b == Ask("remove", e)
<1>1. LastIs(frames \o sent, a, b) <=> LastIs(sent, a, b) \/ (LastIs(frames, a, b) /\ ~Contains(sent, b))
  BY LastIsConcat
<1>2. Contains(frames \o sent, b) <=> Contains(frames, b) \/ Contains(sent, b)
  BY ContainsConcat
<1>3. Names' = Names
  BY DEF Names
<1> HIDE DEF a, b
<1>4. LastIs(frames', a, b) <=> LastIs(sent, a, b) \/ (LastIs(frames, a, b) /\ ~Contains(sent, b))
  BY <1>1
<1>5. Contains(frames', b) <=> Contains(frames, b) \/ Contains(sent, b)
  BY <1>2
<1> QED  BY <1>3, <1>4, <1>5, Zenon DEF Shown, a, b

\* Processing a frame changes nothing in what is shown or will be.
LEMMA ShownProcessed ==
  ASSUME TypeOK, ModelsOK, gui # "join", ProcessFrame, NEW e
  PROVE  Shown(e)' <=> Shown(e)
<1> DEFINE a == Ask("add", e)
           b == Ask("remove", e)
           f == Head(frames)
           it == [name |-> f.name, of |-> session]
<1>1. frames \in Seq(Frame) /\ frames # <<>> /\ frames' = Tail(frames) /\ gui' = gui /\ gui # "join"
  BY DEF ProcessFrame, TypeOK, guiVars
<1>2. f \in Frame
  BY <1>1, HeadTailProperties
<1>3. /\ Contains(frames, b) <=> f = b \/ Contains(frames', b)
      /\ LastIs(frames, a, b) <=> LastIs(frames', a, b) \/ (f = a /\ ~Contains(frames', b))
  <2>1. Contains(frames, b) <=> Head(frames) = b \/ Contains(Tail(frames), b)
    BY <1>1, HeadTailItems
  <2>2. LastIs(frames, a, b) <=> LastIs(Tail(frames), a, b) \/ (Head(frames) = a /\ ~Contains(Tail(frames), b))
    BY <1>1, HeadTailItems
  <2> QED  BY <1>1, <2>1, <2>2
<1>4. a # b /\ (f = a <=> f.what = "add" /\ f.name = e) /\ (f = b <=> f.what = "remove" /\ f.name = e)
  BY <1>2 DEF Frame, Ask
<1>5. it.name = f.name /\ \A x \in mirror : x.name = f.name => x = it
  <2>1. \A x \in Entry : x = [name |-> x.name, of |-> x.of]
    BY DEF Entry
  <2>2. mirror \subseteq Entry /\ \A x \in mirror : x.of = session
    BY <1>1, Zenon DEF ModelsOK, TypeOK
  <2> QED  BY <2>1, <2>2
<1>6. \/ f.what \in Kinds /\ mirror' = mirror
      \/ f.what = "add" /\ mirror' = mirror \cup {it}
      \/ f.what = "remove" /\ mirror' = mirror \ {it}
  BY DEF ProcessFrame
<1> HIDE DEF a, b, f, it
<1>7. CASE f.what \in Kinds /\ mirror' = mirror
  <2>1. Names' = Names /\ f # a /\ f # b
    BY <1>4, <1>7 DEF Names, Kinds
  <2> QED  BY <1>1, <1>3, <2>1 DEF Shown, a, b
<1>8. CASE f.what = "add" /\ mirror' = mirror \cup {it}
  <2>1. Names' = Names \cup {f.name}
    BY <1>5, <1>8 DEF Names
  <2>2. f # b /\ (f = a <=> f.name = e)
    BY <1>4, <1>8
  <2> QED  BY <1>1, <1>3, <2>1, <2>2 DEF Shown, a, b
<1>9. CASE f.what = "remove" /\ mirror' = mirror \ {it}
  <2>1. Names' = Names \ {f.name}
    BY <1>5, <1>9 DEF Names
  <2>2. f # a /\ (f = b <=> f.name = e)
    BY <1>4, <1>9
  <2>3. Contains(frames', b) => ~(f = a)
    BY <2>2
  <2> QED  BY <1>1, <1>3, <2>1, <2>2 DEF Shown, a, b
<1> QED  BY <1>6, <1>7, <1>8, <1>9

LEMMA PipelineInit == Init => PipelineOK
BY DEF Init, PipelineOK

\* Nothing changes what is shown, there or due.
LEMMA SamePipeline ==
  ASSUME PipelineOK, UNCHANGED <<open, pipeline, gui, frames, mirror, todo>>,
         Contains(commands, TopologyRequest) => Contains(commands, TopologyRequest)'
  PROVE  PipelineOK'
<1>1. Names' = Names
  BY DEF Names
<1>2. \A e : Shown(e)' <=> Shown(e)
  BY <1>1 DEF Shown, Contains, LastIs
<1>3. Due => Due'
  BY DEF Due
<1> QED  BY <1>2, <1>3 DEF PipelineOK

\* A command more is still there.
LEMMA SendKeeps ==
  ASSUME TypeOK, NEW c \in Command, Send(c), NEW x
  PROVE  /\ Contains(commands, x) => Contains(commands, x)'
         /\ open => Contains(commands, c)'
<1>1. commands \in Seq(Command)
  BY DEF TypeOK
<1>2. /\ Contains(Append(commands, c), x) <=> Contains(commands, x) \/ c = x
      /\ Contains(Append(commands, c), c) <=> Contains(commands, c) \/ c = c
  BY <1>1, AppendItems
<1>3. CASE open
  <2>1. commands' = Append(commands, c)
    BY <1>3 DEF Send
  <2>2. (Contains(commands', x) <=> Contains(commands, x) \/ c = x) /\ Contains(commands', c)
    BY <1>2, <2>1
  <2> QED  BY <2>2
<1>4. CASE ~open
  <2>1. commands' = commands
    BY <1>4 DEF Send
  <2>2. Contains(commands', x) <=> Contains(commands, x)
    BY <2>1
  <2> QED  BY <1>4, <2>2
<1> QED  BY <1>3, <1>4

LEMMA RequestKeeps ==
  ASSUME TypeOK, NEW k \in Kinds, NEW name \in Described, NEW after, NEW x,
         RequestUnlessKnown(k, name, after)
  PROVE  /\ Contains(commands, x) => Contains(commands, x)'
         /\ open /\ connected => Knows(k, name) \/ Contains(commands, Ask(k, name))'
<1>1. Ask(k, name) \in Command
  BY QuestionTypes
<1>2. CASE Send(Ask(k, name))
  BY <1>1, <1>2, SendKeeps
<1>3. CASE UNCHANGED commands /\ (Knows(k, name) \/ ~connected)
  BY <1>3 DEF Contains
<1> QED  BY <1>2, <1>3 DEF RequestUnlessKnown

\* The questions go out in their order: as long as one is left, the topology is.
LEMMA QuestionsStep ==
  ASSUME TypeOK, ListsOK, ControlOK, AskFirst, open, NEW x
  PROVE  /\ Contains(todo, x) \/ Contains(commands, x) => Contains(todo, x)' \/ Contains(commands, x)'
         /\ Contains(commands, x) => Contains(commands, x)'
         /\ Due => Due'
<1>0. todo \in Seq(Command) /\ Len(todo) \in Nat /\ connected
  BY LenProperties DEF TypeOK, ListsOK
<1>1. CASE todo = <<>>
  <2>1. UNCHANGED <<todo, commands>>
    BY <1>1 DEF AskFirst
  <2> QED  BY <2>1 DEF Contains, Due
<1>2. CASE todo # <<>>
  <2>1. Send(Head(todo)) /\ todo' = Tail(todo)
    BY <1>0, <1>2 DEF AskFirst
  <2>2. /\ Head(todo) \in Command /\ Head(todo) = todo[1]
        /\ Tail(todo) \in Seq(Command) /\ Len(Tail(todo)) = Len(todo) - 1
    BY <1>0, <1>2, HeadTailProperties
  <2> PICK c \in Command : c = Head(todo)
    BY <2>2
  <2>3. /\ Contains(commands, c)'
        /\ Contains(commands, x) => Contains(commands, x)'
    <3>1. Send(c)
      BY <2>1
    <3> QED  BY <3>1, SendKeeps
  <2>4. Contains(todo, x) => c = x \/ Contains(todo, x)'
    <3>1. Contains(todo, x) <=> Head(todo) = x \/ Contains(Tail(todo), x)
      BY <1>0, <1>2, HeadTailItems
    <3>2. Contains(todo', x) <=> Contains(Tail(todo), x)
      BY <2>1
    <3> QED  BY <3>1, <3>2
  <2>5. Contains(todo, x) \/ Contains(commands, x) => Contains(todo, x)' \/ Contains(commands, x)'
    <3>1. c = x => Contains(commands, x)'
      BY <2>3
    <3> QED  BY <2>3, <2>4, <3>1
  <2>6. Due'
    <3>1. CASE Tail(todo) # <<>>
      BY <2>1, <3>1 DEF Due
    <3>2. CASE Tail(todo) = <<>>
      <4>1. Len(todo) = 1
        BY <1>0, <2>2, <3>2
      <4>2. c = TopologyRequest
        BY <1>2, <2>2, <4>1 DEF ListsOK
      <4> QED  BY <2>3, <4>2 DEF Due
    <3> QED  BY <3>1, <3>2
  <2> QED  BY <2>3, <2>5, <2>6
<1> QED  BY <1>1, <1>2

\* Nobody reads, and nothing is open, while a reader thread is on its way out, but
\* for the next connection.
LEMMA OpenIsRead ==
  ASSUME ControlOK, ListsOK, open, gui # "join"
  PROVE  connected /\ gui \in {"idle", "ask", "label"} /\ Running /\ reader \in Processing
BY DEF ControlOK, ListsOK, GuiSteps, Running

LEMMA PipelineStep ==
  ControlOK /\ TypeOK /\ ListsOK /\ ModelsOK /\ PipelineOK /\ [Next]_vars => PipelineOK'
<1> SUFFICES ASSUME ControlOK, TypeOK, ListsOK, ModelsOK, PipelineOK, [Next]_vars, open'
             PROVE  PipelineOK'
  BY DEF PipelineOK
<1>0. frames \in Seq(Frame) /\ commands \in Seq(Command) /\ pipeline \subseteq Elements
  BY Zenon DEF TypeOK
<1>1. CASE Connect
  <2>1. frames' = <<>> /\ gui' = "join"
    BY <1>1 DEF Connect
  <2>2. Len(frames') = 0
    BY <2>1
  <2>3. \A e : ~Shown(e)'
    BY <2>1, <2>2 DEF Shown, LastIs
  <2> QED  BY <2>1, <2>3 DEF PipelineOK
<1>2. CASE StartReader
  <2>1. gui = "join" /\ gui' = "ask" /\ Names' = {} /\ frames' = frames /\ pipeline' = pipeline /\ open
    BY <1>2 DEF StartReader, ModelsOK, Names, modelVars, serverVars, wires
  <2>2. Due'
    BY <1>2, FirstQuestionsAre DEF StartReader, Due
  <2>3. \A e : Shown(e)' <=> Shown(e)
    BY <2>1 DEF Shown
  <2> QED  BY <2>1, <2>2, <2>3 DEF PipelineOK
<1>3. CASE AskFirst
  <2>1. /\ gui = "ask" /\ gui' # "join" /\ open
        /\ UNCHANGED <<mirror, frames, pipeline>>
    BY <1>3 DEF AskFirst, modelVars, serverVars
  <2>2. Due => Due'
    BY <1>3, <2>1, QuestionsStep
  <2>3. Names' = Names
    BY <2>1 DEF Names
  <2>4. \A e : Shown(e)' <=> Shown(e)
    BY <2>1, <2>3 DEF Shown
  <2> QED  BY <2>1, <2>2, <2>4 DEF PipelineOK
<1>4. CASE LabelConnected
  <2>1. gui = "label" /\ gui' = "idle" /\ UNCHANGED <<mirror, frames, pipeline, open, todo, commands>>
    BY <1>4 DEF LabelConnected, modelVars, serverVars, wires
  <2>2. Names' = Names
    BY <2>1 DEF Names
  <2>3. (Due' <=> Due) /\ \A e : Shown(e)' <=> Shown(e)
    BY <2>1, <2>2 DEF Shown, Due
  <2> QED  BY <2>1, <2>3 DEF PipelineOK
<1>5. CASE Disconnect
  BY <1>5 DEF Disconnect
<1>6. CASE JoinReader
  BY <1>6 DEF JoinReader, ControlOK, ListsOK
<1>7. CASE ProcessFrame
  <2>1. gui # "join"
    BY <1>7 DEF ProcessFrame, ControlOK, Processing
  <2>2. \A e : Shown(e)' <=> Shown(e)
    BY <1>7, <2>1, ShownProcessed
  <2>3. UNCHANGED <<open, pipeline, gui, todo, commands>>
    BY <1>7 DEF ProcessFrame, guiVars, serverVars
  <2>4. Due' <=> Due
    BY <2>3 DEF Due
  <2> QED  BY <2>2, <2>3, <2>4 DEF PipelineOK
<1>8. ASSUME NEW k \in Kinds, NEW name \in Described, NEW after, RequestUnlessKnown(k, name, after),
             UNCHANGED <<guiVars, modelVars, open, serverVars, frames>>
      PROVE  PipelineOK'
  <2>1. Contains(commands, TopologyRequest) => Contains(commands, TopologyRequest)'
    <3> PICK t : t = TopologyRequest
      OBVIOUS
    <3>1. Contains(commands, t) => Contains(commands, t)'
      BY <1>8, RequestKeeps
    <3> QED  BY <3>1 DEF TopologyRequest, Ask
  <2> QED  BY <1>8, <2>1, SamePipeline DEF guiVars, modelVars, serverVars
<1>9. CASE RequestFactory
  <2> PICK e \in Elements : e = added
    BY <1>9 DEF RequestFactory, TypeOK
  <2>1. FactoryOf(e) \in Described /\ "factory" \in Kinds
    BY QuestionTypes DEF Kinds
  <2>2. RequestUnlessKnown("factory", FactoryOf(e), "klass")
    BY <1>9 DEF RequestFactory
  <2> QED  BY <1>8, <1>9, <2>1, <2>2 DEF RequestFactory
<1>10. CASE RequestKlass
  <2> PICK e \in Elements : e = added
    BY <1>10 DEF RequestKlass, TypeOK
  <2>1. e \in Described /\ "klass" \in Kinds
    BY QuestionTypes DEF Kinds
  <2>2. RequestUnlessKnown("klass", e, "loop")
    BY <1>10 DEF RequestKlass
  <2> QED  BY <1>8, <1>10, <2>1, <2>2 DEF RequestKlass
<1>11. CASE Leave \/ LabelDisconnected
  <2>1. UNCHANGED <<open, pipeline, gui, frames, mirror, todo, commands>>
    BY <1>11 DEF Leave, LabelDisconnected, guiVars, modelVars, serverVars, wires
  <2>2. Contains(commands, TopologyRequest) => Contains(commands, TopologyRequest)'
    BY <2>1 DEF Contains, TopologyRequest, Ask
  <2> QED  BY <2>1, <2>2, SamePipeline
<1>12. CASE ClientDisconnected
  <2>1. UNCHANGED <<open, pipeline, gui, frames, todo, commands>> /\ reader = "clean"
    BY <1>12 DEF ClientDisconnected, guiVars, serverVars, wires
  <2>2. gui = "join"
    BY <2>1, OpenIsRead DEF Processing
  <2>3. \A e : Shown(e)' <=> Shown(e)
    BY <2>1, <2>2 DEF Shown
  <2> QED  BY <2>1, <2>2, <2>3 DEF PipelineOK
<1>13. CASE Serve
  <2>1. UNCHANGED <<gui, todo, mirror, pipeline>>
    BY <1>13 DEF Serve, guiVars, modelVars
  <2>2. /\ commands # <<>> /\ Head(commands) \in Command /\ Tail(commands) \in Seq(Command) /\ open
        /\ commands' = Tail(commands)
        /\ \/ \E k \in Kinds, name \in Described :
                Head(commands) = Ask(k, name) /\ frames' = frames \o <<Ask(k, name)>>
           \/ frames' = frames \o TopologyAnswer
    BY <1>13, ServeDoes
  <2>3. CASE \E k \in Kinds, name \in Described :
                Head(commands) = Ask(k, name) /\ frames' = frames \o <<Ask(k, name)>>
    <3>1. PICK k \in Kinds, name \in Described :
                Head(commands) = Ask(k, name) /\ frames' = frames \o <<Ask(k, name)>>
      BY <2>3
    <3>2. Contains(commands, TopologyRequest) <=> Contains(Tail(commands), TopologyRequest)
      <4>1. Contains(commands, TopologyRequest)
              <=> Head(commands) = TopologyRequest \/ Contains(Tail(commands), TopologyRequest)
        BY <1>0, <2>2, HeadTailItems
      <4> QED  BY <3>1, <4>1, FramesDiffer
    <3>3. Due' <=> Due
      BY <2>1, <2>2, <3>2 DEF Due, TopologyRequest, Ask
    <3>4. ASSUME NEW e PROVE Shown(e)' <=> Shown(e)
      <4> DEFINE sent == <<Ask(k, name)>>
      <4>1. sent \in Seq(Frame)
        BY QuestionTypes
      <4>2. ~LastIs(sent, Ask("add", e), Ask("remove", e)) /\ ~Contains(sent, Ask("remove", e))
        BY SingleItem, FramesDiffer
      <4> HIDE DEF sent
      <4>3. frames' = frames \o sent
        BY <3>1 DEF sent
      <4>4. Shown(e)' <=> \/ LastIs(sent, Ask("add", e), Ask("remove", e))
                          \/ Shown(e) /\ ~Contains(sent, Ask("remove", e))
        BY <1>0, <2>1, <4>1, <4>3, ShownAfter
      <4> QED  BY <4>2, <4>4
    <3> QED  BY <2>1, <2>2, <3>3, <3>4 DEF PipelineOK
  <2>4. CASE frames' = frames \o TopologyAnswer
    <3> PICK answer : answer = TopologyAnswer
      OBVIOUS
    <3>1. /\ answer \in Seq(Frame)
          /\ \A i \in 1..Len(answer) : \E e \in pipeline : answer[i] = Ask("add", e)
          /\ \A e \in pipeline : Contains(answer, Ask("add", e))
      BY <1>0, TopologyAnswerIs
    <3>2. ASSUME NEW e \in Elements PROVE Shown(e)' <=> e \in pipeline
      <4>1. ~Contains(answer, Ask("remove", e))
        BY <3>1, FramesDiffer DEF Contains
      <4>2. LastIs(answer, Ask("add", e), Ask("remove", e)) <=> e \in pipeline
        <5>1. Contains(answer, Ask("add", e)) => e \in pipeline
          <6> SUFFICES ASSUME NEW i \in 1..Len(answer), answer[i] = Ask("add", e) PROVE e \in pipeline
            BY DEF Contains
          <6>1. PICK d \in pipeline : answer[i] = Ask("add", d)
            BY <3>1
          <6> QED  BY <6>1, FramesDiffer
        <5>2. e \in pipeline => Contains(answer, Ask("add", e))
          BY <3>1
        <5> QED  BY <4>1, <5>1, <5>2 DEF Contains, LastIs
      <4>3. Shown(e)' <=> \/ LastIs(answer, Ask("add", e), Ask("remove", e))
                          \/ Shown(e) /\ ~Contains(answer, Ask("remove", e))
        BY <1>0, <2>1, <2>4, <3>1, ShownAfter
      <4>4. Shown(e) => e \in pipeline
        BY <2>2 DEF PipelineOK
      <4> QED  BY <4>1, <4>2, <4>3, <4>4
    <3> QED  BY <2>1, <3>2 DEF PipelineOK
  <2> QED  BY <2>2, <2>3, <2>4
<1>14. CASE Change
  <2>1. PICK d \in Elements :
          /\ pipeline' = (IF d \in pipeline THEN pipeline \ {d} ELSE pipeline \cup {d})
          /\ frames' = IF open THEN Append(frames, Ask(IF d \in pipeline THEN "remove" ELSE "add", d)) ELSE frames
    BY <1>14 DEF Change
  <2>2. UNCHANGED <<open, gui, todo, mirror, commands>> /\ open
    BY <1>14 DEF Change, guiVars, modelVars
  <2>3. PICK f : f = Ask(IF d \in pipeline THEN "remove" ELSE "add", d)
    OBVIOUS
  <2>4. f \in Frame /\ <<f>> \in Seq(Frame)
    BY <2>3, QuestionTypes
  <2>5. frames' = frames \o <<f>>
    BY <1>0, <2>1, <2>2, <2>3, <2>4, AppendIsConcat
  <2>6. ASSUME NEW e PROVE Shown(e)' <=> f = Ask("add", e) \/ (Shown(e) /\ f # Ask("remove", e))
    <3>1. Shown(e)' <=> \/ LastIs(<<f>>, Ask("add", e), Ask("remove", e))
                        \/ Shown(e) /\ ~Contains(<<f>>, Ask("remove", e))
      BY <1>0, <2>2, <2>4, <2>5, ShownAfter
    <3>2. /\ LastIs(<<f>>, Ask("add", e), Ask("remove", e)) <=> f = Ask("add", e)
          /\ Contains(<<f>>, Ask("remove", e)) <=> f = Ask("remove", e)
      BY SingleItem
    <3> QED  BY <3>1, <3>2
  <2>7. Due' <=> Due
    BY <2>2 DEF Due
  <2>8. CASE d \in pipeline
    <3>1. /\ pipeline' = pipeline \ {d}
          /\ \A e : Shown(e)' <=> Shown(e) /\ e # d
      BY <2>1, <2>3, <2>6, <2>8, FramesDiffer
    <3> QED  BY <2>2, <2>7, <3>1 DEF PipelineOK
  <2>9. CASE d \notin pipeline
    <3>1. /\ pipeline' = pipeline \cup {d}
          /\ \A e : Shown(e)' <=> Shown(e) \/ e = d
      BY <2>1, <2>3, <2>6, <2>9, FramesDiffer
    <3> QED  BY <2>2, <2>7, <3>1 DEF PipelineOK
  <2> QED  BY <2>8, <2>9
<1>15. CASE ConnectionEnds
  BY <1>15 DEF ConnectionEnds
<1>16. CASE UNCHANGED vars
  <2>1. UNCHANGED <<open, pipeline, gui, frames, mirror, todo, commands>>
    BY <1>16 DEF vars, guiVars, modelVars, serverVars, wires
  <2>2. Contains(commands, TopologyRequest) => Contains(commands, TopologyRequest)'
    BY <2>1 DEF Contains, TopologyRequest, Ask
  <2> QED  BY <2>1, <2>2, SamePipeline
<1> QED
  BY <1>1, <1>2, <1>3, <1>4, <1>5, <1>6, <1>7, <1>9, <1>10, <1>11, <1>12, <1>13, <1>14, <1>15, <1>16
  DEF Next, Gui, Reader

-----------------------------------------------------------------------------
\* The types.  A description is known, or its name is under way in one of the
\* two directions, or still to be sent by a thread that has not come to it.
Asked(k, name) == Knows(k, name) \/ Contains(commands, Ask(k, name)) \/ Contains(frames, Ask(k, name))

KnownOK == open /\ gui # "join" =>
  /\ \A e \in Names :
       /\ Asked("klass", e) \/ (reader \in {"factory", "klass"} /\ added = e)
       /\ Asked("factory", FactoryOf(e)) \/ (reader = "factory" /\ added = e)
  /\ \A i \in DOMAIN Enums : Asked("enum", Enums[i]) \/ Contains(todo, Ask("enum", Enums[i]))

LEMMA KnownInit == Init => KnownOK
BY DEF Init, KnownOK

\* Steps that lose no question and no description.
LEMMA SameKnown ==
  ASSUME KnownOK, open' => open, gui' # "join" => gui # "join",
         UNCHANGED <<reader, added, mirror, todo>>,
         \A k \in Kinds : \A name : Asked(k, name) => Asked(k, name)'
  PROVE  KnownOK'
<1>1. Names' = Names
  BY DEF Names
<1>2. \A x : Contains(todo, x) => Contains(todo, x)'
  BY DEF Contains
<1>3. ASSUME open', gui' # "join", NEW e \in Names
      PROVE  /\ Asked("klass", e)' \/ (reader' \in {"factory", "klass"} /\ added' = e)
             /\ Asked("factory", FactoryOf(e))' \/ (reader' = "factory" /\ added' = e)
  BY <1>3 DEF KnownOK, Kinds
<1>4. ASSUME open', gui' # "join", NEW i \in DOMAIN Enums
      PROVE  Asked("enum", Enums[i])' \/ Contains(todo, Ask("enum", Enums[i]))'
  BY <1>2, <1>4 DEF KnownOK, Kinds
<1> QED  BY <1>1, <1>3, <1>4 DEF KnownOK

\* What is asked for stays so, except that a server may crash instead.
LEMMA ServeKeepsAsked ==
  ASSUME TypeOK, Serve, open', NEW k \in Kinds, NEW name, Asked(k, name)
  PROVE  Asked(k, name)'
<1> PICK x : x = Ask(k, name)
  OBVIOUS
<1>0. frames \in Seq(Frame) /\ commands \in Seq(Command)
  BY Zenon DEF TypeOK
<1>1. /\ commands # <<>> /\ Head(commands) \in Command /\ commands' = Tail(commands)
      /\ \/ \E j \in Kinds, n \in Described :
              Head(commands) = Ask(j, n) /\ frames' = frames \o <<Ask(j, n)>>
         \/ Head(commands).what = "topology" /\ frames' = frames \o TopologyAnswer
  BY ServeDoes
<1>2. Contains(commands, x) <=> Head(commands) = x \/ Contains(commands', x)
  <2>1. Contains(commands, x) <=> Head(commands) = x \/ Contains(Tail(commands), x)
    BY <1>0, <1>1, HeadTailItems
  <2> QED  BY <1>1, <2>1
<1>3. PICK sent \in Seq(Frame) : frames' = frames \o sent /\ (Head(commands) = x => Contains(sent, x))
  <2>1. CASE \E j \in Kinds, n \in Described :
               Head(commands) = Ask(j, n) /\ frames' = frames \o <<Ask(j, n)>>
    <3>1. PICK j \in Kinds, n \in Described :
               Head(commands) = Ask(j, n) /\ frames' = frames \o <<Ask(j, n)>>
      BY <2>1
    <3>2. <<Ask(j, n)>> \in Seq(Frame)
      BY QuestionTypes
    <3>3. Head(commands) = x => Contains(<<Ask(j, n)>>, x)
      BY <3>1, SingleItem
    <3> QED  BY <3>1, <3>2, <3>3
  <2>2. CASE Head(commands).what = "topology" /\ frames' = frames \o TopologyAnswer
    <3>1. TopologyAnswer \in Seq(Frame)
      BY TopologyAnswerIs DEF TypeOK
    <3>2. Head(commands) # x
      BY <2>2 DEF Ask, Kinds
    <3> QED  BY <2>2, <3>1, <3>2
  <2> QED  BY <1>1, <2>1, <2>2
<1>4. Contains(frames', x) <=> Contains(frames, x) \/ Contains(sent, x)
  <2>1. Contains(frames \o sent, x) <=> Contains(frames, x) \/ Contains(sent, x)
    BY <1>0, ContainsConcat
  <2> QED  BY <1>3, <2>1
<1>5. Knows(k, name)' <=> Knows(k, name)
  BY DEF Serve, modelVars, Knows
<1> QED  BY <1>2, <1>3, <1>4, <1>5, Zenon DEF Asked

\* A frame that describes a type makes it known.
LEMMA ProcessKeepsAsked ==
  ASSUME TypeOK, ProcessFrame, NEW k \in Kinds, NEW name, Asked(k, name)
  PROVE  Asked(k, name)'
<1> PICK x : x = Ask(k, name)
  OBVIOUS
<1> DEFINE f == Head(frames)
<1>1. frames \in Seq(Frame) /\ frames # <<>> /\ frames' = Tail(frames) /\ commands' = commands
  BY DEF ProcessFrame, TypeOK
<1>2. Contains(frames, x) <=> f = x \/ Contains(frames', x)
  <2>1. Contains(frames, x) <=> Head(frames) = x \/ Contains(Tail(frames), x)
    BY <1>1, HeadTailItems
  <2> QED  BY <1>1, <2>1
<1>3. Contains(commands', x) <=> Contains(commands, x)
  BY <1>1
<1>4. f = x => f.what = k /\ f.name = name
  BY DEF Ask
<1>5. \/ f.what \in Kinds /\ Learn(f.what, f.name)
      \/ f.what \in {"add", "remove"} /\ known' = known
  BY DEF ProcessFrame
<1>6. (Knows(k, name) => Knows(k, name)') /\ (f = x => Knows(k, name)')
  <2>1. CASE f.what \in Kinds /\ Learn(f.what, f.name)
    <3>4. PICK j \in Kinds : j = f.what
      BY <2>1
    <3>5. PICK n : n = f.name
      OBVIOUS
    <3>1. Learn(j, n)
      BY <2>1, <3>4, <3>5
    <3>2. Knows(k, name)' <=> Knows(k, name) \/ (k = j /\ name = n)
      BY <3>1, LearnProperties
    <3> QED  BY <1>4, <3>2, <3>4, <3>5
  <2>2. CASE f.what \in {"add", "remove"} /\ known' = known
    <3>1. f # x
      BY <1>4, <2>2 DEF Kinds
    <3> QED  BY <2>2, <3>1 DEF Knows
  <2> QED  BY <1>5, <2>1, <2>2
<1> QED  BY <1>2, <1>3, <1>6, Zenon DEF Asked

LEMMA SentKeepsAsked ==
  ASSUME UNCHANGED <<known, frames>>, NEW k, NEW name, Asked(k, name),
         Contains(commands, Ask(k, name)) => Contains(commands, Ask(k, name))'
  PROVE  Asked(k, name)'
BY DEF Asked, Knows

LEMMA KnownStep ==
  ControlOK /\ TypeOK /\ ListsOK /\ ModelsOK /\ KnownOK /\ [Next]_vars => KnownOK'
<1> SUFFICES ASSUME ControlOK, TypeOK, ListsOK, ModelsOK, KnownOK, [Next]_vars, open', gui' # "join"
             PROVE  KnownOK'
  BY DEF KnownOK
<1>0. frames \in Seq(Frame) /\ commands \in Seq(Command)
  BY Zenon DEF TypeOK
<1>1. CASE Connect
  BY <1>1 DEF Connect
<1>2. CASE StartReader
  <2>1. Names' = {} /\ todo' = FirstQuestions
    BY <1>2 DEF StartReader, ModelsOK, Names, modelVars
  <2>2. \A i \in DOMAIN Enums : Contains(todo, Ask("enum", Enums[i]))'
    BY <2>1, FirstQuestionsAre
  <2> QED  BY <2>1, <2>2 DEF KnownOK
<1>3. CASE AskFirst
  <2>1. /\ open /\ gui # "join"
        /\ UNCHANGED <<mirror, known, frames, reader, added>>
    BY <1>3 DEF AskFirst, modelVars, readerVars
  <2>2. \A x : /\ Contains(commands, x) => Contains(commands, x)'
               /\ Contains(todo, x) \/ Contains(commands, x) => Contains(todo, x)' \/ Contains(commands, x)'
    BY <1>3, <2>1, QuestionsStep
  <2>3. \A k \in Kinds : \A name : Asked(k, name) => Asked(k, name)'
    BY <2>1, <2>2, SentKeepsAsked
  <2>4. Names' = Names
    BY <2>1 DEF Names
  <2>5. ASSUME NEW e \in Names
        PROVE  /\ Asked("klass", e)' \/ (reader' \in {"factory", "klass"} /\ added' = e)
               /\ Asked("factory", FactoryOf(e))' \/ (reader' = "factory" /\ added' = e)
    BY <2>1, <2>3 DEF KnownOK, Kinds
  <2>6. ASSUME NEW i \in DOMAIN Enums
        PROVE  Asked("enum", Enums[i])' \/ Contains(todo, Ask("enum", Enums[i]))'
    <3>1. Asked("enum", Enums[i]) \/ Contains(todo, Ask("enum", Enums[i]))
      BY <2>1 DEF KnownOK
    <3>2. Contains(todo, Ask("enum", Enums[i])) =>
            Contains(todo, Ask("enum", Enums[i]))' \/ Contains(commands, Ask("enum", Enums[i]))'
      BY <2>2
    <3> QED  BY <2>3, <3>1, <3>2 DEF Asked, Kinds
  <2> QED  BY <2>4, <2>5, <2>6 DEF KnownOK
<1>4. CASE LabelConnected
  <2>1. UNCHANGED <<open, reader, added, mirror, known, todo, frames, commands>> /\ gui = "label"
    BY <1>4 DEF LabelConnected, readerVars, modelVars, wires
  <2>2. \A k \in Kinds : \A name : Asked(k, name) => Asked(k, name)'
    BY <2>1 DEF Asked, Knows, Contains, Ask
  <2> QED  BY <2>1, <2>2, SameKnown
<1>5. CASE Disconnect
  BY <1>5 DEF Disconnect
<1>6. CASE JoinReader
  BY <1>6 DEF JoinReader, ControlOK, ListsOK
<1>7. CASE ProcessFrame
  <2> DEFINE f == Head(frames)
  <2>1. open /\ gui # "join" /\ reader = "loop" /\ todo' = todo
    BY <1>7 DEF ProcessFrame, guiVars
  <2>2. \A k \in Kinds : \A name : Asked(k, name) => Asked(k, name)'
    BY <1>7, ProcessKeepsAsked
  <2>3. \A e \in Names : Asked("klass", e) /\ Asked("factory", FactoryOf(e))
    BY <2>1 DEF KnownOK
  <2>4. \A e \in Names' : e \in Names \/ (reader' = "factory" /\ added' = e)
    <3> DEFINE it == [name |-> f.name, of |-> session]
    <3>0. it.name = f.name
      OBVIOUS
    <3>1. \/ mirror' = mirror
          \/ reader' = "factory" /\ added' = f.name /\ mirror' \subseteq mirror \cup {it}
      BY <1>7 DEF ProcessFrame
    <3> HIDE DEF it, f
    <3> QED  BY <3>0, <3>1 DEF Names
  <2>5. \A e \in Names : Asked("klass", e)' /\ Asked("factory", FactoryOf(e))'
    BY <2>2, <2>3 DEF Kinds
  <2>6. ASSUME NEW i \in DOMAIN Enums
        PROVE  Asked("enum", Enums[i])' \/ Contains(todo, Ask("enum", Enums[i]))'
    BY <2>1, <2>2 DEF KnownOK, Kinds, Contains
  <2> QED  BY <2>4, <2>5, <2>6 DEF KnownOK
<1>8. ASSUME NEW k \in Kinds, NEW name \in Described, NEW after, RequestUnlessKnown(k, name, after),
             UNCHANGED <<guiVars, added, modelVars, open, frames>>
      PROVE  /\ open /\ connected /\ gui # "join" /\ reader' = after
             /\ UNCHANGED <<mirror, todo, added>>
             /\ Asked(k, name)'
             /\ \A j \in Kinds : \A n : Asked(j, n) => Asked(j, n)'
  <2>1. open /\ gui # "join" /\ UNCHANGED <<mirror, known, todo, added, frames>>
    BY <1>8 DEF guiVars, modelVars
  <2>2. connected /\ reader' = after
    BY <1>8, <2>1 DEF ListsOK, RequestUnlessKnown
  <2>3. /\ \A x : Contains(commands, x) => Contains(commands, x)'
        /\ Knows(k, name) \/ Contains(commands, Ask(k, name))'
    BY <1>8, <2>1, <2>2, RequestKeeps
  <2>4. \A j \in Kinds : \A n : Asked(j, n) => Asked(j, n)'
    BY <2>1, <2>3, SentKeepsAsked
  <2>5. Asked(k, name)'
    BY <2>1, <2>3 DEF Asked, Knows
  <2> QED  BY <2>1, <2>2, <2>4, <2>5
<1>9. CASE RequestFactory
  <2> PICK d \in Elements : d = added
    BY <1>9 DEF RequestFactory, TypeOK
  <2>1. FactoryOf(d) \in Described /\ "factory" \in Kinds
    BY QuestionTypes DEF Kinds
  <2>2. RequestUnlessKnown("factory", FactoryOf(d), "klass") /\ reader = "factory"
        /\ UNCHANGED <<guiVars, added, modelVars, open, frames>>
    BY <1>9 DEF RequestFactory
  <2>3. /\ open /\ gui # "join" /\ reader' = "klass"
        /\ UNCHANGED <<mirror, todo, added>>
        /\ Asked("factory", FactoryOf(d))'
        /\ \A j \in Kinds : \A n : Asked(j, n) => Asked(j, n)'
    BY <1>8, <2>1, <2>2
  <2>4. ASSUME NEW e \in Names
        PROVE  /\ Asked("klass", e)' \/ (reader' \in {"factory", "klass"} /\ added' = e)
               /\ Asked("factory", FactoryOf(e))' \/ (reader' = "factory" /\ added' = e)
    <3>1. /\ Asked("klass", e) \/ added = e
          /\ Asked("factory", FactoryOf(e)) \/ added = e
      BY <2>3 DEF KnownOK
    <3> QED  BY <2>3, <3>1 DEF Kinds
  <2>5. ASSUME NEW i \in DOMAIN Enums
        PROVE  Asked("enum", Enums[i])' \/ Contains(todo, Ask("enum", Enums[i]))'
    BY <2>3 DEF KnownOK, Kinds, Contains
  <2>6. Names' = Names
    BY <2>3 DEF Names
  <2> QED  BY <2>4, <2>5, <2>6 DEF KnownOK
<1>10. CASE RequestKlass
  <2> PICK d \in Elements : d = added
    BY <1>10 DEF RequestKlass, TypeOK
  <2>1. d \in Described /\ "klass" \in Kinds
    BY QuestionTypes DEF Kinds
  <2>2. RequestUnlessKnown("klass", d, "loop") /\ reader = "klass"
        /\ UNCHANGED <<guiVars, added, modelVars, open, frames>>
    BY <1>10 DEF RequestKlass
  <2>3. /\ open /\ gui # "join" /\ UNCHANGED <<mirror, todo, added>>
        /\ Asked("klass", d)'
        /\ \A j \in Kinds : \A n : Asked(j, n) => Asked(j, n)'
    BY <1>8, <2>1, <2>2
  <2>4. ASSUME NEW e \in Names PROVE Asked("klass", e)' /\ Asked("factory", FactoryOf(e))'
    <3>1. (Asked("klass", e) \/ added = e) /\ Asked("factory", FactoryOf(e))
      BY <2>2, <2>3 DEF KnownOK
    <3> QED  BY <2>3, <3>1 DEF Kinds
  <2>5. ASSUME NEW i \in DOMAIN Enums
        PROVE  Asked("enum", Enums[i])' \/ Contains(todo, Ask("enum", Enums[i]))'
    BY <2>3 DEF KnownOK, Kinds, Contains
  <2>6. Names' = Names
    BY <2>3 DEF Names
  <2> QED  BY <2>4, <2>5, <2>6 DEF KnownOK
<1>11. CASE Leave
  BY <1>11 DEF Leave, ListsOK
<1>12. CASE ClientDisconnected \/ LabelDisconnected
  <2>1. open /\ gui # "join" /\ reader \notin Processing
    BY <1>12 DEF ClientDisconnected, LabelDisconnected, Processing, guiVars
  <2> QED  BY <2>1, OpenIsRead
<1>13. CASE Serve
  <2>1. open /\ UNCHANGED <<gui, reader, added, mirror, todo>>
    BY <1>13, ServeDoes DEF Serve, guiVars, readerVars, modelVars
  <2>2. \A k \in Kinds : \A name : Asked(k, name) => Asked(k, name)'
    BY <1>13, ServeKeepsAsked
  <2> QED  BY <2>1, <2>2, SameKnown
<1>14. CASE Change
  <2>1. open /\ UNCHANGED <<gui, reader, added, mirror, known, todo, commands>>
    BY <1>14 DEF Change, guiVars, readerVars, modelVars
  <2>2. \E e \in Elements :
           frames' = Append(frames, Ask(IF e \in pipeline THEN "remove" ELSE "add", e))
    BY <1>14, <2>1 DEF Change
  <2>3. PICK f \in Frame : frames' = Append(frames, f)
    BY <2>2, QuestionTypes
  <2>4. \A x : Contains(frames, x) => Contains(frames, x)'
    <3> SUFFICES ASSUME NEW x, Contains(frames, x) PROVE Contains(frames', x)
      OBVIOUS
    <3>1. Contains(Append(frames, f), x) <=> Contains(frames, x) \/ f = x
      BY <1>0, AppendItems
    <3> QED  BY <2>3, <3>1
  <2>5. \A k \in Kinds : \A name : Asked(k, name) => Asked(k, name)'
    <3> SUFFICES ASSUME NEW k \in Kinds, NEW name, Asked(k, name) PROVE Asked(k, name)'
      OBVIOUS
    <3> PICK x : x = Ask(k, name)
      OBVIOUS
    <3>1. /\ Contains(frames, x) => Contains(frames, x)'
          /\ Contains(commands, x) => Contains(commands, x)'
          /\ Knows(k, name) => Knows(k, name)'
      BY <2>1, <2>4 DEF Knows, Contains
    <3> QED  BY <3>1, Zenon DEF Asked
  <2> QED  BY <2>1, <2>5, SameKnown
<1>15. CASE ConnectionEnds
  BY <1>15 DEF ConnectionEnds
<1>16. CASE UNCHANGED vars
  <2>1. UNCHANGED <<open, gui, reader, added, mirror, known, todo, frames, commands>>
    BY <1>16 DEF vars, guiVars, readerVars, modelVars, wires
  <2>2. \A k \in Kinds : \A name : Asked(k, name) => Asked(k, name)'
    BY <2>1 DEF Asked, Knows, Contains, Ask
  <2> QED  BY <2>1, <2>2, SameKnown
<1> QED
  BY <1>1, <1>2, <1>3, <1>4, <1>5, <1>6, <1>7, <1>9, <1>10, <1>11, <1>12, <1>13, <1>14, <1>15, <1>16
  DEF Next, Gui, Reader

-----------------------------------------------------------------------------
\* At rest nothing is under way in either direction, and what will be shown is.
LEMMA RestIsInSync ==
  ASSUME ControlOK, TypeOK, ListsOK, LabelOK, OnceOK, PipelineOK, KnownOK
  PROVE  InSync
<1> SUFFICES ASSUME Settled PROVE
      /\ label = connected \/ (label /\ early)
      /\ connected =>
           /\ Names = pipeline
           /\ \A e \in pipeline : KnownOnce("factory", FactoryOf(e)) /\ KnownOnce("klass", e)
           /\ \A i \in DOMAIN Enums : KnownOnce("enum", Enums[i])
  BY Zenon DEF InSync, Names
<1>0. gui = "idle" /\ label \in BOOLEAN /\ connected \in BOOLEAN
  BY Zenon DEF Settled, TypeOK
<1>1. label = connected \/ (label /\ early)
  BY <1>0 DEF Settled, ReaderDone, LabelOK, ControlOK, Processing, Running
<1>2. ASSUME connected
      PROVE  /\ Names = pipeline
             /\ \A e \in pipeline : KnownOnce("factory", FactoryOf(e)) /\ KnownOnce("klass", e)
             /\ \A i \in DOMAIN Enums : KnownOnce("enum", Enums[i])
  <2>1. reader = "loop" /\ open /\ commands = <<>> /\ frames = <<>> /\ todo = <<>>
    BY <1>0, <1>2 DEF Settled, ReaderDone, ControlOK, ListsOK, Processing, Running, wires
  <2>2. Len(commands) = 0 /\ Len(frames) = 0 /\ Len(todo) = 0
    BY <2>1
  <2>3. \A x, y : ~Contains(commands, x) /\ ~Contains(frames, x) /\ ~Contains(todo, x) /\ ~LastIs(frames, x, y)
    BY <2>2 DEF Contains, LastIs
  <2>4. ~Due /\ \A e : Shown(e) <=> e \in Names
    BY <1>0, <2>1, <2>3 DEF Due, Shown
  <2>5. Names \subseteq Elements /\ pipeline \subseteq Elements
    BY Zenon DEF ListsOK, TypeOK
  <2>6. Names = pipeline
    BY <1>0, <2>1, <2>4, <2>5 DEF PipelineOK
  <2>7. \A k \in Kinds : \A name : Asked(k, name) => KnownOnce(k, name)
    <3>1. \A k, name : Asked(k, name) => Knows(k, name)
      BY <2>3 DEF Asked
    <3>2. \A k \in Kinds : \A name : Knows(k, name) => KnownOnce(k, name)
      BY DEF OnceOK, Knows, KnownOnce
    <3> QED  BY <3>1, <3>2
  <2>8. \A e \in Names : Asked("klass", e) /\ Asked("factory", FactoryOf(e))
    BY <1>0, <2>1 DEF KnownOK
  <2>9. \A i \in DOMAIN Enums : Asked("enum", Enums[i])
    BY <1>0, <2>1, <2>3 DEF KnownOK
  <2> QED  BY <2>6, <2>7, <2>8, <2>9 DEF Kinds
<1> QED  BY <1>1, <1>2

\* Whatever the pipeline does while it is asked for its topology, however often
\* types are asked for and wherever connections break: when nothing is under way,
\* the debugger shows the pipeline as it is and knows what it has to know, once.
THEOREM RestsInSync == Spec => []InSync
<1> DEFINE IInv == TypeOK /\ ListsOK /\ LabelOK /\ OnceOK /\ ModelsOK /\ PipelineOK /\ KnownOK
<1>1. Init => IInv
  BY TypesInit, LabelInit, OnceInit, ModelsInit, PipelineInit, KnownInit
<1>2. ControlOK /\ IInv /\ [Next]_vars => IInv'
  BY TypesStep, LabelStep, OnceStep, ModelsStep, PipelineStep, KnownStep
<1>3. ControlOK /\ IInv => InSync
  BY RestIsInSync
<1> HIDE DEF IInv
<1> QED  BY <1>1, <1>2, <1>3, ControlAlways, PTL DEF Spec

=============================================================================
