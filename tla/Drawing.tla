------------------------------ MODULE Drawing ------------------------------
(***************************************************************************)
(* The drawing of the pipeline.  Rendering a graph runs a main loop inside *)
(* the handler that asked for it; whoever has a new model quits that loop  *)
(* and posts a wake-up, whose handler renders again, in the loop it finds  *)
(* itself in.  All the nested loops are one GMainLoop, with one flag.      *)
(*                                                                         *)
(*   reader thread  handles frames: changes the model under a lock, then   *)
(*                  quits the loop, pushes the model and posts a wake-up   *)
(*   GUI thread     handles wake-ups and the user, in the innermost loop   *)
(*   application    undoes links and removes elements                      *)
(*                                                                         *)
(* A loop looks at its flag between two iterations; in one iteration the   *)
(* user and one wake-up may both be handled.  The source of the wake-ups   *)
(* may be dispatched inside its own handler, or nothing that is posted     *)
(* would ever be handled while a graph is shown.                           *)
(***************************************************************************)
EXTENDS DotGraph

CONSTANTS
  MaxFrames,       \* bound: frames of a topology that are handled one by one
  MaxConnections,  \* bound: connections
  MaxActs          \* bound: changes of the pipeline and of what the user looks at

ASSUME DrawingBounds == /\ MaxFrames \in Nat \ {0} /\ MaxConnections \in Nat
                        /\ MaxActs \in Nat

VARIABLES
  exists, joined,  \* the pipeline
  frames,          \* on their way to the reader
  connected,
  mirrors,         \* mirrors[n]: the models of connection n
  current,         \* Controller::current_model: a bin and the connection it is of
  reader,          \* step of the reader thread
  item,            \* the model it is to push
  running,         \* the flag of graphviz_plugin_loop
  depth,           \* how many runs of it are nested
  queue, posted,   \* models pushed, wake-ups posted
  gui,             \* step of update_model_, "idle" outside of it
  taken,           \* the model it took
  page,            \* the graph it made, on screen while running, until it is freed
  again,           \* this iteration is to handle a wake-up yet
  closed,
  torn,            \* the models were changed while they were read
  undone,          \* history: links that were undone
  astray,          \* history: current_model changed behind what was last posted
  behind,          \* history: there was a model to draw when the window was closed, or after
  acts

pipelineVars == <<exists, joined>>
readerVars == <<frames, connected, mirrors, reader, item>>
loopVars == <<running, depth, queue, posted>>
guiVars == <<gui, taken, page, again>>
vars == <<pipelineVars, readerVars, loopVars, guiVars, current, closed, torn, undone, astray,
          behind, acts>>

Model == [bin : Bins, no : 0..MaxConnections]
RootModel == [bin |-> Root, no |-> 0]
NoModel == [bin |-> Root, no |-> -1]

TypeOK ==
  /\ exists \subseteq Elements /\ joined \subseteq Links
  /\ Len(mirrors) <= MaxConnections /\ connected \in BOOLEAN
  /\ current \in Model /\ (current.bin = Root <=> current.no = 0)
  /\ reader \in {"idle", "quit", "push", "emit"}
  /\ item \in Model \cup {NoModel} /\ (item = NoModel <=> reader \in {"idle", "emit"})
  /\ running \in BOOLEAN /\ depth \in Nat /\ (running => depth > 0)
  /\ queue \in Seq(Model) /\ posted \in Nat
  /\ gui \in {"idle", "called", "converting", "drawing"}
  /\ taken \in Model \cup {NoModel} /\ (taken # NoModel <=> gui = "converting")
  /\ page.clusters \subseteq Elements /\ page.nodes \subseteq Pads
  /\ again \in BOOLEAN /\ closed \in BOOLEAN

Latest == mirrors[Len(mirrors)]
\* The root is the same in all connections.
MirrorOf(x) == IF mirrors = <<>> THEN NoMirror ELSE IF x.bin = Root THEN Latest ELSE mirrors[x.no]

\* The window appears: update_model_ is called once without a model.
Init ==
  /\ exists = Elements
  /\ joined \in {j \in SUBSET Links : \A p \in AllPads : Cardinality(Peers(j, p)) <= 1}
  /\ frames = <<>> /\ connected = FALSE /\ mirrors = <<>>
  /\ current = RootModel
  /\ reader = "idle" /\ item = NoModel
  /\ running = FALSE /\ depth = 0 /\ queue = <<>> /\ posted = 0
  /\ gui = "called" /\ taken = NoModel /\ page = BlankPage /\ again = FALSE
  /\ closed = FALSE /\ torn = FALSE
  /\ undone = {} /\ astray = FALSE /\ behind = FALSE
  /\ acts = 0

-----------------------------------------------------------------------------
\* Reader thread

\* Under the lock, which update_model_ holds while it converts.
ProcessFrame ==
  /\ ~torn /\ reader = "idle" /\ connected /\ frames # <<>>
  /\ gui # "converting"
  /\ mirrors' = [mirrors EXCEPT ![Len(mirrors)] = Process(@, Head(frames))]
  /\ frames' = Tail(frames)
  /\ reader' = "quit" /\ item' = current /\ astray' = FALSE
  /\ behind' = (behind \/ closed)
  /\ UNCHANGED <<pipelineVars, connected, loopVars, guiVars, current, closed, torn, undone, acts>>

\* Not under the lock, and what is current stays so.
ClientDisconnected ==
  /\ ~torn /\ reader = "idle" /\ connected
  /\ mirrors' = [mirrors EXCEPT ![Len(mirrors)] = CleanRoot(@)]
  /\ torn' = (gui = "converting")
  /\ connected' = FALSE /\ frames' = <<>>
  /\ reader' = "quit" /\ item' = RootModel
  /\ astray' = (current # RootModel)
  /\ behind' = (behind \/ closed)
  /\ UNCHANGED <<pipelineVars, loopVars, guiVars, current, closed, undone, acts>>

\* The steps of GraphModule::update_model.
Quit ==
  /\ ~torn /\ reader = "quit"
  /\ running' = FALSE /\ reader' = "push"
  /\ UNCHANGED <<pipelineVars, frames, connected, mirrors, item, depth, queue, posted, guiVars,
                 current, closed, torn, undone, astray, behind, acts>>

Push ==
  /\ ~torn /\ reader = "push"
  /\ queue' = Append(queue, item) /\ item' = NoModel /\ reader' = "emit"
  /\ UNCHANGED <<pipelineVars, frames, connected, mirrors, running, depth, posted, guiVars,
                 current, closed, torn, undone, astray, behind, acts>>

\* Mutant: pushed and forgotten.
EmitNothing ==
  /\ ~torn /\ reader = "emit" /\ reader' = "idle"
  /\ UNCHANGED <<pipelineVars, frames, connected, mirrors, item, loopVars, guiVars,
                 current, closed, torn, undone, astray, behind, acts>>

Emit ==
  /\ ~torn /\ reader = "emit"
  /\ posted' = posted + 1 /\ reader' = "idle"
  /\ UNCHANGED <<pipelineVars, frames, connected, mirrors, item, running, depth, queue, guiVars,
                 current, closed, torn, undone, astray, behind, acts>>

-----------------------------------------------------------------------------
\* GUI thread

\* The iteration has begun, or the innermost loop begins one.
Iterates == gui = "idle" /\ ~torn /\ (again \/ running \/ (depth = 0 /\ ~closed))

WakeUp ==
  /\ Iterates /\ posted > 0
  /\ posted' = posted - 1 /\ again' = FALSE /\ gui' = "called"
  /\ UNCHANGED <<pipelineVars, readerVars, running, depth, queue, taken, page, current, closed, torn,
                 undone, astray, behind, acts>>

\* Mutant: nobody looks whether there is a model.
TakeUnchecked ==
  /\ gui = "called" /\ ~torn
  /\ taken' = IF queue = <<>> THEN NoModel ELSE Head(queue)
  /\ queue' = IF queue = <<>> THEN <<>> ELSE Tail(queue)
  /\ gui' = "converting"
  /\ UNCHANGED <<pipelineVars, readerVars, running, depth, posted, page, again, current, closed, torn,
                 undone, astray, behind, acts>>

\* Mutant: only the last model counts.
TakeLast ==
  /\ gui = "called"
  /\ \/ /\ queue = <<>>
        /\ page' = BlankPage /\ gui' = "drawing" /\ UNCHANGED <<queue, taken>>
     \/ /\ queue # <<>>
        /\ taken' = Last(queue) /\ queue' = <<>> /\ gui' = "converting" /\ UNCHANGED page
  /\ UNCHANGED <<pipelineVars, readerVars, running, depth, posted, again, current, closed, torn,
                 undone, astray, behind, acts>>

\* update_model_: the lock is taken if there is a model.
Take ==
  /\ gui = "called" /\ ~torn
  /\ \/ /\ queue = <<>>
        /\ page' = BlankPage /\ gui' = "drawing" /\ UNCHANGED <<queue, taken>>
     \/ /\ queue # <<>>
        /\ taken' = Head(queue) /\ queue' = Tail(queue) /\ gui' = "converting" /\ UNCHANGED page
  /\ UNCHANGED <<pipelineVars, readerVars, running, depth, posted, again, current, closed, torn,
                 undone, astray, behind, acts>>

Convert ==
  /\ gui = "converting" /\ ~torn
  /\ page' = ToDotData(MirrorOf(taken), taken.bin)
  /\ taken' = NoModel /\ gui' = "drawing"
  /\ UNCHANGED <<pipelineVars, readerVars, loopVars, again, current, closed, torn, undone, astray,
                 behind, acts>>

\* The layout, and at its end g_main_loop_run: a quit since the model was
\* taken is forgotten.
Draw ==
  /\ gui = "drawing" /\ ~torn
  /\ depth' = depth + 1 /\ running' = TRUE /\ gui' = "idle"
  /\ UNCHANGED <<pipelineVars, readerVars, queue, posted, taken, page, again, current, closed, torn,
                 undone, astray, behind, acts>>

\* The innermost loop ends, and free_graph quits the one around it.
FreeGraph ==
  /\ gui = "idle" /\ ~torn /\ depth > 0 /\ ~running /\ ~again
  /\ depth' = depth - 1 /\ running' = FALSE /\ page' = BlankPage
  /\ UNCHANGED <<pipelineVars, readerVars, queue, posted, gui, taken, again, current, closed, torn, undone,
                 astray, behind, acts>>

Clicks ==
  /\ Iterates /\ ~again /\ ~closed
  /\ again' \in {FALSE, posted > 0}
  /\ UNCHANGED <<pipelineVars, depth, gui, taken, page, torn, undone>>

\* current_model changes: update_model in the GUI thread.
Show(x) ==
  /\ Clicks /\ acts < MaxActs /\ acts' = acts + 1
  /\ current' = x
  /\ astray' = (reader \in {"quit", "push"})
  /\ running' = FALSE /\ queue' = Append(queue, x) /\ posted' = posted + 1
  /\ UNCHANGED <<readerVars, closed, behind>>

\* The events of the drawing area are only handled while a loop runs.
Screen == IF running THEN page ELSE BlankPage

\* What is selected, and gone into, is looked up by name in the current bin.
Chosen(b) == b \in Children(current.bin) \cap Bins \cap MirrorOf(current).shown

\* A click and a double click on what the picture shows.
ModelDown == \E b \in Screen.clusters :
  /\ Chosen(b)
  /\ Show([bin |-> b, no |-> IF current = RootModel THEN Len(mirrors) ELSE current.no])

ModelUp ==
  /\ current # RootModel
  /\ LET b == Parent[current.bin]
     IN Show([bin |-> b, no |-> IF b = Root THEN 0 ELSE current.no])

\* All but the last frames of a topology were handled at once, without anybody
\* looking.
Connect ==
  /\ Clicks /\ ~connected /\ reader = "idle" /\ Len(mirrors) < MaxConnections
  /\ LET all == EntireTopology(exists, joined)
         n == IF Len(all) > MaxFrames THEN Len(all) - MaxFrames ELSE 0
     IN /\ mirrors' = Append(mirrors, FoldLeft(Process, NoMirror, SubSeq(all, 1, n)))
        /\ frames' = SubSeq(all, n + 1, Len(all))
  /\ connected' = TRUE
  /\ UNCHANGED <<reader, item, current, running, queue, posted, closed, astray, behind, acts>>

\* Mutant: the loop goes on.
CloseOnly ==
  /\ Clicks /\ closed' = TRUE
  /\ behind' = (posted > 0 \/ reader # "idle")
  /\ UNCHANGED <<readerVars, current, running, queue, posted, astray, acts>>

Close ==
  /\ Clicks /\ closed' = TRUE
  /\ running' = FALSE
  /\ behind' = (posted > 0 \/ reader # "idle")
  /\ UNCHANGED <<readerVars, current, queue, posted, astray, acts>>

-----------------------------------------------------------------------------
\* The application, whose hooks report to the connection.  What it changes
\* while there is none, or no window, is left out.

Changes(sent) ==
  /\ connected /\ ~closed /\ acts < MaxActs /\ acts' = acts + 1
  /\ frames' = frames \o sent
  /\ UNCHANGED <<connected, mirrors, reader, item, loopVars, guiVars, current, closed, torn, astray,
                 behind>>

PadUnlink == \E l \in joined :
  /\ Changes(LinkFrames(joined, "unlinked", l))
  /\ joined' = joined \ {l} /\ undone' = undone \cup {l}
  /\ UNCHANGED exists

\* The bin tells first, then undoes the links.  What is in the element goes
\* with it.
BinRemove == \E e \in exists :
  LET own == {l \in joined : e \in {l[1].of, l[2].of} /\ Level(l[1]) = Parent[e]}
      seq == SetToSeq(own)
  IN /\ Changes(<<[what |-> "removed", of |-> e]>>
                \o FlattenSeq([i \in DOMAIN seq |-> LinkFrames(joined, "unlinked", seq[i])]))
     /\ exists' = {d \in exists : e \notin Above[d]}
     /\ joined' = {l \in joined \ own : e \notin Above[Level(l[1])]}
     /\ undone' = undone \cup own

-----------------------------------------------------------------------------
Reader == ProcessFrame \/ ClientDisconnected \/ Quit \/ Push \/ Emit
Loop == WakeUp \/ Take \/ Convert \/ Draw \/ FreeGraph
User == ModelDown \/ ModelUp \/ Connect \/ Close
Next == Reader \/ Loop \/ User \/ PadUnlink \/ BinRemove

Spec == Init /\ [][Next]_vars

\* The GUI thread polls, the reader thread is scheduled and emits.
FairSpec == Spec /\ WF_vars(Loop) /\ WF_vars(ProcessFrame \/ Quit \/ Push \/ Emit)

-----------------------------------------------------------------------------
\* Nothing is under way.
Rest == /\ ~torn /\ reader = "idle" /\ frames = <<>> /\ posted = 0
        /\ gui = "idle" /\ ~again /\ (running \/ depth = 0)

\* GraphModule::update_model: no wake-up comes before its model, so the page
\* is never blank in place of a model.
ModelBeforeWakeUp ==
  Len(queue) >= posted + (IF gui = "called" /\ mirrors # <<>> THEN 1 ELSE 0)

\* A quit may be forgotten and loops may pile up, yet at rest a loop runs and
\* shows the current bin as the models have it, unless current_model changed
\* behind what was last posted.
NewestIsShown == Rest /\ ~closed =>
  /\ running /\ queue = <<>>
  /\ mirrors # <<>> /\ ~astray => page = ToDotData(MirrorOf(current), current.bin)

\* Links that the picture may lack: what is behind a ghost pad that nothing feeds,
\* since no report comes of it; what leaves a ghost pad after the link behind it
\* was undone, since process_link clears both peers; and what is linked to a pad of
\* a bin from which an element was removed whose pad has the same name, since that
\* pad is then looked for in the bin.
Hidden(l) ==
  \/ l[1].inner /\ ~Fed(joined)[l[1].of]
  \/ IsGhost(l[1]) /\ \E k \in undone : k[2] = Internal(l[1])
  \/ LET s == Drawn(l)[1]
     IN \E k \in undone : /\ ~k[1].inner /\ Level(k[1]) = s.of
                          /\ (IF s.dir = "src" THEN k[1] ELSE k[2]).of \notin exists

\* send_link, process_link, to_dot_data: at rest the picture of a bin shows its
\* elements and pads, and its links but for the hidden ones.  A link it shows is
\* there unless it was undone behind a ghost pad.  At any time an edge that is
\* drawn has both its ends in the picture, unless its link was undone.
PictureIsTrue ==
  LET there == TruePicture(exists, joined, current.bin)
  IN /\ Rest /\ ~closed /\ connected /\ ~astray
        /\ (current = RootModel \/ (current.no = Len(mirrors) /\ current.bin \in exists))
        => /\ page.clusters = there.clusters /\ page.nodes = there.nodes
           /\ \A l \in joined : Level(l[1]) = current.bin => Drawn(l) \in page.edges \/ Hidden(l)
           /\ \A g \in page.edges \ there.edges : \E l \in undone : l[1].inner /\ Drawn(l) = g
     /\ \A g \in page.edges :
          {g[1], g[2]} \subseteq page.nodes \/ \E l \in undone : Drawn(l) = g

\* The delete event: the loops end with the window, unless there was a model
\* to draw at that time or later.
LingersOnlyOnUpdate == closed /\ Rest /\ depth > 0 => behind

\* Whatever is posted is drawn, in loops however deep, while there is a window.
DrawsWhatComes == queue # <<>> ~> (queue = <<>> \/ closed \/ torn)
=============================================================================
