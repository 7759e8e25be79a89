------------------------------ MODULE Topology ------------------------------
(***************************************************************************)
(* The mirror of the pipeline: what the tracer says about elements, pads   *)
(* and links, and what the debugger makes of it.                           *)
(*                                                                         *)
(* Threads of the application change the pipeline, and the hooks report    *)
(* each change; the server thread of the client walks through the same     *)
(* pipeline and reports what is there.  The debugger finds the place of    *)
(* an object by its path, and when an ancestor is missing it takes the     *)
(* deepest one it knows.                                                   *)
(*                                                                         *)
(* Frames arrive whole and in order (module Framing), nothing flows back   *)
(* and the properties look at the mirror at rest, so a frame is applied    *)
(* when it is sent.  A path is computed and sent in one step.  Ghost pads  *)
(* appear as plain pads of a bin.                                          *)
(***************************************************************************)
EXTENDS Integers, Sequences, SequencesExt, FiniteSets, FiniteSetsExt, Functions

CONSTANTS
  Root,         \* the pipeline
  Elements,     \* what may be in it
  Parent,       \* Parent[e]: the bin e is put into
  Name,         \* Name[e]: unique in that bin
  Pads,         \* pads of elements, [of, dir]
  Threads,      \* threads that change the pipeline
  Orderly,      \* TRUE: changes wait for the first topology, bins are added and
                \* removed empty, and nothing changes in a bin outside the pipeline
  MaxChanges,   \* bound: changes
  MaxRequests   \* bound: requests for the topology

Bins == {Parent[e] : e \in Elements}
Children(b) == {e \in Elements : Parent[e] = b}

ASSUME TreeAssumption ==
  /\ Root \notin Elements
  /\ Parent \in [Elements -> Elements \cup {Root}]
  /\ \A b \in Bins : \A d, e \in Children(b) : Name[d] = Name[e] => d = e
\* What is put into each other ends at something that is put into nothing.
ASSUME DepthAssumption ==
  /\ IsFiniteSet(Elements)
  /\ \E depth \in [Elements \cup {Root} -> 0..Cardinality(Elements)] :
       \A e \in Elements : depth[Parent[e]] < depth[e]
ASSUME PadsAssumption == Pads \subseteq [of : Elements, dir : {"src", "sink"}]
ASSUME BoundsAssumption == /\ Orderly \in BOOLEAN
                           /\ MaxChanges \in Nat /\ MaxRequests \in Nat

Up[e \in Elements \cup {Root}] == {e} \cup (IF e = Root THEN {} ELSE Up[Parent[e]])
Pairs == {l \in Pads \X Pads : l[1].dir = "src" /\ l[2].dir = "sink" /\ l[1].of # l[2].of}
Ends(l) == {l[1].of, l[2].of}

VARIABLES
  attached, pads, links,  \* the pipeline
  task,       \* task[t]: what thread t has begun
  phase,      \* of the server thread: "idle", "walk" or "aborted"
  walk,       \* what it is iterating over, outermost first
  srcs,       \* src_pads: linked source pads it met
  found,      \* a link it is about to send
  nodes,      \* ElementModels in the order they were added, 0 is the root
  peer,       \* PadModels and their peers
  steady,     \* history: elements that were there from the connection on
  refused,    \* history: links that failed for want of a common parent
  unlinked,   \* history: a link was undone during a walk
  changes, requests

pipelineVars == <<attached, pads, links>>
walkVars == <<phase, walk, srcs, found>>
mirrorVars == <<nodes, peer>>
history == <<steady, refused, unlinked>>
vars == <<pipelineVars, walkVars, mirrorVars, history, task, changes, requests>>

Nothing == [op |-> "none", of |-> Root, pads |-> {}]
NoPad == [of |-> -1, dir |-> "none"]
PadModel == [of : Nat, dir : {"src", "sink"}]

TypeOK ==
  /\ attached \subseteq Elements /\ pads \subseteq Pads /\ links \subseteq Pairs
  /\ \A l \in links : {l[1], l[2]} \subseteq pads
  /\ \A t \in Threads : \/ task[t] = Nothing
                        \/ task[t].op \in {"added", "removing"} /\ task[t].of \in attached
                        \/ task[t].op = "unpadding" /\ task[t].pads \subseteq pads
  /\ phase \in {"idle", "walk", "aborted"}
  /\ \A i \in DOMAIN walk : walk[i].op \in {"element", "pads", "bin"}
  /\ srcs \in Seq(Pads) /\ found \in Seq(Pairs)
  /\ \A i \in DOMAIN nodes : nodes[i].parent \in 0..(i - 1) /\ nodes[i].shown \in BOOLEAN
  /\ \A p \in DOMAIN peer : /\ p \in PadModel /\ p.of <= Len(nodes)
                            /\ peer[p] = NoPad \/ peer[p].dir # p.dir
  /\ steady \subseteq Elements /\ refused \subseteq Pairs /\ unlinked \in BOOLEAN
  /\ changes \in 0..MaxChanges /\ requests \in 0..MaxRequests

-----------------------------------------------------------------------------
\* Paths: the name of the topmost object is left out, be it the pipeline or
\* something that is not in it.

PathOf[e \in Elements \cup {Root}] ==
  IF e \in attached THEN Append(PathOf[Parent[e]], Name[e]) ELSE <<>>

Connected == {e \in Elements : Up[e] \subseteq attached \cup {Root}}
Linked(p) == \E l \in links : p \in {l[1], l[2]}

-----------------------------------------------------------------------------
\* The debugger: ElementPathProcessor, TopologyController, ElementModel

Named(parent, name) ==
  {i \in DOMAIN nodes : nodes[i] = [name |-> name, parent |-> parent, shown |-> TRUE]}

\* As deep as the path is known.
Locate(path) ==
  LET Down(place, name) ==
        IF place.lost \/ Named(place.at, name) = {} THEN [place EXCEPT !.lost = TRUE]
        ELSE [place EXCEPT !.at = Min(Named(place.at, name))]
  IN FoldLeft(Down, [at |-> 0, lost |-> FALSE], path).at

Located(p) == [of |-> Locate(PathOf[p.of]), dir |-> p.dir]

AddElement(e) ==
  /\ nodes' = Append(nodes, [name |-> Last(PathOf[e]),
                             parent |-> Locate(Front(PathOf[e])), shown |-> TRUE])
  /\ UNCHANGED peer

\* Mutant: the parent is not looked up.
RemoveElementAtRoot(e) ==
  /\ nodes' = [i \in DOMAIN nodes |->
       [nodes[i] EXCEPT !.shown = @ /\ i \notin Named(0, Last(PathOf[e]))]]
  /\ UNCHANGED peer

\* The first child of that name, if there is one.
RemoveElement(e) ==
  LET same == Named(Locate(Front(PathOf[e])), Last(PathOf[e]))
  IN /\ nodes' = [i \in DOMAIN nodes |->
          [nodes[i] EXCEPT !.shown = @ /\ ~(i \in same /\ i = Min(same))]]
     /\ UNCHANGED peer

AddPad(p) ==
  /\ peer' = [q \in DOMAIN peer \cup {Located(p)} |-> IF q \in DOMAIN peer THEN peer[q] ELSE NoPad]
  /\ UNCHANGED nodes

RemovePad(p) ==
  /\ peer' = Restrict(peer, DOMAIN peer \ {Located(p)})
  /\ UNCHANGED nodes

\* Mutant: the peer of the sink is the sink.
AddLinkTwisted(src, sink) ==
  LET known == {Located(src), Located(sink)} \subseteq DOMAIN peer
  IN /\ peer' = [q \in DOMAIN peer |->
          IF known /\ q \in {Located(src), Located(sink)} THEN Located(sink) ELSE peer[q]]
     /\ UNCHANGED nodes

AddLink(src, sink) ==
  LET s == Located(src)  k == Located(sink)
      known == {s, k} \subseteq DOMAIN peer
  IN /\ peer' = [q \in DOMAIN peer |-> IF known /\ q = s THEN k
                                       ELSE IF known /\ q = k /\ sink.dir = "sink" THEN s
                                       ELSE peer[q]]
     /\ UNCHANGED nodes

RemoveLink(src, sink) ==
  /\ peer' = [q \in DOMAIN peer |-> IF q \in {Located(src), Located(sink)} THEN NoPad ELSE peer[q]]
  /\ UNCHANGED nodes

-----------------------------------------------------------------------------
\* The pipeline and the hooks of the tracer

\* An element in the hands of one thread is left alone by the others.
Begins(t, e) ==
  /\ phase # "aborted"
  /\ task[t] = Nothing /\ changes < MaxChanges
  /\ \A u \in Threads : task[u].of # e
  /\ Orderly => requests > 0 /\ phase = "idle" /\ e \in Connected \cup (Elements \ attached)
  /\ changes' = changes + 1
  /\ UNCHANGED requests

\* Mutant: an iterator that has to be restarted counts as finished.
ResyncStops(op, of) == walk' = [i \in DOMAIN walk |->
  IF walk[i].op = op /\ walk[i].of = of
  THEN [walk[i] EXCEPT !.seen = IF op = "bin" THEN Elements ELSE Pads] ELSE walk[i]]

\* An iterator over something that changes starts again.
Resync(op, of) == walk' = [i \in DOMAIN walk |->
  IF walk[i].op = op /\ walk[i].of = of THEN [walk[i] EXCEPT !.seen = {}] ELSE walk[i]]

Attach(t, e) ==
  /\ e \notin attached
  /\ Begins(t, e)
  /\ Orderly => Parent[e] \in Connected \cup {Root} /\ Children(e) \cap attached = {}
  /\ attached' = attached \cup {e}
  /\ Resync("bin", Parent[e])
  /\ task' = [task EXCEPT ![t] = [op |-> "added", of |-> e, pads |-> {}]]
  /\ UNCHANGED <<pads, links, phase, srcs, found, mirrorVars, history>>

\* Only the element is reported, not what it brings along.
BinAddPost(t) ==
  /\ task[t].op = "added" /\ phase # "aborted"
  /\ AddElement(task[t].of)
  /\ task' = [task EXCEPT ![t] = Nothing]
  /\ UNCHANGED <<pipelineVars, walkVars, history, changes, requests>>

BinRemovePre(t, e) ==
  /\ e \in attached
  /\ Begins(t, e)
  /\ Orderly => Children(e) \cap attached = {}
  /\ RemoveElement(e)
  /\ task' = [task EXCEPT ![t] = [op |-> "removing", of |-> e, pads |-> {}]]
  /\ steady' = {d \in steady : e \notin Up[d]}
  /\ UNCHANGED <<pipelineVars, walkVars, refused, unlinked>>

Unlink(l) ==
  /\ links' = links \ {l}
  /\ RemoveLink(l[1], l[2])
  /\ unlinked' = (unlinked \/ phase = "walk")
  /\ UNCHANGED <<attached, pads, walkVars, steady, refused>>

\* The bin undoes the links of what it gives up, then lets it go.
RemoveUnlinks(t) == \E l \in links :
  /\ task[t].op = "removing" /\ phase # "aborted"
  /\ task[t].of \in Ends(l)
  /\ Unlink(l)
  /\ UNCHANGED <<task, changes, requests>>

Detach(t) ==
  /\ task[t].op = "removing" /\ phase # "aborted"
  /\ \A l \in links : task[t].of \notin Ends(l)
  /\ attached' = attached \ {task[t].of}
  /\ Resync("bin", Parent[task[t].of])
  /\ task' = [task EXCEPT ![t] = Nothing]
  /\ UNCHANGED <<pads, links, phase, srcs, found, mirrorVars, history, changes, requests>>

\* Pads of an element without a parent are not reported.
ElementAddPad(t, p) ==
  /\ p \notin pads
  /\ Begins(t, p.of)
  /\ pads' = pads \cup {p}
  /\ Resync("pads", p.of)
  /\ IF p.of \in attached THEN AddPad(p) ELSE UNCHANGED mirrorVars
  /\ UNCHANGED <<attached, links, phase, srcs, found, history, task>>

ElementRemovePad(t, p) ==
  /\ p \in pads /\ ~Linked(p)
  /\ Begins(t, p.of)
  /\ IF p.of \in attached THEN RemovePad(p) ELSE UNCHANGED mirrorVars
  /\ task' = [task EXCEPT ![t] = [op |-> "unpadding", of |-> p.of, pads |-> {p}]]
  /\ UNCHANGED <<pipelineVars, walkVars, history>>

PadGone(t) ==
  /\ task[t].op = "unpadding" /\ phase # "aborted"
  /\ pads' = pads \ task[t].pads
  /\ Resync("pads", task[t].of)
  /\ task' = [task EXCEPT ![t] = Nothing]
  /\ UNCHANGED <<attached, links, phase, srcs, found, mirrorVars, history, changes, requests>>

SameParent(d, e) == \/ {d, e} \subseteq attached /\ Parent[d] = Parent[e]
                    \/ {d, e} \cap attached = {}

\* The result is compared with TRUE, which is no success (that is 0) but the
\* refusal of a link between pads in different bins.
PadLinkPost(t, l) ==
  /\ {l[1], l[2]} \subseteq pads /\ ~Linked(l[1]) /\ ~Linked(l[2])
  /\ \A u \in Threads : task[u].of \notin Ends(l)
  /\ Orderly => l[2].of \in Connected \cup (Elements \ attached)
  /\ Begins(t, l[1].of)
  /\ \/ /\ SameParent(l[1].of, l[2].of)
        /\ links' = links \cup {l}
        /\ UNCHANGED <<mirrorVars, refused>>
     \/ /\ ~SameParent(l[1].of, l[2].of)
        /\ AddLink(l[1], l[2])
        /\ refused' = refused \cup {l}
        /\ UNCHANGED links
  /\ UNCHANGED <<attached, pads, walkVars, steady, unlinked, task>>

PadUnlinkPost(t, l) ==
  /\ l \in links
  /\ Begins(t, l[1].of)
  /\ Unlink(l)
  /\ UNCHANGED task

-----------------------------------------------------------------------------
\* The server thread: gst_debugserver_topology_send_entire_topology

Visit(op, of) == [op |-> op, of |-> of, seen |-> {}]

Request ==
  /\ phase = "idle" /\ requests < MaxRequests
  /\ phase' = "walk" /\ requests' = requests + 1
  /\ walk' = <<Visit("element", Root)>>
  /\ srcs' = <<>>
  /\ UNCHANGED <<pipelineVars, found, mirrorVars, history, task, changes>>

Walking(op) == phase = "walk" /\ walk # <<>> /\ Last(walk).op = op

\* Itself if it has a parent, then its pads, then what is in it.
SendElement ==
  /\ Walking("element")
  /\ LET e == Last(walk).of
     IN /\ IF e \in attached THEN AddElement(e) ELSE UNCHANGED mirrorVars
        /\ walk' = Front(walk) \o (IF e \in Bins THEN <<Visit("bin", e)>> ELSE <<>>)
                               \o <<Visit("pads", e)>>
  /\ UNCHANGED <<pipelineVars, phase, srcs, found, history, task, changes, requests>>

\* Mutants: sink pads are collected; source pads are, linked or not.
CollectsSinks(p) == p.dir = "sink" /\ Linked(p)
CollectsAll(p) == p.dir = "src"
Collects(p) == p.dir = "src" /\ Linked(p)

SendPad ==
  /\ Walking("pads")
  /\ LET rest == {p \in pads : p.of = Last(walk).of} \ Last(walk).seen
     IN \/ \E p \in rest :
             /\ walk' = [walk EXCEPT ![Len(walk)].seen = @ \cup {p}]
             /\ srcs' = IF Collects(p) THEN Append(srcs, p) ELSE srcs
             /\ AddPad(p)
        \/ /\ rest = {}
           /\ walk' = Front(walk)
           /\ UNCHANGED <<srcs, mirrorVars>>
  /\ UNCHANGED <<pipelineVars, phase, found, history, task, changes, requests>>

NextElement ==
  /\ Walking("bin")
  /\ LET rest == (Children(Last(walk).of) \cap attached) \ Last(walk).seen
     IN \/ \E e \in rest :
             walk' = Append([walk EXCEPT ![Len(walk)].seen = @ \cup {e}], Visit("element", e))
        \/ rest = {} /\ walk' = Front(walk)
  /\ UNCHANGED <<pipelineVars, phase, srcs, found, mirrorVars, history, task, changes, requests>>

\* The peer is asked for again; nothing checks that there still is one.
TakeLink ==
  /\ phase = "walk" /\ walk = <<>> /\ found = <<>> /\ srcs # <<>>
  /\ srcs' = Tail(srcs)
  /\ LET p == Head(srcs)
     IN \/ p \notin pads /\ UNCHANGED <<found, phase>>
        \/ p \in pads /\ ~Linked(p) /\ phase' = "aborted" /\ UNCHANGED found
        \/ \E q \in pads : {<<p, q>>, <<q, p>>} \cap links # {} /\ found' = <<<<p, q>>>>
                          /\ UNCHANGED phase
  /\ UNCHANGED <<pipelineVars, walk, mirrorVars, history, task, changes, requests>>

SendLink ==
  /\ phase = "walk" /\ found # <<>>
  /\ found' = <<>>
  /\ LET l == Head(found)
     IN IF {l[1], l[2]} \subseteq pads THEN AddLink(l[1], l[2]) ELSE UNCHANGED mirrorVars
  /\ UNCHANGED <<pipelineVars, phase, walk, srcs, history, task, changes, requests>>

WalkEnds ==
  /\ phase = "walk" /\ walk = <<>> /\ found = <<>> /\ srcs = <<>>
  /\ phase' = "idle"
  /\ UNCHANGED <<pipelineVars, walk, srcs, found, mirrorVars, history, task, changes, requests>>

-----------------------------------------------------------------------------
\* The connection finds a pipeline of any shape, nothing going on.
Init ==
  /\ attached \in SUBSET Elements
  /\ pads \in SUBSET Pads
  /\ links \in SUBSET {l \in Pairs : {l[1], l[2]} \subseteq pads /\ SameParent(l[1].of, l[2].of)}
  /\ \A l, m \in links : l = m \/ {l[1], l[2]} \cap {m[1], m[2]} = {}
  /\ task = [t \in Threads |-> Nothing]
  /\ phase = "idle" /\ walk = <<>> /\ srcs = <<>> /\ found = <<>>
  /\ nodes = <<>> /\ peer = <<>>
  /\ steady = Connected /\ refused = {} /\ unlinked = FALSE
  /\ changes = 0 /\ requests = 0

Changer(t) ==
  \/ \E e \in Elements : Attach(t, e) \/ BinRemovePre(t, e)
  \/ \E p \in Pads : ElementAddPad(t, p) \/ ElementRemovePad(t, p)
  \/ \E l \in Pairs : PadLinkPost(t, l) \/ PadUnlinkPost(t, l)
  \/ BinAddPost(t) \/ RemoveUnlinks(t) \/ Detach(t) \/ PadGone(t)

Server == Request \/ SendElement \/ SendPad \/ NextElement \/ TakeLink \/ SendLink \/ WalkEnds

Next == Server \/ \E t \in Threads : Changer(t)

Spec == Init /\ [][Next]_vars

-----------------------------------------------------------------------------
\* What the mirror shows: the model objects that can be reached from the root.

Visible[i \in 0..Len(nodes)] == i = 0 \/ (nodes[i].shown /\ Visible[nodes[i].parent])
PathShown[i \in 0..Len(nodes)] ==
  IF i = 0 THEN <<>> ELSE Append(PathShown[nodes[i].parent], nodes[i].name)
VisibleNodes == {i \in DOMAIN nodes : Visible[i]}

ShownElements == {PathShown[i] : i \in VisibleNodes}
ShownOnce == Cardinality(ShownElements) = Cardinality(VisibleNodes)
ShownPads == {<<PathShown[p.of], p.dir>> : p \in {q \in DOMAIN peer : Visible[q.of]}}
ShownLinks == {<<PathShown[p.of], PathShown[peer[p].of]>> :
  p \in {q \in DOMAIN peer : q.dir = "src" /\ Visible[q.of] /\ peer[q] # NoPad}}

TrueElements == {PathOf[e] : e \in Connected}
TruePads == {<<PathOf[p.of], p.dir>> : p \in {q \in pads : q.of \in Connected}}
TrueLinks == {<<PathOf[l[1].of], PathOf[l[2].of]>> :
              l \in {m \in links : Ends(m) \subseteq Connected}}

\* The links that were refused, between the places their elements had.
PathIn[e \in Elements \cup {Root}] == IF e = Root THEN <<>> ELSE Append(PathIn[Parent[e]], Name[e])
RefusedLinks == {<<PathIn[l[1].of], PathIn[l[2].of]>> : l \in refused}

AtRest == requests > 0 /\ phase = "idle" /\ \A t \in Threads : task[t] = Nothing

\* gst_debugserver_topology_send_entire_topology: of a pipeline of any shape
\* that does not change, the first topology gives every element, pad and link,
\* each once and in its place.
SnapshotIsFaithful == AtRest /\ changes = 0 =>
  /\ ShownOnce /\ ShownElements = TrueElements
  /\ ShownPads = TruePads
  /\ ShownLinks = TrueLinks

\* do_bin_add_post, do_bin_remove_pre: after orderly changes the mirror has
\* exactly the elements of the pipeline; pads and links may be missing from
\* it, but what it shows is there, attempts at a link excepted.
MirrorFollows == AtRest =>
  /\ ShownOnce /\ ShownElements = TrueElements
  /\ ShownPads \subseteq TruePads
  /\ ShownLinks \subseteq TrueLinks \cup RefusedLinks

\* What was in the pipeline from the connection on is never missing from the
\* mirror, whatever changes around it while the topology is sent.  Names that
\* differ are supposed: what leaves a bin outside is reported by its name alone.
NothingLost == AtRest => {PathOf[e] : e \in steady} \subseteq ShownElements

\* The server thread fails in send_link only when a link is undone while it
\* collects the topology.
AbortsOnlyOnUnlink == phase = "aborted" => unlinked

\* "Refresh graph": what is removed after the topology was asked for again is gone.
RemovedIsGone == AtRest => ShownElements \subseteq TrueElements
=============================================================================
