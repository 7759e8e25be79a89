------------------------------ MODULE DotGraph ------------------------------
(***************************************************************************)
(* How a link of the pipeline becomes an edge of the picture: what the     *)
(* tracer reports of it (send_link), what the debugger makes of the report *)
(* (process_link), and what the converter draws (to_dot_data).             *)
(*                                                                         *)
(* The hard part are bins.  A pad of a bin is a ghost pad, and behind it,  *)
(* inside the bin, is its internal pad, of the other direction, which the  *)
(* debugger does not know.  A pad is found by its path, and the deepest    *)
(* known ancestor stands for one that is missing; pads are named "src" and *)
(* "sink" in every element.                                                *)
(***************************************************************************)
EXTENDS Integers, Sequences, SequencesExt, FiniteSets, Functions

CONSTANTS
  Root,     \* the pipeline
  Order,    \* the elements in the order the server meets them, bins before what is in them
  Parent    \* Parent[e]: the bin of e

Elements == ToSet(Order)

ASSUME OrderAssumption ==
  /\ Order \in Seq(Elements) /\ IsInjective(Order) /\ Root \notin Elements
  /\ \A i \in DOMAIN Order : Parent[Order[i]] \in {Root} \cup {Order[j] : j \in 1..(i - 1)}

Bins == {Parent[e] : e \in Elements} \cup {Root}
Children(b) == {e \in Elements : Parent[e] = b}
Above[e \in Elements \cup {Root}] == {e} \cup (IF e = Root THEN {} ELSE Above[Parent[e]])

Pads == [of : Elements, dir : {"src", "sink"}, inner : {FALSE}]
AllPads == Pads \cup [of : Bins \ {Root}, dir : {"src", "sink"}, inner : {TRUE}]
NoPad == [of |-> Root, dir |-> "none", inner |-> FALSE]

IsGhost(p) == p.of \in Bins /\ ~p.inner
\* gst_proxy_pad_get_internal: leads from one to the other and back.
Internal(p) == [p EXCEPT !.dir = IF p.dir = "src" THEN "sink" ELSE "src", !.inner = ~p.inner]

\* The bin in which a pad is linked.
Level(p) == IF p.inner THEN p.of ELSE Parent[p.of]
Links == {l \in AllPads \X AllPads :
  l[1].dir = "src" /\ l[2].dir = "sink" /\ Level(l[1]) = Level(l[2]) /\ l[1].of # l[2].of}

Peers(joined, p) == {q \in AllPads : {<<p, q>>, <<q, p>>} \cap joined # {}}

-----------------------------------------------------------------------------
\* The server

\* Mutant: the ghost pad is looked up only on the side of the source.
SendLinkOutside(joined) == [l \in AllPads \X AllPads |->
  IF l[1].inner THEN <<>> ELSE <<<<l[1], IF l[2].inner THEN Internal(l[2]) ELSE l[2]>>>>]

\* The reports of a link: one that comes from an internal pad has none; one
\* into a ghost pad brings the link behind it along, if there is one.
SendLink(joined) ==
  LET report[l \in AllPads \X AllPads] ==
        LET behind == {q \in Peers(joined, Internal(l[2])) : IsGhost(l[2])}
        IN IF l[1].inner THEN <<>>
           ELSE IF l[2].inner THEN <<<<l[1], Internal(l[2])>>>>
           ELSE IF behind = {} THEN <<l>>
           ELSE Append(report[<<l[2], CHOOSE q \in behind : TRUE>>], l)
  IN report

LinkFrames(joined, what, l) ==
  [i \in DOMAIN SendLink(joined)[l] |->
     [what |-> what, src |-> SendLink(joined)[l][i][1], sink |-> SendLink(joined)[l][i][2]]]

PadOf(e, dir) == [of |-> e, dir |-> dir, inner |-> FALSE]

\* Every element and its pads, then the links of the source pads.
EntireTopology(exists, joined) ==
  LET Report(e) == IF e \notin exists THEN <<>>
                   ELSE <<[what |-> "added", of |-> e], [what |-> "pad", pad |-> PadOf(e, "src")],
                          [what |-> "pad", pad |-> PadOf(e, "sink")]>>
      Collect(e) == LET to == Peers(joined, PadOf(e, "src"))
                    IN IF e \notin exists \/ to = {} THEN <<>>
                       ELSE LinkFrames(joined, "linked", <<PadOf(e, "src"), CHOOSE q \in to : TRUE>>)
  IN FlattenSeq([i \in DOMAIN Order |-> Report(Order[i])])
     \o FlattenSeq([i \in DOMAIN Order |-> Collect(Order[i])])

-----------------------------------------------------------------------------
\* The models of the debugger: who is a child of its bin, and the known pads
\* with their peers.

NoMirror == [shown |-> {}, peer |-> <<>>]

Located(m, p) ==
  LET place[e \in Elements \cup {Root}] ==
        IF e = Root THEN Root
        ELSE IF place[Parent[e]] = Parent[e] /\ e \in m.shown THEN e ELSE place[Parent[e]]
  IN [p EXCEPT !.of = place[p.of]]

\* A ghost pad that is a sink keeps the peer it has in its bin.
AddLink(m, s, k) ==
  IF ~({s, k} \subseteq DOMAIN m.peer) THEN m
  ELSE IF k.dir = "sink" /\ ~IsGhost(k) THEN [m EXCEPT !.peer[s] = k, !.peer[k] = s]
  ELSE [m EXCEPT !.peer[s] = k]

\* Here it does not.
RemoveLink(m, s, k) ==
  [m EXCEPT !.peer = [p \in DOMAIN m.peer |-> IF p \in {s, k} THEN NoPad ELSE m.peer[p]]]

Process(m, f) ==
  CASE f.what = "added" -> [m EXCEPT !.shown = @ \cup {f.of}]
    [] f.what = "removed" -> [m EXCEPT !.shown = @ \ {f.of}]
    [] f.what = "pad" -> [m EXCEPT !.peer = [p \in DOMAIN @ \cup {Located(m, f.pad)} |->
                                              IF p \in DOMAIN @ THEN @[p] ELSE NoPad]]
    [] f.what = "linked" -> AddLink(m, Located(m, f.src), Located(m, f.sink))
    [] f.what = "unlinked" -> RemoveLink(m, Located(m, f.src), Located(m, f.sink))

\* clean_model of the root: what was in a bin stays in it.
CleanRoot(m) == [shown |-> m.shown \ Children(Root),
                 peer |-> Restrict(m.peer, {p \in DOMAIN m.peer : p.of # Root})]

-----------------------------------------------------------------------------
\* The converter

EdgesFrom(m, from) == {<<p, m.peer[p]>> : p \in {q \in from : m.peer[q] # NoPad}}
PadsOf(m, e) == {p \in DOMAIN m.peer : p.of = e}

DumpTopPads(m, b) ==
  [nodes |-> PadsOf(m, b), edges |-> EdgesFrom(m, {p \in PadsOf(m, b) : p.dir = "sink"})]

DumpElement(m, b) ==
  LET pads == UNION {PadsOf(m, e) : e \in Children(b) \cap m.shown}
  IN [nodes |-> pads, edges |-> EdgesFrom(m, {p \in pads : p.dir = "src"})]

ToDotData(m, b) ==
  [clusters |-> Children(b) \cap m.shown,
   nodes |-> DumpTopPads(m, b).nodes \cup DumpElement(m, b).nodes,
   edges |-> DumpTopPads(m, b).edges \cup DumpElement(m, b).edges]

BlankPage == [clusters |-> {}, nodes |-> {}, edges |-> {}]

-----------------------------------------------------------------------------
\* Reference: what a picture of a bin should show.  An internal pad is drawn
\* as its ghost pad.

Drawn(l) == <<IF l[1].inner THEN Internal(l[1]) ELSE l[1],
              IF l[2].inner THEN Internal(l[2]) ELSE l[2]>>

TruePicture(exists, joined, b) ==
  [clusters |-> Children(b) \cap exists,
   nodes |-> {p \in Pads : p.of = b \/ p.of \in Children(b) \cap exists},
   edges |-> {Drawn(l) : l \in {k \in joined : Level(k[1]) = b}}]

\* A link behind a ghost pad is reported if something that is no ghost pad feeds
\* it, from whatever depth.
Fed(joined) ==
  LET fed[b \in Bins] == \E l \in joined : l[2] = PadOf(b, "sink") /\ (l[1].inner => fed[Parent[b]])
  IN fed
=============================================================================
