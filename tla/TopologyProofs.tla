--------------------------- MODULE TopologyProofs ---------------------------
(***************************************************************************)
(* Proofs about Topology: what the server thread has collected when it     *)
(* asks for the peer of a pad, what the pipeline, the walk and the mirror  *)
(* always are, that what stays in the pipeline is shown, that the first    *)
(* topology of a pipeline that does not change is faithful, and that       *)
(* orderly changes after it are followed.                                  *)
(*                                                                         *)
(* Paths are recursive functions of elements, and where an object is in    *)
(* the mirror is found by folding its path over the nodes.  Both come to   *)
(* an end because what is put into each other does; from this assumption   *)
(* the first lemmas derive the equations that the definitions state, and   *)
(* an induction from the root to what is in it, which the others use.      *)
(***************************************************************************)
EXTENDS Topology, ListFacts, FiniteSetTheorems, SequenceTheorems, TLAPS

\* The pads that were collected are linked, unless a link was undone since.
CollectedOK ==
  /\ pads \subseteq Pads /\ srcs \in Seq(Pads)
  /\ phase \in {"idle", "walk", "aborted"}
  /\ phase = "walk" => unlinked \/ \A i \in 1..Len(srcs) : Linked(srcs[i])
  /\ phase = "aborted" => unlinked

LEMMA CollectedInit == Init => CollectedOK
BY DEF Init, CollectedOK

\* Threads that change the pipeline: only one that undoes a link takes one away.
LEMMA ChangerKeepsCollected ==
  ASSUME CollectedOK, NEW t \in Threads, Changer(t)
  PROVE  CollectedOK'
<1>1. UNCHANGED <<phase, srcs>>
  BY DEF Changer, Attach, BinRemovePre, ElementAddPad, ElementRemovePad, PadLinkPost, PadUnlinkPost,
     BinAddPost, RemoveUnlinks, Detach, PadGone, Unlink, walkVars
<1>2. pads' \subseteq Pads
  BY DEF CollectedOK, Changer, Attach, BinRemovePre, ElementAddPad, ElementRemovePad, PadLinkPost,
     PadUnlinkPost, BinAddPost, RemoveUnlinks, Detach, PadGone, Unlink, walkVars, pipelineVars
<1>3. \/ links \subseteq links' /\ UNCHANGED unlinked
      \/ unlinked' = (unlinked \/ phase = "walk")
  BY DEF Changer, Attach, BinRemovePre, ElementAddPad, ElementRemovePad, PadLinkPost,
     PadUnlinkPost, BinAddPost, RemoveUnlinks, Detach, PadGone, Unlink, walkVars, pipelineVars,
     history
<1>4. CASE links \subseteq links' /\ UNCHANGED unlinked
  <2>1. \A p : Linked(p) => Linked(p)'
    BY <1>4 DEF Linked
  <2> QED  BY <1>1, <1>2, <1>4, <2>1 DEF CollectedOK
<1>5. CASE unlinked' = (unlinked \/ phase = "walk")
  BY <1>1, <1>2, <1>5 DEF CollectedOK
<1> QED  BY <1>3, <1>4, <1>5

\* The server thread only collects what is linked, and asks in that order.
LEMMA ServerKeepsCollected ==
  ASSUME CollectedOK, Server
  PROVE  CollectedOK'
<1>1. UNCHANGED <<pads, links, unlinked>> /\ \A p : Linked(p)' <=> Linked(p)
  BY DEF Server, Request, SendElement, SendPad, NextElement, TakeLink, SendLink, WalkEnds,
     pipelineVars, history, Linked
<1>2. CASE Request
  BY <1>1, <1>2 DEF Request, CollectedOK
<1>3. CASE SendElement \/ NextElement \/ SendLink \/ WalkEnds
  <2>1. UNCHANGED srcs /\ (phase' = phase \/ phase' = "idle")
    BY <1>3 DEF SendElement, NextElement, SendLink, WalkEnds
  <2> QED  BY <1>1, <2>1 DEF CollectedOK
<1>4. CASE SendPad
  <2>1. UNCHANGED phase
    BY <1>4 DEF SendPad
  <2>2. UNCHANGED srcs \/ \E p \in Pads : Linked(p) /\ srcs' = Append(srcs, p)
    BY <1>4 DEF SendPad, Collects, CollectedOK
  <2>3. CASE UNCHANGED srcs
    BY <1>1, <2>1, <2>3 DEF CollectedOK
  <2>4. ASSUME NEW p \in Pads, Linked(p), srcs' = Append(srcs, p) PROVE CollectedOK'
    <3>1. srcs' \in Seq(Pads) /\ \A i \in 1..Len(srcs') :
            (i \in 1..Len(srcs) /\ srcs'[i] = srcs[i]) \/ srcs'[i] = p
      BY <2>4, AppendProperties, LenProperties DEF CollectedOK
    <3> QED  BY <1>1, <2>1, <2>4, <3>1 DEF CollectedOK
  <2> QED  BY <2>2, <2>3, <2>4
<1>5. CASE TakeLink
  <2>1. /\ phase = "walk" /\ srcs \in Seq(Pads) /\ srcs # <<>>
        /\ srcs' = Tail(srcs)
        /\ phase' = "walk" \/ (phase' = "aborted" /\ ~Linked(Head(srcs)))
    BY <1>5 DEF TakeLink, CollectedOK
  <2>2. /\ srcs' \in Seq(Pads)
        /\ Head(srcs) = srcs[1] /\ 1 \in 1..Len(srcs)
        /\ \A i \in 1..Len(srcs') : i + 1 \in 1..Len(srcs) /\ srcs'[i] = srcs[i + 1]
    BY <2>1, HeadTailProperties, LenProperties
  <2> QED  BY <1>1, <2>1, <2>2 DEF CollectedOK
<1> QED  BY <1>2, <1>3, <1>4, <1>5 DEF Server

\* gst_debugserver_topology_send_link: a pad that was collected still has a
\* peer when it is asked for, whatever threads add, remove and link meanwhile,
\* unless one of them has undone a link during the walk.
THEOREM AbortNeedsUnlink == Spec => []AbortsOnlyOnUnlink
<1>1. CollectedOK /\ [Next]_vars => CollectedOK'
  <2> SUFFICES ASSUME CollectedOK, [Next]_vars PROVE CollectedOK'
    OBVIOUS
  <2>1. CASE UNCHANGED vars
    BY <2>1 DEF vars, pipelineVars, walkVars, history, CollectedOK, Linked
  <2> QED  BY <2>1, ChangerKeepsCollected, ServerKeepsCollected DEF Next
<1>2. CollectedOK => AbortsOnlyOnUnlink
  BY DEF CollectedOK, AbortsOnlyOnUnlink
<1> QED  BY <1>1, <1>2, CollectedInit, PTL DEF Spec


-----------------------------------------------------------------------------
\* Paths: what is put into each other has a depth.
Names == {Name[e] : e \in Elements}
Depth == CHOOSE depth \in [Elements \cup {Root} -> 0..Cardinality(Elements)] :
           \A e \in Elements : depth[Parent[e]] < depth[e]

LEMMA DepthFacts ==
  /\ Cardinality(Elements) \in Nat /\ Depth \in [Elements \cup {Root} -> 0..Cardinality(Elements)]
  /\ \A e \in Elements : Parent[e] \in Elements \cup {Root} /\ Depth[Parent[e]] < Depth[e]
  /\ Root \notin Elements
BY DepthAssumption, TreeAssumption, FS_CardinalityType DEF Depth

\* What holds of the root, and of an element if of its bin, holds of everything.
LEMMA DepthInduction ==
  ASSUME NEW S, Root \in S, \A e \in Elements : Parent[e] \in S => e \in S
  PROVE  Elements \cup {Root} \subseteq S
<1> DEFINE T == {n \in Nat : \A e \in Elements \cup {Root} : Depth[e] < n => e \in S}
<1>1. \A e \in Elements \cup {Root} : Depth[e] \in 0..Cardinality(Elements)
  BY DepthFacts
<1>2. 0 \in T
  BY <1>1, DepthFacts
<1>3. ASSUME NEW n \in Nat, n \in T PROVE n + 1 \in T
  <2>1. ASSUME NEW e \in Elements, Depth[e] < n + 1 PROVE e \in S
    <3>1. Depth[Parent[e]] < n /\ Parent[e] \in Elements \cup {Root}
      BY <1>1, <2>1, DepthFacts
    <3>2. Parent[e] \in S
      BY <1>3, <3>1
    <3> QED  BY <3>2
  <2> QED  BY <2>1
<1>4. Nat \subseteq T
  <2> HIDE DEF T
  <2> QED  BY <1>2, <1>3, SetInduction
<1>5. Cardinality(Elements) + 1 \in T
  BY <1>4, DepthFacts
<1> QED  BY <1>1, <1>5, DepthFacts

\* Paths, and what is above an element, are defined for everything.
LEMMA PathsOf ==
  ASSUME NEW A \in SUBSET Elements
  PROVE  \E f \in [Elements \cup {Root} -> Seq(Names)] :
           f = [e \in Elements \cup {Root} |-> IF e \in A THEN Append(f[Parent[e]], Name[e]) ELSE <<>>]
<1> DEFINE X == Elements \cup {Root}
           Y == Seq(Names)
           base == [x \in X |-> <<>>]
           step == [z \in X \X Y |-> IF z[1] \in A THEN Append(z[2], Name[z[1]]) ELSE <<>>]
<1>1. base \in [X -> Y]
  OBVIOUS
<1>2. step \in [X \X Y -> Y]
  <2>1. ASSUME NEW x \in X, NEW y \in Y PROVE (IF x \in A THEN Append(y, Name[x]) ELSE <<>>) \in Y
    <3>1. x \in A => Name[x] \in Names
      BY DEF Names
    <3> QED  BY <3>1
  <2> QED  BY <2>1
<1>3. \A x \in X \ (X \ A) : Parent[x] \in X /\ Depth[Parent[x]] < Depth[x]
  BY DepthFacts
<1>4. \E f \in [X -> Y] : \A x \in X :
        f[x] = IF x \in X \ A THEN base[x] ELSE step[<<x, f[Parent[x]]>>]
  <2> DEFINE B == X \ A
             N == Cardinality(Elements)
  <2>1. N \in Nat /\ Depth \in [X -> 0..N] /\ B \in SUBSET X
    BY DepthFacts
  <2>2. \A x \in X \ B : Parent[x] \in X /\ Depth[Parent[x]] < Depth[x]
    BY <1>3
  <2>3. Chained(X, Y, N, Depth, Parent, B, base, step)
    BY <1>1, <1>2, <2>1, <2>2 DEF Chained
  <2> HIDE DEF base, step, Y, X, N, B
  <2>4. \E f \in [X -> Y] : \A x \in X : f[x] = IF x \in B THEN base[x] ELSE step[<<x, f[Parent[x]]>>]
    BY <2>3, ChainRecursion
  <2> QED  BY <2>4 DEF B
<1>5. PICK f \in [X -> Y] : \A x \in X :
        f[x] = IF x \in X \ A THEN base[x] ELSE step[<<x, f[Parent[x]]>>]
  BY <1>4
<1>6. ASSUME NEW x \in X PROVE f[x] = IF x \in A THEN Append(f[Parent[x]], Name[x]) ELSE <<>>
  <2>1. CASE x \in A
    <3>1. Parent[x] \in X
      BY <2>1, DepthFacts
    <3>2. f[Parent[x]] \in Y
      BY <3>1
    <3>3. f[x] = step[<<x, f[Parent[x]]>>]
      BY <1>5, <2>1
    <3> HIDE DEF Y
    <3> QED  BY <2>1, <3>2, <3>3
  <2>2. CASE x \notin A
    BY <1>5, <2>2
  <2> QED  BY <2>1, <2>2
<1> QED  BY <1>6

LEMMA PathOfFacts ==
  ASSUME attached \subseteq Elements
  PROVE  /\ \A e \in Elements \cup {Root} : PathOf[e] \in Seq(Names)
         /\ \A e \in attached : PathOf[e] = Append(PathOf[Parent[e]], Name[e])
         /\ PathOf[Root] = <<>>
         /\ \A e \in Elements : e \notin attached => PathOf[e] = <<>>
<1> DEFINE X == Elements \cup {Root}
           Fit(f) == f = [e \in X |-> IF e \in attached THEN Append(f[Parent[e]], Name[e]) ELSE <<>>]
<1>1. PICK f \in [X -> Seq(Names)] : Fit(f)
  BY PathsOf
<1>2. PathOf = CHOOSE g : Fit(g)
  BY DEF PathOf
<1>3. Fit(PathOf)
  BY <1>1, <1>2
<1>4. PathOf[Root] = <<>>
  BY <1>3, DepthFacts
<1>5. \A e \in attached : PathOf[e] = Append(PathOf[Parent[e]], Name[e])
  BY <1>3
<1>6. \A e \in X : e \notin attached => PathOf[e] = <<>>
  BY <1>3
<1> DEFINE S == {e \in X : PathOf[e] \in Seq(Names)}
<1>7. \A e \in Elements : Parent[e] \in S => e \in S
  <2> SUFFICES ASSUME NEW e \in Elements, Parent[e] \in S PROVE PathOf[e] \in Seq(Names)
    OBVIOUS
  <2>1. Name[e] \in Names /\ PathOf[Parent[e]] \in Seq(Names)
    BY DEF Names
  <2>2. Append(PathOf[Parent[e]], Name[e]) \in Seq(Names) /\ <<>> \in Seq(Names)
    BY <2>1
  <2> QED  BY <1>5, <1>6, <2>2
<1>8. X \subseteq S
  <2>1. <<>> \in Seq(Names)
    OBVIOUS
  <2>2. Root \in S
    BY <1>4, <2>1
  <2> HIDE DEF S
  <2> QED  BY <1>7, <2>2, DepthInduction
<1> QED  BY <1>4, <1>5, <1>6, <1>8

LEMMA UpFacts ==
  /\ Up[Root] = {Root}
  /\ \A e \in Elements : Up[e] = {e} \cup Up[Parent[e]]
<1> DEFINE X == Elements \cup {Root}
           Y == SUBSET X
           Fit(f) == f = [e \in X |-> {e} \cup (IF e = Root THEN {} ELSE f[Parent[e]])]
           base == [x \in X |-> {x}]
           step == [z \in X \X Y |-> {z[1]} \cup z[2]]
<1>1. base \in [X -> Y] /\ step \in [X \X Y -> Y]
  OBVIOUS
<1>2. \A x \in X \ {Root} : Parent[x] \in X /\ Depth[Parent[x]] < Depth[x]
  BY DepthFacts
<1>3. \E f \in [X -> Y] : \A x \in X :
        f[x] = IF x \in {Root} THEN base[x] ELSE step[<<x, f[Parent[x]]>>]
  <2> DEFINE B == {Root}
             N == Cardinality(Elements)
  <2>1. N \in Nat /\ Depth \in [X -> 0..N] /\ B \in SUBSET X
    BY DepthFacts
  <2>2. \A x \in X \ B : Parent[x] \in X /\ Depth[Parent[x]] < Depth[x]
    BY <1>2
  <2>3. Chained(X, Y, N, Depth, Parent, B, base, step)
    BY <1>1, <2>1, <2>2 DEF Chained
  <2> HIDE DEF base, step, Y, X, N, B
  <2>4. \E f \in [X -> Y] : \A x \in X : f[x] = IF x \in B THEN base[x] ELSE step[<<x, f[Parent[x]]>>]
    BY <2>3, ChainRecursion
  <2> QED  BY <2>4 DEF B
<1>4. PICK f \in [X -> Y] : \A x \in X :
        f[x] = IF x \in {Root} THEN base[x] ELSE step[<<x, f[Parent[x]]>>]
  BY <1>3
<1>5. \A x \in X : f[x] = {x} \cup (IF x = Root THEN {} ELSE f[Parent[x]])
  BY <1>2, <1>4
<1>6. Fit(f)
  BY <1>5
<1>7. Up = CHOOSE g : Fit(g)
  BY DEF Up
<1>8. Fit(Up)
  BY <1>6, <1>7
<1> QED  BY <1>8, DepthFacts

-----------------------------------------------------------------------------
\* The models: what comes into one was there before.
Node == [name : Names, parent : Nat, shown : BOOLEAN]
NodesOK == nodes \in Seq(Node) /\ \A i \in 1..Len(nodes) : nodes[i].parent < i

\* The way down a path, and where it ends.
Start == [at |-> 0, lost |-> FALSE]
Down(place, name) ==
  IF place.lost \/ Named(place.at, name) = {} THEN [place EXCEPT !.lost = TRUE]
  ELSE [place EXCEPT !.at = Min(Named(place.at, name))]
Descent(path) == FoldLeft(Down, Start, path)
Places == [at : 0..Len(nodes), lost : BOOLEAN]

\* Locate is where that way ends.
LEMMA LocateIs == ASSUME NEW path PROVE Locate(path) = Descent(path).at
BY DEF Locate, Descent, Down, Start

\* The first model of a name is one of them.
LEMMA NamedFacts ==
  ASSUME NodesOK, NEW at, NEW name
  PROVE  /\ Named(at, name) \subseteq 1..Len(nodes)
         /\ Named(at, name) # {} => /\ Min(Named(at, name)) \in Named(at, name)
                                    /\ \A i \in Named(at, name) : Min(Named(at, name)) <= i
<1>1. Named(at, name) \subseteq 1..Len(nodes) /\ 1..Len(nodes) \subseteq Nat
  BY DEF NodesOK, Named
<1>2. Named(at, name) # {} => \E x \in Named(at, name) : \A y \in Named(at, name) : x <= y
  BY <1>1, LeastExists
<1> QED  BY <1>1, <1>2 DEF Min

LEMMA DownStays ==
  ASSUME NodesOK, NEW place \in Places, NEW name
  PROVE  Down(place, name) \in Places
<1>1. Len(nodes) \in Nat
  BY DEF NodesOK
<1>2. Named(place.at, name) # {} => Min(Named(place.at, name)) \in 0..Len(nodes)
  BY <1>1, NamedFacts
<1> QED  BY <1>2 DEF Down, Places

LEMMA MaxOfInterval ==
  ASSUME NEW n \in Nat
  PROVE  Max(1..(n + 1)) = n + 1 /\ (1..(n + 1)) \ {n + 1} = 1..n
<1>1. Max(1..(n + 1)) = n + 1
  <2>1. n + 1 \in 1..(n + 1) /\ \A y \in 1..(n + 1) : n + 1 >= y
    OBVIOUS
  <2>2. \A x \in 1..(n + 1) : (\A y \in 1..(n + 1) : x >= y) => x = n + 1
    BY <2>1
  <2> QED  BY <2>1, <2>2 DEF Max
<1> QED  BY <1>1

\* The function that the fold of a path is the last value of.
Fits(g, path) ==
  g = [d \in SUBSET DOMAIN path |->
         IF d = {} THEN Start ELSE Down(g[d \ {Max(d)}], path[Max(d)])]

LEMMA DescentIs ==
  ASSUME NodesOK, NEW path \in Seq(Names)
  PROVE  \E g : Fits(g, path) /\ Descent(path) = g[1..Len(path)]
<1> DEFINE n == Len(path)
           X == SUBSET (1..n)
           Y == Places
           up == [d \in X |-> d \ {Max(d)}]
           rank == [d \in X |-> Cardinality(d)]
           B == {{}}
           base == [d \in X |-> Start]
           step == [z \in X \X Y |-> Down(z[2], path[Max(z[1])])]
<1>1. n \in Nat /\ DOMAIN path = 1..n
  OBVIOUS
<1>2. \A d \in X : d # {} => Max(d) \in d
  <2> SUFFICES ASSUME NEW d \in SUBSET (1..n), d # {} PROVE Max(d) \in d
    OBVIOUS
  <2>1. \E x \in d : \A y \in d : x >= y
    BY <1>1, GreatestExists
  <2> QED  BY <2>1 DEF Max
<1>3. \A d \in X : IsFiniteSet(d) /\ Cardinality(d) \in 0..n
  <2> SUFFICES ASSUME NEW d \in SUBSET (1..n) PROVE IsFiniteSet(d) /\ Cardinality(d) \in 0..n
    OBVIOUS
  <2>1. IsFiniteSet(1..n) /\ Cardinality(1..n) = n
    <3>1. n \in Nat
      BY <1>1
    <3> HIDE DEF n
    <3> QED  BY <3>1, FS_Interval
  <2>2. IsFiniteSet(d) /\ Cardinality(d) <= n
    BY <2>1, FS_Subset
  <2> QED  BY <1>1, <2>2, FS_CardinalityType
<1>4. \A d \in X \ B : up[d] \in X /\ rank[up[d]] < rank[d]
  <2> SUFFICES ASSUME NEW d \in X, d # {} PROVE up[d] \in X /\ rank[up[d]] < rank[d]
    OBVIOUS
  <2>1. Max(d) \in d /\ d \ {Max(d)} \in X
    BY <1>2
  <2>2. Cardinality(d \ {Max(d)}) = Cardinality(d) - 1
    BY <1>3, <2>1, FS_RemoveElement
  <2>3. Cardinality(d) \in 0..n
    BY <1>3
  <2> HIDE DEF X
  <2> QED  BY <2>1, <2>2, <2>3
<1>5. base \in [X -> Y] /\ step \in [X \X Y -> Y]
  <2>1. Start \in Places
    BY DEF Start, Places, NodesOK
  <2>2. \A z \in X \X Y : Down(z[2], path[Max(z[1])]) \in Y
    BY DownStays
  <2> HIDE DEF X, Y
  <2> QED  BY <2>1, <2>2 DEF Y
<1>6. Chained(X, Y, n, rank, up, B, base, step)
  <2>1. rank \in [X -> 0..n] /\ B \subseteq X
    BY <1>3
  <2> HIDE DEF X, Y, rank, up, base, step, B
  <2> QED  BY <1>1, <1>4, <1>5, <2>1 DEF Chained
<1>7. PICK f \in [X -> Y] : \A d \in X : f[d] = IF d \in B THEN base[d] ELSE step[<<d, f[up[d]]>>]
  <2> HIDE DEF X, Y, rank, up, base, step, B
  <2> QED  BY <1>6, ChainRecursion
<1>8. \A d \in X : f[d] = IF d = {} THEN Start ELSE Down(f[d \ {Max(d)}], path[Max(d)])
  <2> SUFFICES ASSUME NEW d \in X
               PROVE  f[d] = IF d = {} THEN Start ELSE Down(f[d \ {Max(d)}], path[Max(d)])
    OBVIOUS
  <2>1. CASE d = {}
    BY <1>7, <2>1
  <2>2. CASE d # {}
    <3>1. up[d] = d \ {Max(d)} /\ up[d] \in X
      BY <1>4, <2>2
    <3>2. f[up[d]] \in Y
      BY <1>7, <3>1
    <3>3. f[d] = step[<<d, f[up[d]]>>]
      BY <1>7, <2>2
    <3>4. step[<<d, f[up[d]]>>] = Down(f[up[d]], path[Max(d)])
      <4> HIDE DEF X, Y, up
      <4> QED  BY <3>2
    <3> HIDE DEF X, Y, up, step
    <3> QED  BY <2>2, <3>1, <3>3, <3>4
  <2> QED  BY <2>1, <2>2
<1>9. Fits(f, path)
  BY <1>1, <1>7, <1>8 DEF Fits
<1> DEFINE iter == CHOOSE g : Fits(g, path)
<1>10. Fits(iter, path)
  BY <1>9
<1>11. Descent(path) = iter[DOMAIN path]
  BY DEF Descent, FoldLeft, MapThenFoldSet, Fits
<1> QED  BY <1>1, <1>10, <1>11

\* Its values on the prefixes of the path, one step down after the other.
LEMMA FitsSteps ==
  ASSUME NodesOK, NEW path \in Seq(Names), NEW g, Fits(g, path)
  PROVE  /\ g[1..0] = Start
         /\ \A n \in Nat : n + 1 <= Len(path) => g[1..(n + 1)] = Down(g[1..n], path[n + 1])
         /\ \A n \in Nat : n <= Len(path) => g[1..n] \in Places
<1>1. g[1..0] = Start
  <2>1. 1..0 = {} /\ {} \in SUBSET DOMAIN path
    OBVIOUS
  <2> QED  BY <2>1 DEF Fits
<1>2. ASSUME NEW n \in Nat, n + 1 <= Len(path) PROVE g[1..(n + 1)] = Down(g[1..n], path[n + 1])
  <2> DEFINE d == 1..(n + 1)
  <2>1. d \in SUBSET DOMAIN path /\ d # {}
    BY <1>2
  <2>2. Max(d) = n + 1 /\ d \ {n + 1} = 1..n
    BY MaxOfInterval
  <2> HIDE DEF d
  <2>3. g[d] = Down(g[d \ {Max(d)}], path[Max(d)])
    BY <2>1 DEF Fits
  <2> QED  BY <2>2, <2>3 DEF d
<1> DEFINE T == {n \in Nat : n <= Len(path) => g[1..n] \in Places}
<1>3. 0 \in T
  <2>1. Start \in Places
    BY DEF Start, Places, NodesOK
  <2> QED  BY <1>1, <2>1
<1>4. \A n \in Nat : n \in T => n + 1 \in T
  BY <1>2, DownStays
<1>5. Nat \subseteq T
  <2> HIDE DEF T
  <2> QED  BY <1>3, <1>4, SetInduction
<1> QED  BY <1>1, <1>2, <1>5

\* The way down a longer path goes one step further.
LEMMA DescentSteps ==
  ASSUME NodesOK
  PROVE  /\ Descent(<<>>) = Start
         /\ \A path \in Seq(Names), name \in Names :
              /\ Descent(path) \in Places
              /\ Descent(Append(path, name)) = Down(Descent(path), name)
<1>1. Descent(<<>>) = Start
  <2>1. <<>> \in Seq(Names) /\ Len(<<>>) = 0
    OBVIOUS
  <2> QED  BY <2>1, DescentIs, FitsSteps
<1>2. ASSUME NEW path \in Seq(Names), NEW name \in Names
      PROVE  Descent(path) \in Places /\ Descent(Append(path, name)) = Down(Descent(path), name)
  <2> DEFINE more == Append(path, name)
             N == Len(path)
  <2>1. /\ more \in Seq(Names) /\ Len(more) = N + 1 /\ more[N + 1] = name /\ N \in Nat
        /\ \A n \in 1..N : more[n] = path[n]
    OBVIOUS
  <2> HIDE DEF more
  <2>2. PICK g : Fits(g, path) /\ Descent(path) = g[1..N]
    BY DescentIs
  <2>3. PICK h : Fits(h, more) /\ Descent(more) = h[1..(N + 1)]
    BY <2>1, DescentIs
  <2> DEFINE T == {n \in Nat : n <= N => h[1..n] = g[1..n]}
  <2>4. 0 \in T
    BY <2>1, <2>2, <2>3, FitsSteps
  <2>5. ASSUME NEW n \in Nat, n \in T, n + 1 <= N PROVE h[1..(n + 1)] = g[1..(n + 1)]
    <3>1. g[1..(n + 1)] = Down(g[1..n], path[n + 1])
      BY <2>2, <2>5, FitsSteps
    <3>2. h[1..(n + 1)] = Down(h[1..n], more[n + 1])
      BY <2>1, <2>3, <2>5, FitsSteps
    <3>3. more[n + 1] = path[n + 1] /\ h[1..n] = g[1..n]
      BY <2>1, <2>5
    <3> QED  BY <3>1, <3>2, <3>3
  <2>6. Nat \subseteq T
    <3>1. \A n \in Nat : n \in T => n + 1 \in T
      BY <2>1, <2>5
    <3> HIDE DEF T
    <3> QED  BY <2>4, <3>1, SetInduction
  <2>7. h[1..N] = g[1..N]
    BY <2>1, <2>6
  <2>8. Descent(path) \in Places
    BY <2>1, <2>2, FitsSteps
  <2>9. Descent(more) = Down(h[1..N], name)
    BY <2>1, <2>3, FitsSteps
  <2> QED  BY <2>2, <2>7, <2>8, <2>9 DEF more
<1> QED  BY <1>1, <1>2

\* What the numbers, names and flags of the models are.
LEMMA NodesAre ==
  ASSUME NodesOK
  PROVE  /\ Len(nodes) \in Nat
         /\ \A i \in 1..Len(nodes) : /\ nodes[i] \in Node /\ nodes[i].parent \in 0..(i - 1)
                                     /\ nodes[i].shown \in BOOLEAN /\ nodes[i].name \in Names
<1>1. nodes \in Seq(Node) /\ \A i \in 1..Len(nodes) : nodes[i].parent < i
  BY DEF NodesOK
<1>2. Len(nodes) \in Nat /\ \A i \in 1..Len(nodes) : nodes[i] \in Node
  BY <1>1, LenProperties, ElementOfSeq
<1>3. ASSUME NEW i \in 1..Len(nodes)
      PROVE  nodes[i].parent \in 0..(i - 1) /\ nodes[i].shown \in BOOLEAN /\ nodes[i].name \in Names
  <2>1. /\ nodes[i].parent \in Nat /\ nodes[i].shown \in BOOLEAN /\ nodes[i].name \in Names
        /\ nodes[i].parent < i /\ i \in Nat
    BY <1>1, <1>2 DEF Node
  <2> QED  BY <2>1
<1> QED  BY <1>2, <1>3

\* What is shown, and its path: up the parents, which come before their children.
LEMMA VisibleFacts ==
  ASSUME NodesOK
  PROVE  /\ Visible[0]
         /\ \A i \in 1..Len(nodes) : nodes[i].shown /\ Visible[nodes[i].parent] => Visible[i]
         /\ \A i \in 1..Len(nodes) : Visible[i] => nodes[i].shown
<1> DEFINE n == Len(nodes)
           X == 0..n
           Fit(f) == f = [i \in X |-> i = 0 \/ (nodes[i].shown /\ f[nodes[i].parent])]
           rank == [i \in X |-> i]
           up == [i \in X |-> nodes[i].parent]
           B == {0}
           base == [i \in X |-> TRUE]
           step == [z \in X \X BOOLEAN |-> nodes[z[1]].shown /\ z[2]]
<1>1. n \in Nat /\ \A i \in 1..n : nodes[i].parent \in 0..(i - 1) /\ nodes[i].shown \in BOOLEAN
  BY NodesAre
<1>2. Chained(X, BOOLEAN, n, rank, up, B, base, step)
  <2>1. rank \in [X -> 0..n] /\ B \subseteq X /\ base \in [X -> BOOLEAN]
    BY <1>1
  <2>2. \A i \in X \ B : up[i] \in X /\ rank[up[i]] < rank[i]
    <3> SUFFICES ASSUME NEW i \in 1..n PROVE up[i] \in X /\ rank[up[i]] < rank[i]
      OBVIOUS
    <3>1. nodes[i].parent \in X /\ nodes[i].parent < i /\ i \in X
      BY <1>1
    <3> HIDE DEF X
    <3> QED  BY <3>1
  <2>3. step \in [X \X BOOLEAN -> BOOLEAN]
    OBVIOUS
  <2> HIDE DEF X, rank, up, base, step, B
  <2> QED  BY <1>1, <2>1, <2>2, <2>3 DEF Chained
<1>3. PICK f \in [X -> BOOLEAN] : \A i \in X : f[i] = IF i \in B THEN base[i] ELSE step[<<i, f[up[i]]>>]
  <2> HIDE DEF X, rank, up, base, step, B
  <2> QED  BY <1>2, ChainRecursion
<1>4. \A i \in X : f[i] = (i = 0 \/ (nodes[i].shown /\ f[nodes[i].parent]))
  <2> SUFFICES ASSUME NEW i \in X PROVE f[i] = (i = 0 \/ (nodes[i].shown /\ f[nodes[i].parent]))
    OBVIOUS
  <2>1. CASE i = 0
    BY <1>3, <2>1
  <2>2. CASE i # 0
    <3>1. up[i] \in X /\ up[i] = nodes[i].parent
      BY <1>1, <2>2
    <3>2. f[i] = step[<<i, f[up[i]]>>] /\ f[up[i]] \in BOOLEAN
      BY <1>3, <2>2, <3>1
    <3>3. step[<<i, f[up[i]]>>] = (nodes[i].shown /\ f[up[i]])
      <4> HIDE DEF X, up
      <4> QED  BY <3>2
    <3> QED  BY <2>2, <3>1, <3>2, <3>3
  <2> QED  BY <2>1, <2>2
<1>5. Fit(f)
  <2>1. f = [i \in X |-> f[i]]
    BY <1>3
  <2> HIDE DEF X
  <2> QED  BY <1>4, <2>1
<1>6. Visible = CHOOSE f_1 : Fit(f_1)
  BY DEF Visible
<1>7. Fit(Visible)
  BY <1>5, <1>6
<1>8. \A i \in X : Visible[i] = (i = 0 \/ (nodes[i].shown /\ Visible[nodes[i].parent]))
  BY <1>7
<1>9. 0 \in X /\ \A i \in 1..n : i \in X /\ i # 0
  BY <1>1
<1> HIDE DEF X
<1>10. Visible[0]
  BY <1>8, <1>9
<1>11. \A i \in 1..n : nodes[i].shown /\ Visible[nodes[i].parent] => Visible[i]
  BY <1>8, <1>9
<1>12. \A i \in 1..n : Visible[i] => nodes[i].shown
  BY <1>8, <1>9
<1> QED  BY <1>10, <1>11, <1>12

LEMMA PathShownFacts ==
  ASSUME NodesOK
  PROVE  /\ PathShown[0] = <<>>
         /\ \A i \in 1..Len(nodes) : PathShown[i] = Append(PathShown[nodes[i].parent], nodes[i].name)
<1> DEFINE n == Len(nodes)
           X == 0..n
           Y == Seq(Names)
           Fit(f) == f = [i \in X |-> IF i = 0 THEN <<>> ELSE Append(f[nodes[i].parent], nodes[i].name)]
           rank == [i \in X |-> i]
           up == [i \in X |-> nodes[i].parent]
           B == {0}
           base == [i \in X |-> <<>>]
           step == [z \in X \X Y |-> IF z[1] = 0 THEN <<>> ELSE Append(z[2], nodes[z[1]].name)]
<1>1. n \in Nat /\ \A i \in 1..n : nodes[i].parent \in 0..(i - 1) /\ nodes[i].name \in Names
  BY NodesAre
<1>2. Chained(X, Y, n, rank, up, B, base, step)
  <2>1. rank \in [X -> 0..n] /\ B \subseteq X /\ base \in [X -> Y]
    BY <1>1
  <2>2. \A i \in X \ B : up[i] \in X /\ rank[up[i]] < rank[i]
    <3> SUFFICES ASSUME NEW i \in 1..n PROVE up[i] \in X /\ rank[up[i]] < rank[i]
      OBVIOUS
    <3>1. nodes[i].parent \in X /\ nodes[i].parent < i /\ i \in X
      BY <1>1
    <3> HIDE DEF X
    <3> QED  BY <3>1
  <2>3. step \in [X \X Y -> Y]
    <3>1. ASSUME NEW i \in X, NEW y \in Y PROVE (IF i = 0 THEN <<>> ELSE Append(y, nodes[i].name)) \in Y
      <4>1. i # 0 => nodes[i].name \in Names
        BY <1>1
      <4> QED  BY <4>1
    <3> HIDE DEF X, Y
    <3> QED  BY <3>1
  <2> HIDE DEF X, Y, rank, up, base, step, B
  <2> QED  BY <1>1, <2>1, <2>2, <2>3 DEF Chained
<1>3. PICK f \in [X -> Y] : \A i \in X : f[i] = IF i \in B THEN base[i] ELSE step[<<i, f[up[i]]>>]
  <2> HIDE DEF X, Y, rank, up, base, step, B
  <2> QED  BY <1>2, ChainRecursion
<1>4. ASSUME NEW i \in X PROVE f[i] = IF i = 0 THEN <<>> ELSE Append(f[nodes[i].parent], nodes[i].name)
  <2>1. CASE i = 0
    BY <1>3, <2>1
  <2>2. CASE i # 0
    <3>1. up[i] \in X /\ up[i] = nodes[i].parent
      BY <1>1, <2>2
    <3>2. f[i] = step[<<i, f[up[i]]>>] /\ f[up[i]] \in Y
      BY <1>3, <2>2, <3>1
    <3>3. step[<<i, f[up[i]]>>] = Append(f[up[i]], nodes[i].name)
      <4> HIDE DEF X, Y, up
      <4> QED  BY <2>2, <3>2
    <3> QED  BY <2>2, <3>1, <3>2, <3>3
  <2> QED  BY <2>1, <2>2
<1>5. Fit(f)
  <2>1. f = [i \in X |-> f[i]]
    BY <1>3
  <2> HIDE DEF X
  <2> QED  BY <1>4, <2>1
<1>6. PathShown = CHOOSE f_1 : Fit(f_1)
  BY DEF PathShown
<1>7. Fit(PathShown)
  BY <1>5, <1>6
<1>8. \A i \in X : PathShown[i] = IF i = 0 THEN <<>> ELSE Append(PathShown[nodes[i].parent], nodes[i].name)
  BY <1>7
<1>9. 0 \in X /\ \A i \in 1..n : i \in X /\ i # 0
  BY <1>1
<1> HIDE DEF X
<1>10. PathShown[0] = <<>>
  BY <1>8, <1>9
<1>11. \A i \in 1..n : PathShown[i] = Append(PathShown[nodes[i].parent], nodes[i].name)
  BY <1>8, <1>9
<1> QED  BY <1>10, <1>11

\* The path an element has in the pipeline.
LEMMA PathInFacts ==
  /\ \A e \in Elements \cup {Root} : PathIn[e] \in Seq(Names)
  /\ PathIn[Root] = <<>>
  /\ \A e \in Elements : PathIn[e] = Append(PathIn[Parent[e]], Name[e])
<1> DEFINE X == Elements \cup {Root}
           Fit(f) == f = [e \in X |-> IF e = Root THEN <<>> ELSE Append(f[Parent[e]], Name[e])]
<1>1. PICK f \in [X -> Seq(Names)] :
        f = [e \in X |-> IF e \in Elements THEN Append(f[Parent[e]], Name[e]) ELSE <<>>]
  BY PathsOf
<1>2. \A e \in X : e \in Elements <=> e # Root
  BY DepthFacts
<1>3. Fit(f)
  BY <1>1, <1>2
<1>4. PathIn = CHOOSE g : Fit(g)
  BY DEF PathIn
<1>5. Fit(PathIn)
  BY <1>3, <1>4
<1>6. PathIn[Root] = <<>> /\ \A e \in Elements : PathIn[e] = Append(PathIn[Parent[e]], Name[e])
  BY <1>2, <1>5
<1> DEFINE S == {e \in X : PathIn[e] \in Seq(Names)}
<1>7. \A e \in Elements : Parent[e] \in S => e \in S
  <2> SUFFICES ASSUME NEW e \in Elements, Parent[e] \in S PROVE PathIn[e] \in Seq(Names)
    OBVIOUS
  <2>1. Name[e] \in Names /\ PathIn[Parent[e]] \in Seq(Names)
    BY DEF Names
  <2>2. Append(PathIn[Parent[e]], Name[e]) \in Seq(Names)
    BY <2>1
  <2> QED  BY <1>6, <2>2
<1>8. X \subseteq S
  <2>1. <<>> \in Seq(Names)
    OBVIOUS
  <2>2. Root \in S
    BY <1>6, <2>1
  <2> HIDE DEF S
  <2> QED  BY <1>7, <2>2, DepthInduction
<1> QED  BY <1>6, <1>8

\* Of what is connected it is the path that is sent.
LEMMA PathOfConnected ==
  ASSUME attached \subseteq Elements, NEW D \in SUBSET attached, \A e \in D : Parent[e] \in D \cup {Root}
  PROVE  \A e \in D \cup {Root} : PathOf[e] = PathIn[e]
<1> DEFINE S == {e \in Elements \cup {Root} : e \in D \cup {Root} => PathOf[e] = PathIn[e]}
<1>1. Root \in S
  BY PathOfFacts, PathInFacts
<1>2. \A e \in Elements : Parent[e] \in S => e \in S
  BY PathOfFacts, PathInFacts
<1>3. Elements \cup {Root} \subseteq S
  <2> HIDE DEF S
  <2> QED  BY <1>1, <1>2, DepthInduction
<1> QED  BY <1>3

-----------------------------------------------------------------------------
\* Where the debugger finds an element by that path, if it finds it.
Way(e) == Descent(PathIn[e])
Known(e) == ~Way(e).lost
WaysOK ==
  /\ Way(Root) = Start
  /\ \A e \in Elements \cup {Root} : Way(e) \in Places
  /\ \A e \in Elements : Way(e) = Down(Way(Parent[e]), Name[e])
ShownOK == \A e \in Elements \cup {Root} :
  Known(e) => Visible[Way(e).at] /\ PathShown[Way(e).at] = PathIn[e]

LEMMA WaysAre == NodesOK => WaysOK
<1> SUFFICES ASSUME NodesOK PROVE WaysOK
  OBVIOUS
<1>1. ASSUME NEW e \in Elements
      PROVE  Way(e) \in Places /\ Way(e) = Down(Way(Parent[e]), Name[e])
  <2>1. /\ PathIn[Parent[e]] \in Seq(Names) /\ Name[e] \in Names
        /\ PathIn[e] = Append(PathIn[Parent[e]], Name[e]) /\ PathIn[e] \in Seq(Names)
    BY PathInFacts, DepthFacts DEF Names
  <2>2. Descent(PathIn[e]) \in Places
    BY <2>1, DescentSteps
  <2> QED  BY <2>1, <2>2, DescentSteps DEF Way
<1>2. Way(Root) = Start /\ Start \in Places
  BY PathInFacts, DescentSteps DEF Way, Start, Places, NodesOK
<1> QED  BY <1>1, <1>2 DEF WaysOK

\* An element is known if its bin is, and something is in it by that name.
LEMMA KnownIs ==
  ASSUME NodesOK, NEW e \in Elements
  PROVE  LET same == Named(Way(Parent[e]).at, Name[e])
         IN /\ Known(e) <=> Known(Parent[e]) /\ same # {}
            /\ Known(e) => Way(e).at = Min(same)
<1>1. Way(Parent[e]) \in Places /\ Way(e) = Down(Way(Parent[e]), Name[e])
  BY WaysAre, DepthFacts DEF WaysOK
<1> QED  BY <1>1 DEF Known, Down, Places

LEMMA ShownIs == NodesOK => ShownOK
<1> SUFFICES ASSUME NodesOK PROVE ShownOK
  OBVIOUS
<1> DEFINE S == {e \in Elements \cup {Root} :
                   Known(e) => Visible[Way(e).at] /\ PathShown[Way(e).at] = PathIn[e]}
<1>1. Root \in S
  BY WaysAre, VisibleFacts, PathShownFacts, PathInFacts DEF WaysOK, Start
<1>2. ASSUME NEW e \in Elements, Parent[e] \in S, Known(e)
      PROVE  Visible[Way(e).at] /\ PathShown[Way(e).at] = PathIn[e]
  <2> DEFINE b == Way(Parent[e]).at
             i == Way(e).at
  <2>1. Known(Parent[e]) /\ i \in Named(b, Name[e]) /\ i \in 1..Len(nodes)
    BY <1>2, KnownIs, NamedFacts
  <2>2. nodes[i].name = Name[e] /\ nodes[i].parent = b /\ nodes[i].shown
    BY <2>1 DEF Named
  <2>3. Visible[b] /\ PathShown[b] = PathIn[Parent[e]]
    BY <1>2, <2>1
  <2> HIDE DEF b, i
  <2>4. Visible[i]
    BY <2>1, <2>2, <2>3, VisibleFacts
  <2>5. PathShown[i] = PathIn[e]
    BY <2>1, <2>2, <2>3, PathShownFacts, PathInFacts
  <2> QED  BY <2>4, <2>5 DEF i
<1>3. Elements \cup {Root} \subseteq S
  <2> HIDE DEF S
  <2> QED  BY <1>1, <1>2, DepthInduction DEF S
<1> QED  BY <1>3 DEF ShownOK

\* What is found stays found, and where it was, unless a name on the way to it
\* is hidden.
LEMMA KnownStays ==
  ASSUME NodesOK, NodesOK', NEW D \in SUBSET Elements, \A e \in D : Parent[e] \in D \cup {Root},
         \A e \in D, at \in Nat : at = Way(Parent[e]).at /\ Known(Parent[e]) /\ Named(at, Name[e]) # {} =>
           Named(at, Name[e])' # {} /\ Min(Named(at, Name[e])') = Min(Named(at, Name[e]))
  PROVE  \A e \in D \cup {Root} : Known(e) => Known(e)' /\ Way(e)' = Way(e)
<1>0. WaysOK /\ WaysOK'
  <2>1. NodesOK' => WaysOK'
    BY WaysAre, PTL
  <2> QED  BY <2>1, WaysAre
<1> DEFINE S == {e \in Elements \cup {Root} :
                   e \in D \cup {Root} => (Known(e) => Known(e)' /\ Way(e)' = Way(e))}
<1>1. Root \in S
  BY <1>0 DEF WaysOK, Known, Start
<1>2. ASSUME NEW e \in D, Parent[e] \in S, Known(e) PROVE Known(e)' /\ Way(e)' = Way(e)
  <2>1. Known(Parent[e]) /\ Named(Way(Parent[e]).at, Name[e]) # {}
    BY <1>2, KnownIs
  <2>2. Way(Parent[e]) \in Places /\ Way(Parent[e]).at \in Nat
    <3>1. Way(Parent[e]) \in Places /\ Len(nodes) \in Nat
      BY <1>0, DepthFacts, NodesAre DEF WaysOK
    <3> QED  BY <3>1 DEF Places
  <2>3. PICK w : w = Way(Parent[e])
    OBVIOUS
  <2>4. ~w.lost /\ Way(Parent[e])' = w /\ w.at \in Nat
    BY <1>2, <2>1, <2>2, <2>3 DEF Known
  <2>5. PICK at \in Nat : at = w.at
    BY <2>4
  <2>6. Named(at, Name[e]) # {}
    BY <2>1, <2>3, <2>5
  <2>7. Named(at, Name[e])' # {} /\ Min(Named(at, Name[e])') = Min(Named(at, Name[e]))
    BY <2>1, <2>3, <2>5, <2>6
  <2>8. Way(e) = [w EXCEPT !.at = Min(Named(at, Name[e]))]
    BY <1>0, <2>3, <2>4, <2>5, <2>6 DEF WaysOK, Down
  <2>9. Way(e)' = Down(w, Name[e])'
    BY <1>0, <2>4 DEF WaysOK
  <2>10. Way(e)' = [w EXCEPT !.at = Min(Named(at, Name[e])')]
    BY <2>4, <2>5, <2>7, <2>9 DEF Down
  <2> QED  BY <1>2, <2>7, <2>8, <2>10 DEF Known
<1>3. Elements \cup {Root} \subseteq S
  <2>1. \A e \in Elements : Parent[e] \in S => e \in S
    <3> SUFFICES ASSUME NEW e \in Elements, Parent[e] \in S PROVE e \in S
      OBVIOUS
    <3>1. e \in D /\ Known(e) => Known(e)' /\ Way(e)' = Way(e)
      BY <1>2
    <3>2. e # Root
      BY DepthFacts
    <3> QED  BY <3>1, <3>2
  <2> HIDE DEF S
  <2> QED  BY <1>1, <2>1, DepthInduction
<1> QED  BY <1>3

-----------------------------------------------------------------------------
Task == [op : {"none", "added", "removing", "unpadding"}, of : Elements \cup {Root}, pads : SUBSET Pads]

\* What a thread has begun is still there, and what is being taken from an
\* element has no link.
TaskOK(t) ==
  \/ task[t] = Nothing
  \/ task[t].op \in {"added", "removing"} /\ task[t].of \in attached
  \/ /\ task[t].op = "unpadding" /\ task[t].of \in Elements /\ task[t].pads \subseteq pads
     /\ \A p \in task[t].pads : p.of = task[t].of /\ ~Linked(p)

\* The pipeline and its threads; nobody has begun with what another one has in
\* hand.
PipelineOK ==
  /\ attached \subseteq Elements /\ pads \subseteq Pads /\ links \subseteq Pairs
  /\ \A l \in links : {l[1], l[2]} \subseteq pads
  /\ task \in [Threads -> Task]
  /\ \A t \in Threads : TaskOK(t)
  /\ \A t, u \in Threads : task[t].of = task[u].of => t = u \/ task[t].of = Root

\* What the server thread holds.
Visits == [op : {"element", "pads", "bin"}, of : Elements \cup {Root}, seen : SUBSET (Pads \cup Elements)]
WalkOK ==
  /\ phase \in {"idle", "walk", "aborted"}
  /\ walk \in Seq(Visits)
  /\ srcs \in Seq({p \in Pads : p.dir = "src"})
  /\ found \in Seq(Pairs)

\* Pads of the mirror are pads of something in it.
PeersOK == \A p \in DOMAIN peer : /\ p \in PadModel /\ p.of <= Len(nodes)
                                  /\ peer[p] = NoPad \/ peer[p].dir # p.dir

RestOK ==
  /\ steady \subseteq Elements /\ refused \subseteq Pairs /\ unlinked \in BOOLEAN
  /\ changes \in 0..MaxChanges /\ requests \in 0..MaxRequests

SoundOK == PipelineOK /\ WalkOK /\ NodesOK /\ PeersOK /\ RestOK

LEMMA PadFacts ==
  /\ \A p \in Pads : p.of \in Elements /\ p.dir \in {"src", "sink"}
  /\ \A l \in Pairs : /\ l[1] \in Pads /\ l[2] \in Pads /\ l[1].dir = "src" /\ l[2].dir = "sink"
                      /\ l = <<l[1], l[2]>> /\ l[1].of # l[2].of
<1>1. \A p \in Pads : p \in [of : Elements, dir : {"src", "sink"}]
  BY PadsAssumption
<1>2. \A p \in Pads : p.of \in Elements /\ p.dir \in {"src", "sink"}
  BY <1>1
<1>3. \A l \in Pairs : /\ l[1] \in Pads /\ l[2] \in Pads /\ l[1].dir = "src" /\ l[2].dir = "sink"
                       /\ l = <<l[1], l[2]>> /\ l[1].of # l[2].of
  BY DEF Pairs
<1> QED  BY <1>2, <1>3

LEMMA PipelineInit == Init => PipelineOK
<1> SUFFICES ASSUME Init PROVE PipelineOK
  OBVIOUS
<1>1. Nothing \in Task
  BY DEF Nothing, Task
<1>2. task = [t \in Threads |-> Nothing]
  BY DEF Init
<1>3. task \in [Threads -> Task] /\ \A t \in Threads : task[t] = Nothing
  BY <1>1, <1>2
<1> QED  BY <1>3 DEF Init, PipelineOK, TaskOK, Nothing

\* A thread begins with what is in nobody's hand, and lets go of it.
LEMMA TasksStay ==
  ASSUME PipelineOK, NEW t \in Threads, NEW x \in Task, task' = [task EXCEPT ![t] = x],
         x = Nothing \/ \A u \in Threads : task[u].of # x.of
  PROVE  /\ task' \in [Threads -> Task] /\ task'[t] = x
         /\ \A u \in Threads : u # t => task'[u] = task[u]
         /\ \A v, u \in Threads : task'[v].of = task'[u].of => v = u \/ task'[v].of = Root
<1>1. /\ task' \in [Threads -> Task] /\ task'[t] = x
      /\ \A u \in Threads : u # t => task'[u] = task[u]
  BY DEF PipelineOK
<1>2. x = Nothing => x.of = Root
  BY DEF Nothing
<1>3. \A v, u \in Threads : task[v].of = task[u].of => v = u \/ task[v].of = Root
  BY DEF PipelineOK
<1> HIDE DEF PipelineOK
<1>4. ASSUME NEW v \in Threads, NEW u \in Threads, task'[v].of = task'[u].of, v # u
      PROVE  task'[v].of = Root
  <2>1. CASE v = t
    BY <1>1, <1>2, <1>4, <2>1
  <2>2. CASE u = t
    BY <1>1, <1>2, <1>4, <2>2
  <2>3. CASE v # t /\ u # t
    BY <1>1, <1>3, <1>4, <2>3
  <2> QED  BY <2>1, <2>2, <2>3
<1> QED  BY <1>1, <1>4

\* What a thread has begun with is not touched by what others do.
LEMMA TaskStays ==
  ASSUME NEW t, TaskOK(t), UNCHANGED task[t],
         task[t].of \in attached => task[t].of \in attached',
         task[t].op = "unpadding" => task[t].pads \cap pads \subseteq pads'
                                     /\ \A p \in task[t].pads : Linked(p)' => Linked(p)
  PROVE  TaskOK(t)'
BY DEF TaskOK

LEMMA ChangerKeepsPipeline ==
  ASSUME PipelineOK, NEW t \in Threads, Changer(t)
  PROVE  PipelineOK'
<1> USE DEF PipelineOK
<1>0. Nothing \in Task /\ Nothing.of = Root /\ \A e \in Elements : e # Root
  BY DepthFacts DEF Nothing, Task
<1>1. ASSUME NEW e \in Elements, Attach(t, e) PROVE PipelineOK'
  <2> DEFINE x == [op |-> "added", of |-> e, pads |-> {}]
  <2>1. /\ task' = [task EXCEPT ![t] = x] /\ x \in Task /\ x.of = e
        /\ attached' = attached \cup {e} /\ UNCHANGED <<pads, links>>
        /\ \A u \in Threads : task[u].of # e
    BY <1>1 DEF Attach, Begins, Task
  <2>2. x.op = "added"
    OBVIOUS
  <2> HIDE DEF x
  <2>3. /\ task' \in [Threads -> Task] /\ task'[t] = x
        /\ \A u \in Threads : u # t => task'[u] = task[u]
        /\ \A v, u \in Threads : task'[v].of = task'[u].of => v = u \/ task'[v].of = Root
    BY <2>1, TasksStay
  <2>4. ASSUME NEW u \in Threads PROVE TaskOK(u)'
    <3>1. CASE u = t
      BY <2>1, <2>2, <2>3, <3>1 DEF TaskOK
    <3>2. CASE u # t
      <4>1. TaskOK(u) /\ UNCHANGED task[u] /\ \A p : Linked(p)' => Linked(p)
        BY <2>1, <2>3, <3>2 DEF Linked
      <4> QED  BY <2>1, <4>1, TaskStays
    <3> QED  BY <3>1, <3>2
  <2> QED  BY <2>1, <2>3, <2>4
<1>2. ASSUME NEW e \in Elements, BinRemovePre(t, e) PROVE PipelineOK'
  <2> DEFINE x == [op |-> "removing", of |-> e, pads |-> {}]
  <2>1. /\ task' = [task EXCEPT ![t] = x] /\ x \in Task /\ x.of = e
        /\ e \in attached /\ UNCHANGED <<attached, pads, links>>
        /\ \A u \in Threads : task[u].of # e
    BY <1>2 DEF BinRemovePre, Begins, Task, pipelineVars
  <2>2. x.op = "removing"
    OBVIOUS
  <2> HIDE DEF x
  <2>3. /\ task' \in [Threads -> Task] /\ task'[t] = x
        /\ \A u \in Threads : u # t => task'[u] = task[u]
        /\ \A v, u \in Threads : task'[v].of = task'[u].of => v = u \/ task'[v].of = Root
    BY <2>1, TasksStay
  <2>4. ASSUME NEW u \in Threads PROVE TaskOK(u)'
    <3>1. CASE u = t
      BY <2>1, <2>2, <2>3, <3>1 DEF TaskOK
    <3>2. CASE u # t
      <4>1. TaskOK(u) /\ UNCHANGED task[u] /\ \A p : Linked(p)' => Linked(p)
        BY <2>1, <2>3, <3>2 DEF Linked
      <4> QED  BY <2>1, <4>1, TaskStays
    <3> QED  BY <3>1, <3>2
  <2> QED  BY <2>1, <2>3, <2>4
<1>3. ASSUME NEW p \in Pads, ElementAddPad(t, p) PROVE PipelineOK'
  <2>1. pads' = pads \cup {p} /\ UNCHANGED <<attached, links, task>>
    BY <1>3 DEF ElementAddPad
  <2>2. \A u \in Threads : TaskOK(u)'
    <3>1. \A q : Linked(q)' => Linked(q)
      BY <2>1 DEF Linked
    <3> QED  BY <2>1, <3>1, TaskStays
  <2> QED  BY <2>1, <2>2
<1>4. ASSUME NEW p \in Pads, ElementRemovePad(t, p) PROVE PipelineOK'
  <2> DEFINE x == [op |-> "unpadding", of |-> p.of, pads |-> {p}]
  <2>1. p.of \in Elements
    BY PadFacts
  <2>2. /\ task' = [task EXCEPT ![t] = x] /\ x \in Task
        /\ UNCHANGED <<attached, pads, links>> /\ p \in pads /\ ~Linked(p)
        /\ \A u \in Threads : task[u].of # x.of
    BY <1>4, <2>1 DEF ElementRemovePad, Begins, Task, pipelineVars
  <2>3. x.op = "unpadding" /\ x.pads = {p} /\ x.of = p.of
    OBVIOUS
  <2> HIDE DEF x
  <2>4. /\ task' \in [Threads -> Task] /\ task'[t] = x
        /\ \A u \in Threads : u # t => task'[u] = task[u]
        /\ \A v, u \in Threads : task'[v].of = task'[u].of => v = u \/ task'[v].of = Root
    BY <2>2, TasksStay
  <2>5. \A q : Linked(q)' <=> Linked(q)
    BY <2>2 DEF Linked
  <2>6. ASSUME NEW u \in Threads PROVE TaskOK(u)'
    <3>1. CASE u = t
      BY <2>1, <2>2, <2>3, <2>4, <2>5, <3>1 DEF TaskOK
    <3>2. CASE u # t
      <4>1. TaskOK(u) /\ UNCHANGED task[u]
        BY <2>4, <3>2
      <4> QED  BY <2>2, <2>5, <4>1, TaskStays
    <3> QED  BY <3>1, <3>2
  <2> QED  BY <2>2, <2>4, <2>6
<1>5. ASSUME NEW l \in Pairs, PadLinkPost(t, l) PROVE PipelineOK'
  <2>1. /\ UNCHANGED <<attached, pads, task>> /\ {l[1], l[2]} \subseteq pads
        /\ links' = links \/ links' = links \cup {l}
        /\ \A u \in Threads : task[u].of \notin Ends(l)
    BY <1>5 DEF PadLinkPost
  <2>2. ASSUME NEW u \in Threads PROVE TaskOK(u)'
    <3>1. \A p : Linked(p)' => Linked(p) \/ p \in {l[1], l[2]}
      BY <2>1 DEF Linked
    <3>2. task[u].op = "unpadding" => \A p \in task[u].pads : Linked(p)' => Linked(p)
      <4>1. TaskOK(u) /\ Nothing.op # "unpadding"
        BY DEF Nothing
      <4>2. task[u].op = "unpadding" => \A p \in task[u].pads : p.of = task[u].of
        BY <4>1 DEF TaskOK
      <4> QED  BY <2>1, <3>1, <4>2 DEF Ends
    <3> QED  BY <2>1, <3>2, TaskStays
  <2> QED  BY <2>1, <2>2
<1>6. ASSUME NEW l \in links, UNCHANGED <<attached, pads, task>>, links' = links \ {l} PROVE PipelineOK'
  <2>1. ASSUME NEW u \in Threads PROVE TaskOK(u)'
    <3>1. \A p : Linked(p)' => Linked(p)
      BY <1>6 DEF Linked
    <3> QED  BY <1>6, <3>1, TaskStays
  <2> QED  BY <1>6, <2>1
<1>7. ASSUME NEW l \in Pairs, PadUnlinkPost(t, l) PROVE PipelineOK'
  BY <1>6, <1>7 DEF PadUnlinkPost, Unlink
<1>8. CASE RemoveUnlinks(t)
  BY <1>6, <1>8 DEF RemoveUnlinks, Unlink
<1>9. CASE BinAddPost(t)
  <2>1. task' = [task EXCEPT ![t] = Nothing] /\ UNCHANGED <<attached, pads, links>>
    BY <1>9 DEF BinAddPost, pipelineVars
  <2>2. /\ task' \in [Threads -> Task] /\ task'[t] = Nothing
        /\ \A u \in Threads : u # t => task'[u] = task[u]
        /\ \A v, u \in Threads : task'[v].of = task'[u].of => v = u \/ task'[v].of = Root
    BY <1>0, <2>1, TasksStay
  <2>3. ASSUME NEW u \in Threads PROVE TaskOK(u)'
    <3>1. CASE u = t
      BY <2>2, <3>1 DEF TaskOK
    <3>2. CASE u # t
      <4>1. TaskOK(u) /\ UNCHANGED task[u] /\ \A p : Linked(p)' => Linked(p)
        BY <2>1, <2>2, <3>2 DEF Linked
      <4> QED  BY <2>1, <4>1, TaskStays
    <3> QED  BY <3>1, <3>2
  <2> QED  BY <2>1, <2>2, <2>3
<1>10. CASE Detach(t)
  <2>1. /\ task' = [task EXCEPT ![t] = Nothing] /\ UNCHANGED <<pads, links>>
        /\ attached' = attached \ {task[t].of} /\ task[t].op = "removing"
    BY <1>10 DEF Detach
  <2>2. /\ task' \in [Threads -> Task] /\ task'[t] = Nothing
        /\ \A u \in Threads : u # t => task'[u] = task[u]
        /\ \A v, u \in Threads : task'[v].of = task'[u].of => v = u \/ task'[v].of = Root
    BY <1>0, <2>1, TasksStay
  <2>3. ASSUME NEW u \in Threads PROVE TaskOK(u)'
    <3>1. CASE u = t
      BY <2>2, <3>1 DEF TaskOK
    <3>2. CASE u # t
      <4>1. TaskOK(u) /\ UNCHANGED task[u] /\ \A p : Linked(p)' => Linked(p)
        BY <2>1, <2>2, <3>2 DEF Linked
      <4>2. task[u].of \in attached => task[u].of # task[t].of
        BY <1>0, <3>2
      <4> QED  BY <2>1, <4>1, <4>2, TaskStays
    <3> QED  BY <3>1, <3>2
  <2> QED  BY <2>1, <2>2, <2>3
<1>11. CASE PadGone(t)
  <2>1. /\ task' = [task EXCEPT ![t] = Nothing] /\ UNCHANGED <<attached, links>>
        /\ pads' = pads \ task[t].pads /\ task[t].op = "unpadding"
    BY <1>11 DEF PadGone
  <2>2. /\ task' \in [Threads -> Task] /\ task'[t] = Nothing
        /\ \A u \in Threads : u # t => task'[u] = task[u]
        /\ \A v, u \in Threads : task'[v].of = task'[u].of => v = u \/ task'[v].of = Root
    BY <1>0, <2>1, TasksStay
  <2>3. \A p \in task[t].pads : p.of = task[t].of /\ ~Linked(p)
    BY <2>1 DEF TaskOK, Nothing
  <2>4. ASSUME NEW u \in Threads PROVE TaskOK(u)'
    <3>1. CASE u = t
      BY <2>2, <3>1 DEF TaskOK
    <3>2. CASE u # t
      <4>1. TaskOK(u) /\ UNCHANGED task[u] /\ \A p : Linked(p)' => Linked(p)
        BY <2>1, <2>2, <3>2 DEF Linked
      <4>2. task[u].op = "unpadding" =>
              task[u].of \in Elements /\ \A p \in task[u].pads : p.of = task[u].of
        BY <4>1 DEF TaskOK, Nothing
      <4>3. task[u].op = "unpadding" => task[u].of # task[t].of
        BY <1>0, <3>2, <4>2
      <4>4. task[u].op = "unpadding" => task[u].pads \cap pads \subseteq pads'
        BY <2>1, <2>3, <4>2, <4>3
      <4> QED  BY <2>1, <4>1, <4>4, TaskStays
    <3> QED  BY <3>1, <3>2
  <2>5. \A l \in links : {l[1], l[2]} \subseteq pads'
    BY <2>1, <2>3 DEF Linked
  <2> QED  BY <2>1, <2>2, <2>4, <2>5
<1> QED  BY <1>1, <1>2, <1>3, <1>4, <1>5, <1>7, <1>8, <1>9, <1>10, <1>11 DEF Changer

LEMMA PipelineStep == PipelineOK /\ [Next]_vars => PipelineOK'
<1> SUFFICES ASSUME PipelineOK, [Next]_vars PROVE PipelineOK'
  OBVIOUS
<1>1. CASE \E t \in Threads : Changer(t)
  BY <1>1, ChangerKeepsPipeline
<1>2. CASE Server \/ UNCHANGED vars
  <2>1. UNCHANGED <<attached, pads, links, task>>
    BY <1>2 DEF Server, Request, SendElement, SendPad, NextElement, TakeLink, SendLink, WalkEnds,
       vars, pipelineVars
  <2>2. \A t \in Threads : TaskOK(t)'
    BY <2>1 DEF TaskOK, Linked, PipelineOK
  <2> QED  BY <2>1, <2>2 DEF PipelineOK
<1> QED  BY <1>1, <1>2 DEF Next

-----------------------------------------------------------------------------
\* The walk of the server thread.

LEMMA FrontFacts ==
  ASSUME NEW S, NEW s \in Seq(S), s # <<>>
  PROVE  /\ Front(s) \in Seq(S) /\ Last(s) \in S /\ Last(s) = s[Len(s)] /\ Len(s) \in 1..Len(s)
         /\ Len(Front(s)) = Len(s) - 1 /\ \A i \in 1..(Len(s) - 1) : Front(s)[i] = s[i]
<1>1. Len(s) \in Nat \ {0} /\ \A i \in 1..Len(s) : s[i] \in S
  BY EmptySeq, LenProperties, ElementOfSeq
<1>2. Front(s) = SubSeq(s, 1, Len(s) - 1) /\ Last(s) = s[Len(s)]
  BY DEF Front, Last
<1>3. /\ SubSeq(s, 1, Len(s) - 1) \in Seq(S) /\ Len(SubSeq(s, 1, Len(s) - 1)) = Len(s) - 1
      /\ \A i \in 1..(Len(s) - 1) : SubSeq(s, 1, Len(s) - 1)[i] = s[i]
  <2> DEFINE n == Len(s) - 1
  <2>1. n \in Nat /\ n \in 0..Len(s) /\ \A i \in 1..n : s[i] \in S
    BY <1>1
  <2> HIDE DEF n
  <2>2. SubSeq(s, 1, n) \in Seq(S)
    BY <2>1, PrefixIsList
  <2>3. Len(SubSeq(s, 1, n)) = n /\ \A i \in 1..n : SubSeq(s, 1, n)[i] = s[i]
    BY <2>1
  <2> QED  BY <2>2, <2>3 DEF n
<1> QED  BY <1>1, <1>2, <1>3

\* An iterator that starts again is the same otherwise.
LEMMA ResyncFacts ==
  ASSUME walk \in Seq(Visits), NEW op, NEW of, Resync(op, of)
  PROVE  /\ walk' \in Seq(Visits) /\ Len(walk') = Len(walk)
         /\ \A i \in 1..Len(walk) :
              /\ walk'[i].op = walk[i].op /\ walk'[i].of = walk[i].of
              /\ walk'[i].seen = IF walk[i].op = op /\ walk[i].of = of THEN {} ELSE walk[i].seen
<1> DEFINE n == Len(walk)
<1>1. n \in Nat /\ DOMAIN walk = 1..n /\ \A i \in 1..n : walk[i] \in Visits
  BY LenProperties, ElementOfSeq
<1>2. walk' = [i \in 1..n |-> IF walk[i].op = op /\ walk[i].of = of
                              THEN [walk[i] EXCEPT !.seen = {}] ELSE walk[i]]
  BY <1>1 DEF Resync
<1> HIDE DEF n
<1>3. ASSUME NEW i \in 1..n
      PROVE  /\ walk'[i] \in Visits /\ walk'[i].op = walk[i].op /\ walk'[i].of = walk[i].of
             /\ walk'[i].seen = IF walk[i].op = op /\ walk[i].of = of THEN {} ELSE walk[i].seen
  <2>1. walk'[i] = IF walk[i].op = op /\ walk[i].of = of
                   THEN [walk[i] EXCEPT !.seen = {}] ELSE walk[i]
    BY <1>2
  <2>2. walk[i] \in Visits
    BY <1>1
  <2> QED  BY <2>1, <2>2 DEF Visits
<1>4. walk' \in [1..n -> Visits]
  BY <1>2, <1>3
<1>5. walk' \in Seq(Visits) /\ Len(walk') = n
  BY <1>1, <1>4
<1> QED  BY <1>3, <1>5 DEF n

\* What the server thread has seen of what it is at.
LEMMA SeenFacts ==
  ASSUME walk \in Seq(Visits), walk # <<>>, NEW x \in Pads \cup Elements,
         NEW next, next = [walk EXCEPT ![Len(walk)].seen = @ \cup {x}]
  PROVE  /\ next \in Seq(Visits) /\ Len(next) = Len(walk)
         /\ \A i \in 1..(Len(walk) - 1) : next[i] = walk[i]
         /\ next[Len(walk)].op = Last(walk).op /\ next[Len(walk)].of = Last(walk).of
         /\ next[Len(walk)].seen = Last(walk).seen \cup {x}
<1> DEFINE n == Len(walk)
<1>1. /\ n \in Nat /\ n \in 1..n /\ \A i \in 1..n : walk[i] \in Visits
      /\ Last(walk) = walk[n] /\ walk \in [1..n -> Visits]
  BY FrontFacts, LenProperties, ElementOfSeq
<1> DEFINE y == [walk[n] EXCEPT !.seen = @ \cup {x}]
<1>2. next = [walk EXCEPT ![n] = y]
  OBVIOUS
<1>3. y \in Visits /\ y.op = walk[n].op /\ y.of = walk[n].of /\ y.seen = walk[n].seen \cup {x}
  <2>1. walk[n] \in Visits
    BY <1>1
  <2> QED  BY <2>1 DEF Visits
<1> HIDE DEF n, y
<1>4. next \in [1..n -> Visits] /\ next[n] = y /\ \A i \in 1..(n - 1) : next[i] = walk[i]
  <2>1. \A i \in 1..(n - 1) : i \in 1..n /\ i # n
    BY <1>1
  <2>2. next \in [1..n -> Visits] /\ next[n] = y /\ \A i \in 1..n : i # n => next[i] = walk[i]
    BY <1>1, <1>2, <1>3
  <2> QED  BY <2>1, <2>2
<1>5. next \in Seq(Visits) /\ Len(next) = n
  BY <1>1, <1>4
<1> QED  BY <1>1, <1>3, <1>4, <1>5 DEF n

LEMMA VisitFacts ==
  ASSUME NEW op \in {"element", "pads", "bin"}, NEW e \in Elements \cup {Root}
  PROVE  Visit(op, e) \in Visits /\ Visit(op, e).op = op /\ Visit(op, e).of = e /\ Visit(op, e).seen = {}
BY DEF Visit, Visits

\* The element that is next is sent, and what is in it comes after its pads.
LEMMA SendFacts ==
  ASSUME WalkOK, SendElement
  PROVE  LET e == Last(walk).of
             n == Len(walk) - 1
         IN /\ e \in Elements \cup {Root} /\ n \in Nat /\ walk' \in Seq(Visits)
            /\ \A i \in 1..n : walk'[i] = walk[i]
            /\ e \in Bins => Len(walk') = n + 2 /\ walk'[n + 1] = Visit("bin", e)
                             /\ walk'[n + 2] = Visit("pads", e)
            /\ e \notin Bins => Len(walk') = n + 1 /\ walk'[n + 1] = Visit("pads", e)
<1> DEFINE e == Last(walk).of
           n == Len(walk) - 1
           front == Front(walk)
<1>1. /\ Last(walk) \in Visits /\ front \in Seq(Visits) /\ Len(front) = n /\ n \in Nat
      /\ \A i \in 1..n : front[i] = walk[i]
  <2>1. walk \in Seq(Visits) /\ walk # <<>>
    BY DEF WalkOK, SendElement, Walking
  <2>2. Len(walk) \in Nat \ {0}
    BY <2>1, EmptySeq, LenProperties
  <2> QED  BY <2>1, <2>2, FrontFacts
<1>2. e \in Elements \cup {Root}
  BY <1>1 DEF Visits
<1> DEFINE v == Visit("bin", e)
           w == Visit("pads", e)
<1>3. walk' = front \o (IF e \in Bins THEN <<v>> ELSE <<>>) \o <<w>>
  BY DEF SendElement
<1>4. v \in Visits /\ w \in Visits
  BY <1>2, VisitFacts
<1> HIDE DEF v, w, n, front, e
<1>5. CASE e \in Bins
  <2>1. walk' = Append(Append(front, v), w)
    <3>1. front \o <<v>> = Append(front, v) /\ Append(front, v) \in Seq(Visits)
      BY <1>1, <1>4
    <3>2. Append(front, v) \o <<w>> = Append(Append(front, v), w)
      BY <1>4, <3>1
    <3> QED  BY <1>3, <1>5, <3>1, <3>2
  <2> QED  BY <1>1, <1>2, <1>4, <1>5, <2>1 DEF e, n, v, w
<1>6. CASE e \notin Bins
  <2>1. walk' = Append(front, w)
    BY <1>1, <1>3, <1>4, <1>6
  <2> QED  BY <1>1, <1>2, <1>4, <1>6, <2>1 DEF e, n, v, w
<1> QED  BY <1>5, <1>6

LEMMA WalkInit == Init => WalkOK
BY DEF Init, WalkOK

LEMMA WalkStep == PipelineOK /\ WalkOK /\ [Next]_vars => WalkOK'
<1> SUFFICES ASSUME PipelineOK, WalkOK, [Next]_vars PROVE WalkOK'
  OBVIOUS
<1> DEFINE Sources == {p \in Pads : p.dir = "src"}
<1>0. /\ phase \in {"idle", "walk", "aborted"} /\ walk \in Seq(Visits)
      /\ srcs \in Seq(Sources) /\ found \in Seq(Pairs)
  BY DEF WalkOK
<1>1. ASSUME NEW t \in Threads, Changer(t) PROVE WalkOK'
  <2>1. UNCHANGED <<phase, srcs, found>>
    BY <1>1 DEF Changer, Attach, BinRemovePre, ElementAddPad, ElementRemovePad, PadLinkPost, PadUnlinkPost,
       BinAddPost, RemoveUnlinks, Detach, PadGone, Unlink, walkVars
  <2>2. UNCHANGED walk \/ \E op, of : Resync(op, of)
    BY <1>1 DEF Changer, Attach, BinRemovePre, ElementAddPad, ElementRemovePad, PadLinkPost, PadUnlinkPost,
       BinAddPost, RemoveUnlinks, Detach, PadGone, Unlink, walkVars
  <2>3. walk' \in Seq(Visits)
    BY <1>0, <2>2, ResyncFacts
  <2> QED  BY <1>0, <2>1, <2>3 DEF WalkOK
<1>2. CASE Request
  <2>1. walk' = <<Visit("element", Root)>> /\ phase' = "walk" /\ srcs' = <<>> /\ UNCHANGED found
    BY <1>2 DEF Request
  <2>2. Visit("element", Root) \in Visits
    BY VisitFacts
  <2> QED  BY <1>0, <2>1, <2>2 DEF WalkOK
<1>3. CASE SendElement
  <2>1. UNCHANGED <<phase, srcs, found>>
    BY <1>3 DEF SendElement
  <2> QED  BY <1>0, <1>3, <2>1, SendFacts DEF WalkOK
<1>4. CASE SendPad
  <2>1. UNCHANGED <<phase, found>> /\ walk # <<>>
    BY <1>4 DEF SendPad, Walking
  <2>2. \/ \E p \in pads : /\ walk' = [walk EXCEPT ![Len(walk)].seen = @ \cup {p}]
                           /\ srcs' = IF Collects(p) THEN Append(srcs, p) ELSE srcs
        \/ walk' = Front(walk) /\ UNCHANGED srcs
    BY <1>4 DEF SendPad
  <2>3. CASE walk' = Front(walk) /\ UNCHANGED srcs
    BY <1>0, <2>1, <2>3, FrontFacts DEF WalkOK
  <2>4. ASSUME NEW p \in pads, walk' = [walk EXCEPT ![Len(walk)].seen = @ \cup {p}],
               srcs' = IF Collects(p) THEN Append(srcs, p) ELSE srcs
        PROVE  WalkOK'
    <3>1. p \in Pads \cup Elements /\ (Collects(p) => p \in Sources)
      BY DEF PipelineOK, Collects
    <3>2. walk' \in Seq(Visits)
      BY <1>0, <2>1, <2>4, <3>1, SeenFacts
    <3>3. srcs' \in Seq(Sources)
      <4> HIDE DEF Sources
      <4> QED  BY <1>0, <2>4, <3>1
    <3> QED  BY <1>0, <2>1, <3>2, <3>3 DEF WalkOK
  <2> QED  BY <2>2, <2>3, <2>4
<1>5. CASE NextElement
  <2>1. UNCHANGED <<phase, srcs, found>> /\ walk # <<>>
    BY <1>5 DEF NextElement, Walking
  <2>2. \/ \E e \in Elements :
             walk' = Append([walk EXCEPT ![Len(walk)].seen = @ \cup {e}], Visit("element", e))
        \/ walk' = Front(walk)
    BY <1>5 DEF NextElement, Children
  <2>3. CASE walk' = Front(walk)
    BY <1>0, <2>1, <2>3, FrontFacts DEF WalkOK
  <2>4. ASSUME NEW e \in Elements,
               walk' = Append([walk EXCEPT ![Len(walk)].seen = @ \cup {e}], Visit("element", e))
        PROVE  WalkOK'
    <3> DEFINE next == [walk EXCEPT ![Len(walk)].seen = @ \cup {e}]
    <3>1. next \in Seq(Visits) /\ Visit("element", e) \in Visits
      BY <1>0, <2>1, SeenFacts, VisitFacts
    <3> HIDE DEF next
    <3>2. walk' \in Seq(Visits)
      BY <2>4, <3>1 DEF next
    <3> QED  BY <1>0, <2>1, <3>2 DEF WalkOK
  <2> QED  BY <2>2, <2>3, <2>4
<1>6. CASE TakeLink
  <2>1. srcs # <<>> /\ srcs' = Tail(srcs) /\ phase = "walk" /\ UNCHANGED walk
    BY <1>6 DEF TakeLink
  <2>2. srcs' \in Seq(Sources) /\ Head(srcs) \in Sources
    <3> HIDE DEF Sources
    <3> QED  BY <1>0, <2>1, HeadTailProperties
  <2>3. /\ phase' \in {"walk", "aborted"}
        /\ UNCHANGED found \/ \E q \in pads : /\ {<<Head(srcs), q>>, <<q, Head(srcs)>>} \cap links # {}
                                              /\ found' = <<<<Head(srcs), q>>>>
    BY <1>6, <2>1 DEF TakeLink
  <2>4. found' \in Seq(Pairs)
    <3>1. CASE UNCHANGED found
      BY <1>0, <3>1
    <3>2. ASSUME NEW q \in pads, {<<Head(srcs), q>>, <<q, Head(srcs)>>} \cap links # {},
                 found' = <<<<Head(srcs), q>>>>
          PROVE  found' \in Seq(Pairs)
      <4>1. <<Head(srcs), q>> \in Pairs \/ <<q, Head(srcs)>> \in Pairs
        BY <3>2 DEF PipelineOK
      <4>2. <<q, Head(srcs)>> \notin Pairs
        BY <2>2, PadFacts
      <4> QED  BY <3>2, <4>1, <4>2
    <3> QED  BY <2>3, <3>1, <3>2
  <2> QED  BY <1>0, <2>1, <2>2, <2>3, <2>4 DEF WalkOK
<1>7. CASE SendLink \/ WalkEnds
  <2>1. UNCHANGED <<walk, srcs>> /\ phase' \in {"walk", "idle"} /\ (found' = <<>> \/ UNCHANGED found)
    BY <1>7 DEF SendLink, WalkEnds
  <2>2. walk' \in Seq(Visits) /\ srcs' \in Seq(Sources)
    BY <1>0, <2>1
  <2>3. found' \in Seq(Pairs)
    <3>1. CASE found' = <<>>
      BY <3>1
    <3>2. CASE UNCHANGED found
      BY <1>0, <3>2
    <3> QED  BY <2>1, <3>1, <3>2
  <2> QED  BY <2>1, <2>2, <2>3 DEF WalkOK
<1>8. CASE UNCHANGED vars
  BY <1>8 DEF vars, walkVars, WalkOK
<1> QED  BY <1>1, <1>2, <1>3, <1>4, <1>5, <1>6, <1>7, <1>8 DEF Next, Server

-----------------------------------------------------------------------------
\* The mirror, one frame at a time.
Frame(p) == AddPad(p) \/ RemovePad(p)
MirrorStep ==
  \/ UNCHANGED mirrorVars
  \/ \E e \in attached : AddElement(e) \/ RemoveElement(e)
  \/ \E p \in Pads : Frame(p)
  \/ \E l \in Pairs : AddLink(l[1], l[2]) \/ RemoveLink(l[1], l[2])

\* Every step applies at most one frame, about something that is there.
LEMMA MirrorSteps ==
  ASSUME PipelineOK, WalkOK, [Next]_vars
  PROVE  MirrorStep
<1>0. /\ pads \subseteq Pads /\ links \subseteq Pairs
      /\ \A t \in Threads : task[t].op = "added" => task[t].of \in attached
  BY DEF PipelineOK, TaskOK, Nothing
<1>1. ASSUME NEW t \in Threads, Changer(t) PROVE MirrorStep
  <2>1. ASSUME NEW e \in Elements, Attach(t, e) \/ BinRemovePre(t, e) PROVE MirrorStep
    BY <2>1 DEF Attach, BinRemovePre, MirrorStep
  <2>2. ASSUME NEW p \in Pads, ElementAddPad(t, p) \/ ElementRemovePad(t, p) PROVE MirrorStep
    BY <2>2 DEF ElementAddPad, ElementRemovePad, MirrorStep, Frame
  <2>3. ASSUME NEW l \in Pairs, PadLinkPost(t, l) \/ PadUnlinkPost(t, l) PROVE MirrorStep
    BY <2>3 DEF PadLinkPost, PadUnlinkPost, Unlink, MirrorStep
  <2>4. CASE BinAddPost(t)
    BY <1>0, <2>4 DEF BinAddPost, MirrorStep
  <2>5. CASE RemoveUnlinks(t)
    BY <1>0, <2>5 DEF RemoveUnlinks, Unlink, MirrorStep
  <2>6. CASE Detach(t) \/ PadGone(t)
    BY <2>6 DEF Detach, PadGone, MirrorStep
  <2> QED  BY <1>1, <2>1, <2>2, <2>3, <2>4, <2>5, <2>6 DEF Changer
<1>2. CASE SendElement
  BY <1>2 DEF SendElement, MirrorStep
<1>3. CASE SendPad
  BY <1>0, <1>3 DEF SendPad, MirrorStep, Frame
<1>4. CASE SendLink
  <2>1. found # <<>> /\ found \in Seq(Pairs)
    BY <1>4 DEF SendLink, WalkOK
  <2>2. Head(found) \in Pairs
    BY <2>1, HeadTailProperties
  <2> QED  BY <1>4, <2>2 DEF SendLink, MirrorStep
<1>5. CASE Request \/ NextElement \/ TakeLink \/ WalkEnds \/ UNCHANGED vars
  BY <1>5 DEF Request, NextElement, TakeLink, WalkEnds, vars, MirrorStep
<1> QED  BY <1>1, <1>2, <1>3, <1>4, <1>5 DEF Next, Server

-----------------------------------------------------------------------------
\* Where the frames of an element say that it is.
LEMMA PlaceFacts ==
  ASSUME attached \subseteq Elements, NodesOK
  PROVE  /\ \A e \in Elements \cup {Root} : Locate(PathOf[e]) \in 0..Len(nodes)
         /\ \A e \in attached : Last(PathOf[e]) = Name[e] /\ Front(PathOf[e]) = PathOf[Parent[e]]
<1>1. ASSUME NEW e \in Elements \cup {Root} PROVE Locate(PathOf[e]) \in 0..Len(nodes)
  <2> DEFINE path == PathOf[e]
  <2>1. path \in Seq(Names)
    BY PathOfFacts
  <2> HIDE DEF path
  <2>2. Descent(path) \in Places
    <3>1. CASE path = <<>>
      <4>1. Start \in Places
        BY DEF Start, Places, NodesOK
      <4>2. Descent(<<>>) = Start
        BY DescentSteps
      <4> QED  BY <3>1, <4>1, <4>2
    <3>2. CASE path # <<>>
      <4>1. path[1] \in Names
        BY <2>1, <3>2
      <4> QED  BY <2>1, <4>1, DescentSteps
    <3> QED  BY <3>1, <3>2
  <2>3. Locate(path) = Descent(path).at
    BY LocateIs
  <2> QED  BY <2>2, <2>3 DEF path, Places
<1>2. ASSUME NEW e \in attached PROVE Last(PathOf[e]) = Name[e] /\ Front(PathOf[e]) = PathOf[Parent[e]]
  <2> DEFINE p == PathOf[Parent[e]]
             x == Name[e]
  <2>1. p \in Seq(Names) /\ x \in Names /\ PathOf[e] = Append(p, x)
    BY PathOfFacts, DepthFacts DEF Names
  <2> HIDE DEF p, x
  <2>2. Front(Append(p, x)) = p /\ Last(Append(p, x)) = x
    BY <2>1, AppendProperties DEF Front, Last
  <2> QED  BY <2>1, <2>2 DEF p, x
<1> QED  BY <1>1, <1>2

LEMMA LocatedFacts ==
  ASSUME attached \subseteq Elements, NodesOK, NEW p \in Pads
  PROVE  Located(p) \in PadModel /\ Located(p).of <= Len(nodes) /\ Located(p).dir = p.dir
<1>1. Locate(PathOf[p.of]) \in 0..Len(nodes) /\ p.dir \in {"src", "sink"} /\ Len(nodes) \in Nat
  BY PadFacts, PlaceFacts DEF NodesOK
<1> QED  BY <1>1 DEF Located, PadModel

\* An element that is sent comes last, into a model that was there.
LEMMA AddedIs ==
  ASSUME attached \subseteq Elements, NodesOK, NEW e \in attached, AddElement(e)
  PROVE  LET x == [name |-> Name[e], parent |-> Locate(PathOf[Parent[e]]), shown |-> TRUE]
         IN /\ NodesOK' /\ x \in Node /\ x.parent \in 0..Len(nodes)
            /\ Len(nodes') = Len(nodes) + 1 /\ nodes'[Len(nodes')] = x
            /\ \A i \in 1..Len(nodes) : nodes'[i] = nodes[i]
            /\ UNCHANGED peer
<1> DEFINE x == [name |-> Name[e], parent |-> Locate(PathOf[Parent[e]]), shown |-> TRUE]
<1>1. nodes' = Append(nodes, x) /\ UNCHANGED peer
  BY PlaceFacts DEF AddElement
<1>2. x.parent \in 0..Len(nodes) /\ x \in Node
  <2>1. Locate(PathOf[Parent[e]]) \in 0..Len(nodes) /\ Name[e] \in Names
    BY PlaceFacts, DepthFacts DEF Names
  <2> QED  BY <2>1 DEF Node
<1> HIDE DEF x
<1>3. /\ nodes' \in Seq(Node) /\ Len(nodes') = Len(nodes) + 1 /\ nodes'[Len(nodes) + 1] = x
      /\ Len(nodes) \in Nat /\ \A i \in 1..Len(nodes) : nodes'[i] = nodes[i]
  BY <1>1, <1>2, AppendProperties DEF NodesOK
<1>4. ASSUME NEW i \in 1..Len(nodes') PROVE nodes'[i].parent < i
  <2>1. CASE i \in 1..Len(nodes)
    BY <1>3, <2>1 DEF NodesOK
  <2>2. CASE i = Len(nodes) + 1
    BY <1>2, <1>3, <2>2
  <2> QED  BY <1>3, <2>1, <2>2
<1> QED  BY <1>1, <1>2, <1>3, <1>4 DEF NodesOK, x

\* Of what is removed one model is hidden, the first of its name in its place.
LEMMA RemovedIs ==
  ASSUME attached \subseteq Elements, NodesOK, NEW e \in attached, RemoveElement(e)
  PROVE  LET same == Named(Locate(PathOf[Parent[e]]), Name[e])
         IN /\ NodesOK' /\ Len(nodes') = Len(nodes) /\ UNCHANGED peer
            /\ \A i \in 1..Len(nodes) :
                 /\ nodes'[i].name = nodes[i].name /\ nodes'[i].parent = nodes[i].parent
                 /\ nodes'[i].shown = (nodes[i].shown /\ ~(i \in same /\ i = Min(same)))
<1> DEFINE same == Named(Locate(PathOf[Parent[e]]), Name[e])
           n == Len(nodes)
           now(i) == [nodes[i] EXCEPT !.shown = @ /\ ~(i \in same /\ i = Min(same))]
<1>1. UNCHANGED peer /\ nodes' = [i \in DOMAIN nodes |-> now(i)]
  BY PlaceFacts DEF RemoveElement
<1>2. n \in Nat /\ DOMAIN nodes = 1..n /\ \A i \in 1..n : nodes[i] \in Node /\ nodes[i].parent < i
  BY LenProperties, ElementOfSeq DEF NodesOK
<1> HIDE DEF n, same
<1>3. ASSUME NEW i \in 1..n
      PROVE  /\ now(i) \in Node /\ now(i).name = nodes[i].name /\ now(i).parent = nodes[i].parent
             /\ now(i).shown = (nodes[i].shown /\ ~(i \in same /\ i = Min(same)))
  <2>1. nodes[i] \in Node
    BY <1>2
  <2> QED  BY <2>1 DEF Node
<1>4. \A i \in 1..n : nodes'[i] = now(i)
  BY <1>1, <1>2
<1>5. nodes' \in [1..n -> Node]
  <2> HIDE DEF now
  <2> QED  BY <1>1, <1>2, <1>3
<1>6. nodes' \in Seq(Node) /\ Len(nodes') = n
  BY <1>2, <1>5
<1>7. NodesOK'
  <2> HIDE DEF now
  <2> QED  BY <1>2, <1>3, <1>4, <1>6 DEF NodesOK
<1> HIDE DEF now
<1> QED  BY <1>1, <1>3, <1>4, <1>6, <1>7 DEF n, same

LEMMA MirrorInit == Init => NodesOK /\ PeersOK
<1> SUFFICES ASSUME Init PROVE NodesOK /\ PeersOK
  OBVIOUS
<1>1. nodes = <<>> /\ peer = <<>>
  BY DEF Init
<1>2. nodes \in Seq(Node) /\ Len(nodes) = 0
  BY <1>1
<1>3. DOMAIN peer = {}
  BY <1>1
<1> QED  BY <1>2, <1>3 DEF NodesOK, PeersOK

\* Which leaves a tree of models, and pads in it.
LEMMA MirrorKept ==
  ASSUME attached \subseteq Elements, NodesOK, PeersOK, MirrorStep
  PROVE  NodesOK' /\ PeersOK'
<1>0. Len(nodes) \in Nat
  BY DEF NodesOK
<1>1. CASE UNCHANGED mirrorVars
  BY <1>1 DEF mirrorVars, NodesOK, PeersOK
<1>2. ASSUME NEW e \in attached, AddElement(e) PROVE NodesOK' /\ PeersOK'
  <2>1. NodesOK' /\ UNCHANGED peer /\ Len(nodes') = Len(nodes) + 1
    BY <1>2, AddedIs
  <2> QED  BY <1>0, <2>1 DEF PeersOK, PadModel
<1>3. ASSUME NEW e \in attached, RemoveElement(e) PROVE NodesOK' /\ PeersOK'
  <2>1. NodesOK' /\ UNCHANGED peer /\ Len(nodes') = Len(nodes)
    BY <1>3, RemovedIs
  <2> QED  BY <2>1 DEF PeersOK
<1>4. ASSUME NEW p \in Pads, Frame(p) PROVE NodesOK' /\ PeersOK'
  <2>1. UNCHANGED nodes
    BY <1>4 DEF Frame, AddPad, RemovePad
  <2>2. Located(p) \in PadModel /\ Located(p).of <= Len(nodes)
    BY LocatedFacts
  <2>3. \A q \in DOMAIN peer' : \/ q \in DOMAIN peer /\ peer'[q] = peer[q]
                                \/ q = Located(p) /\ peer'[q] = NoPad
    <3>1. CASE AddPad(p)
      BY <3>1 DEF AddPad
    <3>2. CASE RemovePad(p)
      BY <3>2 DEF RemovePad, Restrict
    <3> QED  BY <1>4, <3>1, <3>2 DEF Frame
  <2> QED  BY <2>1, <2>2, <2>3 DEF NodesOK, PeersOK
<1>5. ASSUME NEW l \in Pairs, AddLink(l[1], l[2]) \/ RemoveLink(l[1], l[2]) PROVE NodesOK' /\ PeersOK'
  <2> DEFINE s == Located(l[1])
             k == Located(l[2])
  <2>1. UNCHANGED nodes
    BY <1>5 DEF AddLink, RemoveLink
  <2>2. s.dir = "src" /\ k.dir = "sink"
    BY PadFacts, LocatedFacts
  <2> HIDE DEF s, k
  <2>3. DOMAIN peer' = DOMAIN peer
        /\ \A q \in DOMAIN peer : \/ peer'[q] \in {peer[q], NoPad}
                                  \/ q = s /\ peer'[q] = k
                                  \/ q = k /\ peer'[q] = s
    <3>1. CASE AddLink(l[1], l[2])
      BY <3>1 DEF AddLink, s, k
    <3>2. CASE RemoveLink(l[1], l[2])
      BY <3>2 DEF RemoveLink
    <3> QED  BY <1>5, <3>1, <3>2
  <2>4. PeersOK'
    BY <2>1, <2>2, <2>3 DEF PeersOK
  <2> QED  BY <2>1, <2>4 DEF NodesOK
<1> QED  BY <1>1, <1>2, <1>3, <1>4, <1>5 DEF MirrorStep

LEMMA RestInit == Init => RestOK
<1> SUFFICES ASSUME Init PROVE RestOK
  OBVIOUS
<1>1. Connected \subseteq Elements
  BY DEF Connected
<1>2. steady = Connected /\ refused = {} /\ unlinked = FALSE /\ changes = 0 /\ requests = 0
  BY DEF Init
<1>3. changes \in 0..MaxChanges /\ requests \in 0..MaxRequests
  BY <1>2, BoundsAssumption
<1>4. unlinked \in BOOLEAN /\ refused \subseteq Pairs /\ steady \subseteq Elements
  BY <1>1, <1>2
<1> QED  BY <1>3, <1>4 DEF RestOK

\* Counters and histories.
LEMMA RestStep == RestOK /\ [Next]_vars => RestOK'
<1> SUFFICES ASSUME RestOK, [Next]_vars PROVE RestOK'
  OBVIOUS
<1>0. MaxChanges \in Nat /\ MaxRequests \in Nat /\ changes \in 0..MaxChanges /\ requests \in 0..MaxRequests
  BY BoundsAssumption DEF RestOK
<1>1. ASSUME NEW t \in Threads, Changer(t) PROVE RestOK'
  <2>1. UNCHANGED requests /\ (UNCHANGED changes \/ (changes < MaxChanges /\ changes' = changes + 1))
    BY <1>1 DEF Changer, Attach, BinRemovePre, ElementAddPad, ElementRemovePad, PadLinkPost, PadUnlinkPost,
       BinAddPost, RemoveUnlinks, Detach, PadGone, Begins
  <2>2. /\ steady' \subseteq steady
        /\ UNCHANGED refused \/ \E l \in Pairs : refused' = refused \cup {l}
        /\ unlinked' = unlinked \/ unlinked' = (unlinked \/ phase = "walk")
    BY <1>1 DEF Changer, Attach, BinRemovePre, ElementAddPad, ElementRemovePad, PadLinkPost, PadUnlinkPost,
       BinAddPost, RemoveUnlinks, Detach, PadGone, Unlink, history
  <2>3. changes' \in 0..MaxChanges /\ requests' \in 0..MaxRequests
    BY <1>0, <2>1
  <2>4. unlinked' \in BOOLEAN /\ refused' \subseteq Pairs /\ steady' \subseteq Elements
    BY <2>2 DEF RestOK
  <2> QED  BY <2>3, <2>4 DEF RestOK
<1>2. CASE Server \/ UNCHANGED vars
  <2>1. UNCHANGED <<history, changes>> /\ (UNCHANGED requests \/ (requests < MaxRequests /\ requests' = requests + 1))
    BY <1>2 DEF Server, Request, SendElement, SendPad, NextElement, TakeLink, SendLink, WalkEnds, vars
  <2>2. changes' \in 0..MaxChanges /\ requests' \in 0..MaxRequests
    BY <1>0, <2>1
  <2> QED  BY <2>1, <2>2 DEF RestOK, history
<1> QED  BY <1>1, <1>2 DEF Next

LEMMA SoundInit == Init => SoundOK
BY PipelineInit, WalkInit, MirrorInit, RestInit DEF SoundOK

LEMMA SoundStep == SoundOK /\ [Next]_vars => SoundOK'
<1> SUFFICES ASSUME SoundOK, [Next]_vars PROVE SoundOK'
  OBVIOUS
<1>1. NodesOK' /\ PeersOK'
  <2>1. attached \subseteq Elements /\ MirrorStep
    BY MirrorSteps DEF SoundOK, PipelineOK
  <2> QED  BY <2>1, MirrorKept DEF SoundOK
<1> QED  BY <1>1, PipelineStep, WalkStep, RestStep DEF SoundOK

LEMMA SoundIsTyped == SoundOK => TypeOK
<1> SUFFICES ASSUME SoundOK PROVE TypeOK
  OBVIOUS
<1>1. /\ attached \subseteq Elements /\ pads \subseteq Pads /\ links \subseteq Pairs
      /\ \A l \in links : {l[1], l[2]} \subseteq pads
      /\ \A t \in Threads : \/ task[t] = Nothing
                            \/ task[t].op \in {"added", "removing"} /\ task[t].of \in attached
                            \/ task[t].op = "unpadding" /\ task[t].pads \subseteq pads
  BY DEF SoundOK, PipelineOK, TaskOK
<1>2. phase \in {"idle", "walk", "aborted"} /\ \A i \in DOMAIN walk : walk[i].op \in {"element", "pads", "bin"}
  <2>1. walk \in Seq(Visits) /\ phase \in {"idle", "walk", "aborted"}
    BY DEF SoundOK, WalkOK
  <2>2. \A i \in DOMAIN walk : walk[i] \in Visits
    BY <2>1, LenProperties, ElementOfSeq
  <2> QED  BY <2>1, <2>2 DEF Visits
<1>3. srcs \in Seq(Pads) /\ found \in Seq(Pairs)
  <2>1. srcs \in Seq({p \in Pads : p.dir = "src"}) /\ found \in Seq(Pairs)
    BY DEF SoundOK, WalkOK
  <2>2. {p \in Pads : p.dir = "src"} \subseteq Pads
    OBVIOUS
  <2> QED  BY <2>1, <2>2
<1>4. \A i \in DOMAIN nodes : nodes[i].parent \in 0..(i - 1) /\ nodes[i].shown \in BOOLEAN
  BY NodesAre DEF SoundOK, NodesOK
<1> QED  BY <1>1, <1>2, <1>3, <1>4 DEF TypeOK, SoundOK, PeersOK, RestOK

\* The pipeline, the threads, the walk of the server thread and the mirror are
\* what they should be: what a thread has begun with is still there, every
\* iterator is over something, and every model is in one that was there before.
THEOREM TypeCorrect == Spec => []TypeOK
BY SoundInit, SoundStep, SoundIsTyped, PTL DEF Spec

-----------------------------------------------------------------------------
\* No two elements have the same name, in whatever bins they are.
NamesDiffer == \A d, e \in Elements : Name[d] = Name[e] => d = e
\* A step that hides nothing in the place of something else.
Told == NamesDiffer \/ changes' = 0

\* What the server thread will still come to: it is about to send it, or will
\* find it in what it iterates over.
Held(op, of) == {i \in 1..Len(walk) : walk[i].op = op /\ walk[i].of = of}
Pending(a) == \/ Held("element", a) # {}
              \/ a \in Elements /\ \E i \in Held("bin", Parent[a]) : a \notin walk[i].seen

\* What stays in the pipeline is known to the debugger, or the server thread will
\* come to it; what it has come to is in a bin that is known.
SteadyOK ==
  /\ steady \subseteq attached
  /\ \A e \in steady : Parent[e] \in steady \cup {Root}
  /\ \A t \in Threads : task[t].op = "removing" => task[t].of \notin steady
ReachedOK == \A e \in steady : /\ Held("element", e) # {} => Known(Parent[e])
                               /\ Held("bin", e) # {} => Known(e)
AnnouncedOK == requests > 0 => \A e \in steady : Known(e) \/ \E a \in Up[e] : Pending(a)
KeptOK == SteadyOK /\ ReachedOK /\ AnnouncedOK /\ (phase # "walk" => walk = <<>>)

\* What is above an element is its bin and what is above that; on the way down
\* from one to the other there is always a next one.
LEMMA UpWays ==
  /\ \A e \in Elements \cup {Root} : e \in Up[e] /\ Up[e] \subseteq Elements \cup {Root}
  /\ \A e \in Elements \cup {Root}, a \in Elements \cup {Root} :
       a \in Up[e] => a = e \/ \E c \in Up[e] : c \in Elements /\ Parent[c] = a
<1> DEFINE S == {e \in Elements \cup {Root} :
                   /\ e \in Up[e] /\ Up[e] \subseteq Elements \cup {Root}
                   /\ \A a \in Elements \cup {Root} :
                        a \in Up[e] => a = e \/ \E c \in Up[e] : c \in Elements /\ Parent[c] = a}
<1>1. Root \in S
  BY UpFacts
<1>2. ASSUME NEW e \in Elements, Parent[e] \in S PROVE e \in S
  <2>1. Up[e] = {e} \cup Up[Parent[e]] /\ Up[Parent[e]] \subseteq Elements \cup {Root}
    BY <1>2, UpFacts
  <2>2. ASSUME NEW a \in Up[e], a # e PROVE \E c \in Up[e] : c \in Elements /\ Parent[c] = a
    <3>1. a \in Up[Parent[e]] /\ a \in Elements \cup {Root}
      BY <2>1, <2>2
    <3>2. a = Parent[e] \/ \E c \in Up[Parent[e]] : c \in Elements /\ Parent[c] = a
      BY <1>2, <3>1
    <3> QED  BY <2>1, <3>2
  <2> QED  BY <2>1, <2>2
<1>3. Elements \cup {Root} \subseteq S
  <2> HIDE DEF S
  <2> QED  BY <1>1, <1>2, DepthInduction
<1> QED  BY <1>3

\* What is above something steady is steady.
LEMMA UpIsSteady ==
  ASSUME steady \subseteq Elements, SteadyOK
  PROVE  \A e \in steady : Up[e] \subseteq steady \cup {Root}
<1> DEFINE S == {e \in Elements \cup {Root} : e \in steady \cup {Root} => Up[e] \subseteq steady \cup {Root}}
<1>1. Root \in S
  BY UpFacts
<1>2. \A e \in Elements : Parent[e] \in S => e \in S
  BY UpFacts, DepthFacts DEF SteadyOK
<1>3. Elements \cup {Root} \subseteq S
  <2> HIDE DEF S
  <2> QED  BY <1>1, <1>2, DepthInduction
<1> QED  BY <1>3

LEMMA KeptInit == Init => KeptOK
<1> SUFFICES ASSUME Init PROVE KeptOK
  OBVIOUS
<1>1. /\ steady = Connected /\ attached \subseteq Elements /\ requests = 0 /\ walk = <<>>
      /\ \A t \in Threads : task[t] = Nothing
  BY DEF Init
<1>2. ASSUME NEW e \in Connected PROVE e \in attached /\ Parent[e] \in Connected \cup {Root}
  <2>1. e \in Elements /\ Up[e] \subseteq attached \cup {Root} /\ Up[e] = {e} \cup Up[Parent[e]]
    BY UpFacts DEF Connected
  <2> QED  BY <2>1, DepthFacts DEF Connected
<1>3. \A op, of : Held(op, of) = {}
  BY <1>1 DEF Held
<1>4. Nothing.op # "removing"
  BY DEF Nothing
<1>5. SteadyOK
  BY <1>1, <1>2, <1>4 DEF SteadyOK
<1> QED  BY <1>1, <1>3, <1>5 DEF KeptOK, ReachedOK, AnnouncedOK

\* A model that is added comes behind those of its name, one that is hidden has
\* a name that is not to stay.
LEMMA NamedStays ==
  ASSUME attached \subseteq Elements, NodesOK, NodesOK', NEW D \in SUBSET Elements,
         \/ UNCHANGED nodes
         \/ \E e \in attached : AddElement(e)
         \/ \E e \in attached : RemoveElement(e) /\ \A d \in D : Name[d] # Name[e]
  PROVE  \A d \in D, at \in Nat : Named(at, Name[d]) # {} =>
           Named(at, Name[d])' # {} /\ Min(Named(at, Name[d])') = Min(Named(at, Name[d]))
<1> SUFFICES ASSUME NEW d \in D, NEW at \in Nat, Named(at, Name[d]) # {}
             PROVE  Named(at, Name[d])' # {} /\ Min(Named(at, Name[d])') = Min(Named(at, Name[d]))
  OBVIOUS
<1>0. DOMAIN nodes = 1..Len(nodes) /\ DOMAIN nodes' = 1..Len(nodes') /\ Len(nodes) \in Nat
  BY DEF NodesOK
<1>1. CASE UNCHANGED nodes
  BY <1>1 DEF Named
<1>2. ASSUME NEW e \in attached, AddElement(e)
      PROVE  Named(at, Name[d])' # {} /\ Min(Named(at, Name[d])') = Min(Named(at, Name[d]))
  <2>1. Len(nodes') = Len(nodes) + 1 /\ \A i \in 1..Len(nodes) : nodes'[i] = nodes[i]
    BY <1>2, AddedIs
  <2>2. /\ Named(at, Name[d]) \subseteq Named(at, Name[d])'
        /\ Named(at, Name[d])' \subseteq Named(at, Name[d]) \cup {Len(nodes) + 1}
    <3>1. 1..Len(nodes') = (1..Len(nodes)) \cup {Len(nodes) + 1}
      BY <1>0, <2>1
    <3>2. ASSUME NEW i \in 1..Len(nodes) PROVE i \in Named(at, Name[d])' <=> i \in Named(at, Name[d])
      BY <1>0, <2>1, <3>1 DEF Named
    <3>3. Named(at, Name[d]) \subseteq 1..Len(nodes) /\ Named(at, Name[d])' \subseteq 1..Len(nodes')
      BY <1>0 DEF Named
    <3> QED  BY <3>1, <3>2, <3>3
  <2> DEFINE old == Named(at, Name[d])
             now == Named(at, Name[d])'
             m == Min(old)
  <2>3. old \subseteq 1..Len(nodes) /\ m \in old /\ \A i \in old : m <= i
    BY NamedFacts
  <2> HIDE DEF old, now
  <2>4. old \subseteq now /\ now \subseteq old \cup {Len(nodes) + 1}
    BY <2>2 DEF old, now
  <2>5. m \in Nat /\ m \in now /\ \A i \in now : m <= i
    <3> HIDE DEF m
    <3>1. m \in 1..Len(nodes)
      BY <2>3
    <3> QED  BY <1>0, <2>3, <2>4, <3>1
  <2>6. now \subseteq Nat
    BY <1>0, <2>3, <2>4
  <2>7. Min(now) = m
    <3>1. ASSUME NEW x \in now, \A y \in now : x <= y PROVE x = m
      BY <2>5, <2>6, <3>1
    <3> HIDE DEF m
    <3> QED  BY <2>5, <3>1 DEF Min
  <2> QED  BY <2>5, <2>7 DEF old, now
<1>3. ASSUME NEW e \in attached, RemoveElement(e), Name[d] # Name[e]
      PROVE  Named(at, Name[d])' = Named(at, Name[d])
  <2> DEFINE same == Named(Locate(PathOf[Parent[e]]), Name[e])
  <2>1. /\ Len(nodes') = Len(nodes)
        /\ \A i \in 1..Len(nodes) :
             /\ nodes'[i].name = nodes[i].name /\ nodes'[i].parent = nodes[i].parent
             /\ nodes'[i].shown = (nodes[i].shown /\ ~(i \in same /\ i = Min(same)))
    BY <1>3, RemovedIs
  <2>2. \A i \in same : nodes[i].name = Name[e]
    BY DEF Named
  <2> HIDE DEF same
  <2>3. \A i \in 1..Len(nodes) : nodes[i] \in Node /\ nodes'[i] \in Node
    BY <2>1, ElementOfSeq DEF NodesOK
  <2>4. ASSUME NEW i \in 1..Len(nodes)
        PROVE  i \in Named(at, Name[d])' <=> i \in Named(at, Name[d])
    <3> DEFINE x == [name |-> Name[d], parent |-> at, shown |-> TRUE]
    <3>1. ASSUME NEW y \in Node PROVE y = x <=> y.name = Name[d] /\ y.parent = at /\ y.shown
      <4>1. y = [name |-> y.name, parent |-> y.parent, shown |-> y.shown] /\ y.shown \in BOOLEAN
        BY DEF Node
      <4> QED  BY <4>1
    <3>2. nodes'[i] = x <=> nodes[i] = x
      <4> HIDE DEF x
      <4>1. nodes'[i] = x <=> nodes'[i].name = Name[d] /\ nodes'[i].parent = at /\ nodes'[i].shown
        BY <2>3, <3>1
      <4>2. nodes[i] = x <=> nodes[i].name = Name[d] /\ nodes[i].parent = at /\ nodes[i].shown
        BY <2>3, <3>1
      <4>3. nodes[i].name = Name[d] => nodes'[i].shown = nodes[i].shown
        <5>1. nodes[i].name = Name[d] => i \notin same
          BY <1>3, <2>2
        <5>2. nodes'[i].shown = (nodes[i].shown /\ ~(i \in same /\ i = Min(same)))
          BY <2>1
        <5>3. nodes[i].shown \in BOOLEAN /\ nodes'[i].shown \in BOOLEAN
          BY <2>3 DEF Node
        <5> QED  BY <5>1, <5>2, <5>3
      <4> QED  BY <2>1, <4>1, <4>2, <4>3
    <3> QED  BY <1>0, <2>1, <3>2 DEF Named
  <2> QED  BY <1>0, <2>1, <2>4 DEF Named
<1> QED  BY <1>1, <1>2, <1>3

\* Everything is below the root.
LEMMA RootAbove == \A e \in Elements \cup {Root} : Root \in Up[e]
<1> DEFINE S == {e \in Elements \cup {Root} : Root \in Up[e]}
<1>1. Root \in S /\ \A e \in Elements : Parent[e] \in S => e \in S
  BY UpFacts
<1>2. Elements \cup {Root} \subseteq S
  <2> HIDE DEF S
  <2> QED  BY <1>1, DepthInduction
<1> QED  BY <1>2

\* What is removed is not to stay, nor is what is in it.
LEMMA SteadyStep ==
  ASSUME SoundOK, SteadyOK, [Next]_vars
  PROVE  /\ SteadyOK' /\ steady' \subseteq steady
         /\ \/ UNCHANGED nodes
            \/ \E e \in attached : AddElement(e)
            \/ \E e \in attached : RemoveElement(e) /\ changes' # 0 /\ \A d \in steady' : d # e
<1> DEFINE Conclusion == /\ SteadyOK' /\ steady' \subseteq steady
                         /\ \/ UNCHANGED nodes
                            \/ \E e \in attached : AddElement(e)
                            \/ \E e \in attached : RemoveElement(e) /\ changes' # 0 /\ \A d \in steady' : d # e
<1>0. /\ attached \subseteq Elements /\ steady \subseteq attached
      /\ \A e \in steady : Parent[e] \in steady \cup {Root}
      /\ \A t \in Threads : task[t].op = "removing" => task[t].of \notin steady
      /\ task \in [Threads -> Task]
      /\ \A t \in Threads : task[t].op = "added" => task[t].of \in attached
      /\ Nothing.op # "removing"
  BY DEF SoundOK, PipelineOK, SteadyOK, TaskOK, Nothing
<1>1. ASSUME UNCHANGED <<attached, task, steady>>, UNCHANGED nodes \/ \E e \in attached : AddElement(e)
      PROVE  Conclusion
  BY <1>1 DEF SteadyOK
<1>2. ASSUME NEW t \in Threads, Changer(t) PROVE Conclusion
  <2>1. ASSUME NEW e \in Elements, Attach(t, e) PROVE Conclusion
    <3>1. /\ attached \subseteq attached' /\ UNCHANGED <<steady, nodes>>
          /\ task' = [task EXCEPT ![t] = [op |-> "added", of |-> e, pads |-> {}]]
      BY <2>1 DEF Attach, mirrorVars, history
    <3>2. \A u \in Threads : task'[u].op = "removing" => task'[u] = task[u]
      BY <1>0, <3>1
    <3> QED  BY <1>0, <3>1, <3>2 DEF SteadyOK
  <2>2. ASSUME NEW e \in Elements, BinRemovePre(t, e) PROVE Conclusion
    <3>0. changes' # 0
      BY <2>2 DEF BinRemovePre, Begins, SoundOK, RestOK
    <3>1. /\ e \in attached /\ RemoveElement(e) /\ UNCHANGED attached
          /\ steady' = {d \in steady : e \notin Up[d]}
          /\ task' = [task EXCEPT ![t] = [op |-> "removing", of |-> e, pads |-> {}]]
      BY <2>2 DEF BinRemovePre, pipelineVars
    <3>2. \A d \in steady' : d \in steady /\ d # e
      BY <1>0, <3>1, UpWays
    <3>3. \A u \in Threads : task'[u] = task[u] \/ task'[u].of = e
      BY <1>0, <3>1
    <3>4. \A d \in steady' : Parent[d] \in steady' \cup {Root}
      <4> SUFFICES ASSUME NEW d \in steady' PROVE Parent[d] \in steady' \cup {Root}
        OBVIOUS
      <4>1. d \in Elements /\ d \in steady /\ e \notin Up[d] /\ Up[d] = {d} \cup Up[Parent[d]]
        BY <1>0, <3>1, UpFacts
      <4> QED  BY <1>0, <3>1, <4>1
    <3>5. SteadyOK'
      BY <1>0, <3>1, <3>2, <3>3, <3>4 DEF SteadyOK
    <3> QED  BY <3>0, <3>1, <3>2, <3>5
  <2>3. CASE BinAddPost(t)
    <3>1. /\ UNCHANGED <<attached, steady>> /\ \E e \in attached : AddElement(e)
          /\ task' = [task EXCEPT ![t] = Nothing]
      BY <1>0, <2>3 DEF BinAddPost, pipelineVars, history
    <3>2. \A u \in Threads : task'[u] = task[u] \/ task'[u] = Nothing
      BY <1>0, <3>1
    <3>3. SteadyOK'
      BY <1>0, <3>1, <3>2 DEF SteadyOK
    <3> QED  BY <3>1, <3>3
  <2>4. CASE Detach(t)
    <3>1. /\ UNCHANGED <<steady, nodes>> /\ attached' = attached \ {task[t].of}
          /\ task[t].op = "removing" /\ task' = [task EXCEPT ![t] = Nothing]
      BY <2>4 DEF Detach, mirrorVars, history
    <3>2. \A u \in Threads : task'[u] = task[u] \/ task'[u] = Nothing
      BY <1>0, <3>1
    <3> QED  BY <1>0, <3>1, <3>2 DEF SteadyOK
  <2>5. ASSUME NEW p \in Pads, ElementRemovePad(t, p) PROVE Conclusion
    <3>1. /\ UNCHANGED <<attached, steady, nodes>>
          /\ task' = [task EXCEPT ![t] = [op |-> "unpadding", of |-> p.of, pads |-> {p}]]
      BY <2>5 DEF ElementRemovePad, RemovePad, mirrorVars, history, pipelineVars
    <3>2. \A u \in Threads : task'[u].op = "removing" => task'[u] = task[u]
      BY <1>0, <3>1
    <3> QED  BY <1>0, <3>1, <3>2 DEF SteadyOK
  <2>6. CASE PadGone(t)
    <3>1. /\ UNCHANGED <<attached, steady, nodes>> /\ task' = [task EXCEPT ![t] = Nothing]
      BY <2>6 DEF PadGone, mirrorVars, history
    <3>2. \A u \in Threads : task'[u] = task[u] \/ task'[u] = Nothing
      BY <1>0, <3>1
    <3> QED  BY <1>0, <3>1, <3>2 DEF SteadyOK
  <2>7. ASSUME NEW p \in Pads, ElementAddPad(t, p) PROVE Conclusion
    BY <1>1, <2>7 DEF ElementAddPad, AddPad, mirrorVars, history
  <2>8. ASSUME NEW l \in Pairs, PadLinkPost(t, l) \/ PadUnlinkPost(t, l) PROVE Conclusion
    BY <1>1, <2>8 DEF PadLinkPost, PadUnlinkPost, Unlink, AddLink, RemoveLink, mirrorVars
  <2>9. CASE RemoveUnlinks(t)
    BY <1>1, <2>9 DEF RemoveUnlinks, Unlink, RemoveLink
  <2> QED  BY <1>2, <2>1, <2>2, <2>3, <2>4, <2>5, <2>6, <2>7, <2>8, <2>9 DEF Changer
<1>3. CASE SendElement
  BY <1>1, <1>3 DEF SendElement, mirrorVars, pipelineVars, history
<1>4. CASE Request \/ SendPad \/ NextElement \/ TakeLink \/ SendLink \/ WalkEnds \/ UNCHANGED vars
  <2>1. UNCHANGED <<attached, task, steady, nodes>>
    BY <1>4 DEF Request, SendPad, NextElement, TakeLink, SendLink, WalkEnds, vars, AddPad, AddLink,
       mirrorVars, pipelineVars, history
  <2> QED  BY <1>1, <2>1
<1> QED  BY <1>2, <1>3, <1>4 DEF Next, Server

\* What is known of what stays is known where it was.
LEMMA KnownStep ==
  ASSUME Told, SoundOK, SoundOK', SteadyOK, [Next]_vars
  PROVE  \A e \in steady' \cup {Root} : Known(e) => Known(e)' /\ Way(e)' = Way(e)
<1> DEFINE D == steady'
<1>1. /\ SteadyOK'
      /\ \/ UNCHANGED nodes
         \/ \E e \in attached : AddElement(e)
         \/ \E e \in attached : RemoveElement(e) /\ changes' # 0 /\ \A d \in D : d # e
  BY SteadyStep
<1>2. attached \subseteq Elements /\ NodesOK /\ NodesOK' /\ D \in SUBSET Elements
  BY DEF SoundOK, PipelineOK, RestOK
<1>3. \A e \in D : Parent[e] \in D \cup {Root}
  BY <1>1 DEF SteadyOK
<1> HIDE DEF D
<1>4. \/ UNCHANGED nodes
      \/ \E e \in attached : AddElement(e)
      \/ \E e \in attached : RemoveElement(e) /\ \A d \in D : Name[d] # Name[e]
  BY <1>1, <1>2 DEF Told, NamesDiffer
<1>5. \A d \in D, at \in Nat : Named(at, Name[d]) # {} =>
        Named(at, Name[d])' # {} /\ Min(Named(at, Name[d])') = Min(Named(at, Name[d]))
  BY <1>2, <1>4, NamedStays
<1>6. \A e \in D \cup {Root} : Known(e) => Known(e)' /\ Way(e)' = Way(e)
  BY <1>2, <1>3, <1>5, KnownStays
<1> QED  BY <1>6 DEF D

\* What is sent after its bin is known.
LEMMA SentIsKnown ==
  ASSUME attached \subseteq Elements, SteadyOK, NodesOK, NodesOK', NEW e \in steady, AddElement(e),
         Known(Parent[e]), Known(Parent[e])', Way(Parent[e])' = Way(Parent[e])
  PROVE  Known(e)'
<1>1. e \in attached /\ e \in Elements
  BY DEF SteadyOK
<1>2. PathOf[Parent[e]] = PathIn[Parent[e]]
  BY <1>1, PathOfConnected DEF SteadyOK
<1>3. Locate(PathOf[Parent[e]]) = Way(Parent[e]).at
  BY <1>2, LocateIs DEF Way
<1>4. PICK at : at = Way(Parent[e]).at
  OBVIOUS
<1> DEFINE x == [name |-> Name[e], parent |-> at, shown |-> TRUE]
<1>5. nodes'[Len(nodes')] = x /\ Len(nodes') = Len(nodes) + 1 /\ Len(nodes) \in Nat
  BY <1>1, <1>3, <1>4, AddedIs DEF NodesOK
<1>6. Len(nodes') \in Named(at, Name[e])'
  <2>1. Len(nodes') \in DOMAIN nodes'
    BY <1>5 DEF NodesOK
  <2> QED  BY <1>5, <2>1 DEF Named
<1>7. WaysOK'
  <2>1. NodesOK' => WaysOK'
    BY WaysAre, PTL
  <2> QED  BY <2>1
<1>8. PICK w : w = Way(Parent[e])'
  OBVIOUS
<1>9. w.at = at /\ ~w.lost
  BY <1>4, <1>8 DEF Known
<1>10. w \in Places'
  BY <1>7, <1>1, <1>8, DepthFacts DEF WaysOK
<1>11. Way(e)' = Down(w, Name[e])'
  BY <1>7, <1>1, <1>8 DEF WaysOK
<1>12. Way(e)' = [w EXCEPT !.at = Min(Named(at, Name[e])')]
  BY <1>6, <1>9, <1>11 DEF Down
<1> QED  BY <1>9, <1>10, <1>12 DEF Known, Places

\* Where the walk goes on, what it has reached and what it will come to are kept.
LEMMA WalkGoesOn ==
  ASSUME Told, SoundOK, SoundOK', SteadyOK, ReachedOK, AnnouncedOK, [Next]_vars,
         UNCHANGED requests,
         \A op \in {"element", "bin"}, e \in steady : Held(op, e)' # {} => Held(op, e) # {},
         \A a \in steady \cup {Root} : Pending(a) => Pending(a)'
  PROVE  ReachedOK' /\ AnnouncedOK'
<1>1. /\ steady' \subseteq steady /\ SteadyOK' /\ steady' \subseteq Elements
      /\ \A e \in steady' : Parent[e] \in steady' \cup {Root}
  BY SteadyStep DEF SteadyOK, SoundOK, RestOK
<1>2. \A e \in steady' \cup {Root} : Known(e) => Known(e)'
  BY KnownStep
<1>3. ReachedOK'
  <2> SUFFICES ASSUME NEW e \in steady'
               PROVE  /\ Held("element", e)' # {} => Known(Parent[e])'
                      /\ Held("bin", e)' # {} => Known(e)'
    BY DEF ReachedOK
  <2>1. e \in steady /\ Parent[e] \in steady' \cup {Root}
    BY <1>1
  <2>2. Held("element", e)' # {} => Known(Parent[e])
    BY <2>1 DEF ReachedOK
  <2>3. Held("bin", e)' # {} => Known(e)
    BY <2>1 DEF ReachedOK
  <2> QED  BY <1>2, <2>1, <2>2, <2>3
<1>4. AnnouncedOK'
  <2> SUFFICES ASSUME requests' > 0, NEW e \in steady' PROVE Known(e)' \/ \E a \in Up[e] : Pending(a)'
    BY DEF AnnouncedOK
  <2>1. Known(e) \/ \E a \in Up[e] : Pending(a)
    BY <1>1 DEF AnnouncedOK
  <2>2. Up[e] \subseteq steady \cup {Root}
    BY <1>1, UpIsSteady DEF SoundOK, RestOK
  <2> QED  BY <1>2, <2>1, <2>2
<1> QED  BY <1>3, <1>4

\* Threads only make the server thread start over.
LEMMA ChangerKeepsKept ==
  ASSUME Told, SoundOK, SoundOK', KeptOK, NEW t \in Threads, Changer(t)
  PROVE  KeptOK'
<1>0. walk \in Seq(Visits) /\ SteadyOK /\ ReachedOK /\ AnnouncedOK
  BY DEF SoundOK, WalkOK, KeptOK
<1>1. UNCHANGED <<phase, requests>> /\ (UNCHANGED walk \/ \E op, of : Resync(op, of))
  BY DEF Changer, Attach, BinRemovePre, ElementAddPad, ElementRemovePad, PadLinkPost, PadUnlinkPost,
     BinAddPost, RemoveUnlinks, Detach, PadGone, Unlink, walkVars, Begins
<1>2. /\ Len(walk') = Len(walk) /\ walk' \in Seq(Visits)
      /\ \A i \in 1..Len(walk) : /\ walk'[i].op = walk[i].op /\ walk'[i].of = walk[i].of
                                 /\ walk'[i].seen = {} \/ walk'[i].seen = walk[i].seen
  <2>1. CASE UNCHANGED walk
    BY <1>0, <2>1
  <2>2. ASSUME NEW op, NEW of, Resync(op, of)
        PROVE  /\ Len(walk') = Len(walk) /\ walk' \in Seq(Visits)
               /\ \A i \in 1..Len(walk) : /\ walk'[i].op = walk[i].op /\ walk'[i].of = walk[i].of
                                          /\ walk'[i].seen = {} \/ walk'[i].seen = walk[i].seen
    BY <1>0, <2>2, ResyncFacts
  <2> QED  BY <1>1, <2>1, <2>2
<1>3. \A op, of : Held(op, of)' = Held(op, of)
  BY <1>2 DEF Held
<1>4. \A a \in steady \cup {Root} : Pending(a) => Pending(a)'
  <2> SUFFICES ASSUME NEW a \in steady \cup {Root}, Pending(a) PROVE Pending(a)'
    OBVIOUS
  <2>1. CASE Held("element", a) # {}
    BY <1>3, <2>1 DEF Pending
  <2>2. ASSUME a \in Elements, NEW i \in Held("bin", Parent[a]), a \notin walk[i].seen PROVE Pending(a)'
    <3>1. i \in Held("bin", Parent[a])' /\ i \in 1..Len(walk)
      BY <1>3, SMTT(30) DEF Held
    <3>2. a \notin walk'[i].seen
      BY <1>2, <2>2, <3>1
    <3> QED  BY <2>2, <3>1, <3>2 DEF Pending
  <2> QED  BY <2>1, <2>2 DEF Pending
<1>5. [Next]_vars
  BY DEF Next
<1>6. ReachedOK' /\ AnnouncedOK'
  BY <1>0, <1>1, <1>3, <1>4, <1>5, WalkGoesOn
<1>7. phase' # "walk" => walk' = <<>>
  <2>1. walk = <<>> => walk' = <<>>
    BY <1>0, <1>2, EmptySeq
  <2> QED  BY <1>1, <2>1 DEF KeptOK
<1> QED  BY <1>0, <1>5, <1>6, <1>7, SteadyStep DEF KeptOK

\* When it begins it will come to everything.
LEMMA RequestKeepsKept ==
  ASSUME SoundOK, KeptOK, Request, SteadyOK'
  PROVE  KeptOK'
<1>1. walk' = <<Visit("element", Root)>> /\ phase' = "walk" /\ UNCHANGED steady
  BY DEF Request, history
<1>2. steady \subseteq Elements
  BY DEF SoundOK, RestOK
<1> DEFINE v == Visit("element", Root)
<1>3. v.op = "element" /\ v.of = Root
  BY DEF Visit
<1> HIDE DEF v
<1>4. Len(walk') = 1 /\ walk'[1] = v
  BY <1>1 DEF v
<1>5. /\ \A e \in Elements : Held("element", e)' = {} /\ Held("bin", e)' = {}
      /\ Held("element", Root)' # {}
  <2>1. \A i \in 1..Len(walk') : i = 1
    BY <1>4
  <2>2. 1 \in 1..Len(walk')
    BY <1>4
  <2> QED  BY <1>3, <1>4, <2>1, <2>2, DepthFacts DEF Held
<1>6. ReachedOK'
  BY <1>1, <1>2, <1>5 DEF ReachedOK
<1>7. AnnouncedOK'
  <2>1. \A e \in steady : Root \in Up[e]
    BY <1>2, RootAbove
  <2> QED  BY <1>1, <1>5, <2>1 DEF AnnouncedOK, Pending
<1> QED  BY <1>1, <1>6, <1>7 DEF KeptOK

\* What it sends is known then, and it comes to what is in it.
LEMMA SendKeepsKept ==
  ASSUME Told, SoundOK, SoundOK', KeptOK, SendElement
  PROVE  KeptOK'
<1> PICK e : e = Last(walk).of
  OBVIOUS
<1> PICK n : n = Len(walk) - 1
  OBVIOUS
<1>0. /\ walk \in Seq(Visits) /\ SteadyOK /\ ReachedOK /\ AnnouncedOK /\ attached \subseteq Elements
      /\ NodesOK /\ NodesOK' /\ [Next]_vars /\ walk # <<>> /\ Last(walk).op = "element" /\ phase = "walk"
      /\ UNCHANGED <<steady, requests, phase>> /\ steady \subseteq Elements
  BY DEF SoundOK, WalkOK, KeptOK, PipelineOK, RestOK, Next, Server, SendElement, Walking, history
<1>1. /\ e \in Elements \cup {Root} /\ n \in Nat
      /\ \A i \in 1..n : walk'[i] = walk[i]
      /\ e \in Bins => Len(walk') = n + 2 /\ walk'[n + 1] = Visit("bin", e) /\ walk'[n + 2] = Visit("pads", e)
      /\ e \notin Bins => Len(walk') = n + 1 /\ walk'[n + 1] = Visit("pads", e)
  BY SendFacts DEF SoundOK
<1>2. Last(walk) = walk[n + 1] /\ Len(walk) = n + 1
  <2>1. Len(walk) \in Nat
    BY <1>0, LenProperties
  <2>2. Len(walk) = n + 1
    BY <2>1
  <2>3. Last(walk) = walk[Len(walk)]
    BY <1>0, FrontFacts
  <2> QED  BY <2>2, <2>3
<1>3. walk[n + 1].op = "element" /\ walk[n + 1].of = e
  BY <1>0, <1>2
<1>4. \A a \in steady \cup {Root} : Known(a) => Known(a)' /\ Way(a)' = Way(a)
  BY <1>0, KnownStep
<1>5. /\ Visit("bin", e).op = "bin" /\ Visit("bin", e).of = e /\ Visit("bin", e).seen = {}
      /\ Visit("pads", e).op = "pads"
  BY DEF Visit
<1>6. \A a : Held("element", a)' # {} => Held("element", a) # {}
  <2> SUFFICES ASSUME NEW a, NEW i \in 1..Len(walk'), walk'[i].op = "element", walk'[i].of = a
               PROVE  i \in Held("element", a)
    BY DEF Held
  <2>1. i \in 1..n
    BY <1>1, <1>5
  <2> QED  BY <1>1, <1>2, <2>1 DEF Held
<1>7. \A a : Held("bin", a)' # {} => Held("bin", a) # {} \/ a = e
  <2> SUFFICES ASSUME NEW a, NEW i \in 1..Len(walk'), walk'[i].op = "bin", walk'[i].of = a, a # e
               PROVE  i \in Held("bin", a)
    BY DEF Held
  <2>1. i \in 1..n
    BY <1>1, <1>5
  <2> QED  BY <1>1, <1>2, <2>1 DEF Held
<1>8. e \in steady => Known(e)'
  <2> SUFFICES ASSUME e \in steady PROVE Known(e)'
    OBVIOUS
  <2>1. e \in attached /\ AddElement(e)
    BY <1>0 DEF SteadyOK, SendElement
  <2>2. n + 1 \in Held("element", e)
    BY <1>1, <1>2, <1>3 DEF Held
  <2>3. Known(Parent[e]) /\ Parent[e] \in steady \cup {Root}
    BY <1>0, <2>2 DEF ReachedOK, SteadyOK
  <2>4. Known(Parent[e])' /\ Way(Parent[e])' = Way(Parent[e])
    BY <1>4, <2>3
  <2> QED  BY <1>0, <2>1, <2>3, <2>4, SentIsKnown
<1>9. ReachedOK'
  <2> SUFFICES ASSUME NEW d \in steady
               PROVE  /\ Held("element", d)' # {} => Known(Parent[d])'
                      /\ Held("bin", d)' # {} => Known(d)'
    BY <1>0 DEF ReachedOK
  <2>1. Parent[d] \in steady \cup {Root}
    BY <1>0 DEF SteadyOK
  <2>2. Held("element", d)' # {} => Known(Parent[d])
    BY <1>0, <1>6 DEF ReachedOK
  <2>3. Held("bin", d)' # {} => Known(d) \/ d = e
    BY <1>0, <1>7 DEF ReachedOK
  <2> QED  BY <1>4, <1>8, <2>1, <2>2, <2>3
<1>10. \A a : Pending(a) => Pending(a)' \/ a = e
  <2> SUFFICES ASSUME NEW a, Pending(a), a # e PROVE Pending(a)'
    OBVIOUS
  <2>1. ASSUME NEW i \in Held("element", a) PROVE Pending(a)'
    <3>1. i \in 1..n /\ walk[i].op = "element" /\ walk[i].of = a
      BY <1>1, <1>2, <1>3, <2>1 DEF Held
    <3>2. i \in 1..Len(walk') /\ walk'[i] = walk[i]
      BY <1>1, <3>1
    <3> QED  BY <3>1, <3>2 DEF Pending, Held
  <2>2. ASSUME a \in Elements, NEW i \in Held("bin", Parent[a]), a \notin walk[i].seen PROVE Pending(a)'
    <3>1. i \in 1..n /\ walk[i].op = "bin" /\ walk[i].of = Parent[a]
      BY <1>1, <1>2, <1>3, <2>2 DEF Held
    <3>2. i \in 1..Len(walk') /\ walk'[i] = walk[i]
      BY <1>1, <3>1
    <3> QED  BY <2>2, <3>1, <3>2 DEF Pending, Held
  <2> QED  BY <2>1, <2>2 DEF Pending
<1>11. AnnouncedOK'
  <2> SUFFICES ASSUME requests > 0, NEW d \in steady PROVE Known(d)' \/ \E a \in Up[d] : Pending(a)'
    BY <1>0 DEF AnnouncedOK
  <2>1. CASE Known(d)
    BY <1>4, <2>1
  <2>2. ASSUME NEW a \in Up[d], Pending(a), a # e PROVE \E b \in Up[d] : Pending(b)'
    BY <1>10, <2>2
  <2>3. ASSUME e \in Up[d] PROVE Known(d)' \/ \E b \in Up[d] : Pending(b)'
    <3>1. CASE e = d
      BY <1>8, <3>1
    <3>2. CASE e # d
      <4>1. PICK c \in Up[d] : c \in Elements /\ Parent[c] = e
        BY <1>0, <1>1, <2>3, <3>2, UpWays
      <4>2. e \in Bins
        BY <4>1 DEF Bins
      <4>3. n + 1 \in 1..Len(walk') /\ walk'[n + 1] = Visit("bin", e)
        BY <1>1, <4>2
      <4>4. n + 1 \in Held("bin", Parent[c])' /\ c \notin walk'[n + 1].seen
        BY <1>5, <4>1, <4>3 DEF Held
      <4> QED  BY <4>1, <4>4 DEF Pending
    <3> QED  BY <3>1, <3>2
  <2> QED  BY <1>0, <2>1, <2>2, <2>3 DEF AnnouncedOK
<1> QED  BY <1>0, <1>9, <1>11, SteadyStep DEF KeptOK

\* A pad on the way changes nothing about elements.
LEMMA PadKeepsKept ==
  ASSUME Told, SoundOK, SoundOK', KeptOK, SendPad
  PROVE  KeptOK'
<1> PICK n : n = Len(walk)
  OBVIOUS
<1>0. /\ walk \in Seq(Visits) /\ SteadyOK /\ ReachedOK /\ AnnouncedOK /\ pads \subseteq Pads
      /\ [Next]_vars /\ walk # <<>> /\ Last(walk).op = "pads" /\ phase = "walk"
      /\ UNCHANGED <<steady, requests, phase>>
  BY DEF SoundOK, WalkOK, KeptOK, PipelineOK, Next, Server, SendPad, Walking, history
<1>1. n \in Nat \ {0} /\ walk[n].op = "pads"
  <2>1. Last(walk) = walk[Len(walk)] /\ Len(walk) \in Nat \ {0}
    BY <1>0, FrontFacts, EmptySeq, LenProperties
  <2> QED  BY <1>0, <2>1
<1>2. /\ \A i \in 1..(n - 1) : i \in 1..Len(walk') /\ walk'[i] = walk[i]
      /\ \A i \in 1..Len(walk') : i \in 1..(n - 1) \/ walk'[i].op = "pads"
  <2>1. CASE walk' = Front(walk)
    <3>1. Len(walk') = n - 1 /\ \A i \in 1..(n - 1) : walk'[i] = walk[i]
      BY <1>0, <2>1, FrontFacts
    <3> QED  BY <3>1
  <2>2. ASSUME NEW p \in pads, walk' = [walk EXCEPT ![Len(walk)].seen = @ \cup {p}]
        PROVE  /\ \A i \in 1..(n - 1) : i \in 1..Len(walk') /\ walk'[i] = walk[i]
               /\ \A i \in 1..Len(walk') : i \in 1..(n - 1) \/ walk'[i].op = "pads"
    <3>1. /\ Len(walk') = n /\ \A i \in 1..(n - 1) : walk'[i] = walk[i]
          /\ walk'[n].op = Last(walk).op
      <4>1. p \in Pads \cup Elements
        BY <1>0
      <4> DEFINE next == [walk EXCEPT ![Len(walk)].seen = @ \cup {p}]
      <4>2. /\ Len(next) = Len(walk) /\ \A i \in 1..(Len(walk) - 1) : next[i] = walk[i]
            /\ next[Len(walk)].op = Last(walk).op
        BY <1>0, <4>1, SeenFacts
      <4>3. walk' = next
        BY <2>2
      <4> HIDE DEF next
      <4> QED  BY <4>2, <4>3
    <3> QED  BY <1>0, <1>1, <3>1
  <2>3. \/ \E p \in pads : walk' = [walk EXCEPT ![Len(walk)].seen = @ \cup {p}]
        \/ walk' = Front(walk)
    BY DEF SendPad
  <2> QED  BY <2>1, <2>2, <2>3
<1>3. \A i \in 1..n : i \in 1..(n - 1) \/ i = n
  BY <1>1
<1>4. \A op \in {"element", "bin"} : \A of : Held(op, of)' = Held(op, of)
  <2> SUFFICES ASSUME NEW op \in {"element", "bin"}, NEW of PROVE Held(op, of)' = Held(op, of)
    OBVIOUS
  <2>1. op # "pads"
    OBVIOUS
  <2>2. Held(op, of) = {i \in 1..(n - 1) : walk[i].op = op /\ walk[i].of = of}
    BY <1>1, <1>3, <2>1 DEF Held
  <2>3. Held(op, of)' = {i \in 1..(n - 1) : walk[i].op = op /\ walk[i].of = of}
    BY <1>2, <2>1 DEF Held
  <2> QED  BY <2>2, <2>3
<1>5. \A a \in steady \cup {Root} : Pending(a) => Pending(a)'
  <2> SUFFICES ASSUME NEW a \in steady \cup {Root}, Pending(a) PROVE Pending(a)'
    OBVIOUS
  <2>1. CASE Held("element", a) # {}
    BY <1>4, <2>1 DEF Pending
  <2>2. ASSUME a \in Elements, NEW i \in Held("bin", Parent[a]), a \notin walk[i].seen PROVE Pending(a)'
    <3>1. i \in Held("bin", Parent[a])' /\ i \in 1..(n - 1)
      <4>1. i \in 1..n /\ walk[i].op = "bin"
        BY <2>2 DEF Held
      <4> QED  BY <1>1, <1>3, <1>4, <4>1
    <3>2. a \notin walk'[i].seen
      BY <1>2, <2>2, <3>1
    <3> QED  BY <2>2, <3>1, <3>2 DEF Pending
  <2> QED  BY <2>1, <2>2 DEF Pending
<1>6. ReachedOK' /\ AnnouncedOK'
  BY <1>0, <1>4, <1>5, WalkGoesOn
<1> QED  BY <1>0, <1>6, SteadyStep DEF KeptOK

\* It turns to an element of a bin that is known; it leaves a bin when there is
\* nothing in it that it has not come to.
LEMMA NextKeepsKept ==
  ASSUME Told, SoundOK, SoundOK', KeptOK, NextElement
  PROVE  KeptOK'
<1> PICK n : n = Len(walk)
  OBVIOUS
<1> PICK b : b = Last(walk).of
  OBVIOUS
<1>0. /\ walk \in Seq(Visits) /\ SteadyOK /\ ReachedOK /\ AnnouncedOK /\ NodesOK
      /\ [Next]_vars /\ walk # <<>> /\ Last(walk).op = "bin" /\ phase = "walk"
      /\ UNCHANGED <<steady, requests, phase>>
  BY DEF SoundOK, WalkOK, KeptOK, Next, Server, NextElement, Walking, history
<1>1. /\ n \in Nat \ {0} /\ Last(walk) = walk[n] /\ walk[n].op = "bin" /\ walk[n].of = b
      /\ \A i \in 1..n : i \in 1..(n - 1) \/ i = n
  <2>1. Last(walk) = walk[Len(walk)] /\ Len(walk) \in Nat \ {0}
    BY <1>0, FrontFacts, EmptySeq, LenProperties
  <2> QED  BY <1>0, <2>1
<1>2. SteadyOK'
  BY <1>0, SteadyStep
<1>3. ASSUME walk' = Front(walk), (Children(b) \cap attached) \ walk[n].seen = {} PROVE KeptOK'
  <2>1. Len(walk') = n - 1 /\ \A i \in 1..(n - 1) : walk'[i] = walk[i]
    BY <1>0, <1>3, FrontFacts
  <2>2. \A op, of : Held(op, of)' # {} => Held(op, of) # {}
    <3>1. \A i \in 1..Len(walk') : i \in 1..n /\ walk'[i] = walk[i]
      BY <1>1, <2>1
    <3> QED  BY <3>1 DEF Held
  <2>3. ASSUME NEW a \in steady \cup {Root}, Pending(a) PROVE Pending(a)'
    <3>1. ASSUME NEW i \in Held("element", a) PROVE Pending(a)'
      <4>1. i \in 1..n /\ i # n /\ walk[i].op = "element" /\ walk[i].of = a
        BY <1>1, <3>1 DEF Held
      <4>2. i \in 1..Len(walk') /\ walk'[i] = walk[i]
        BY <1>1, <2>1, <4>1
      <4> QED  BY <4>1, <4>2 DEF Pending, Held
    <3>2. ASSUME a \in Elements, NEW i \in Held("bin", Parent[a]), a \notin walk[i].seen PROVE Pending(a)'
      <4>1. i \in 1..n /\ walk[i].op = "bin" /\ walk[i].of = Parent[a]
        BY <3>2 DEF Held
      <4>2. a \in attached
        BY <1>0, <3>2, DepthFacts DEF SteadyOK
      <4>3. i # n
        BY <1>1, <1>3, <3>2, <4>1, <4>2 DEF Children
      <4>4. i \in 1..Len(walk') /\ walk'[i] = walk[i]
        BY <1>1, <2>1, <4>1, <4>3
      <4> QED  BY <3>2, <4>1, <4>4 DEF Pending, Held
    <3> QED  BY <2>3, <3>1, <3>2 DEF Pending
  <2>4. ReachedOK' /\ AnnouncedOK'
    BY <1>0, <2>2, <2>3, WalkGoesOn
  <2> QED  BY <1>0, <1>2, <2>4 DEF KeptOK
<1>4. ASSUME NEW c \in Children(b), walk' = Append([walk EXCEPT ![Len(walk)].seen = @ \cup {c}], Visit("element", c))
      PROVE  KeptOK'
  <2> DEFINE next == [walk EXCEPT ![Len(walk)].seen = @ \cup {c}]
             v == Visit("element", c)
  <2>0. c \in Elements /\ Parent[c] = b
    BY DEF Children
  <2>1. /\ next \in Seq(Visits) /\ Len(next) = n /\ \A i \in 1..(n - 1) : next[i] = walk[i]
        /\ next[n].op = "bin" /\ next[n].of = b /\ next[n].seen = walk[n].seen \cup {c}
    <3>1. c \in Pads \cup Elements
      BY <2>0
    <3>2. /\ next \in Seq(Visits) /\ Len(next) = Len(walk)
          /\ \A i \in 1..(Len(walk) - 1) : next[i] = walk[i]
          /\ next[Len(walk)].op = Last(walk).op /\ next[Len(walk)].of = Last(walk).of
          /\ next[Len(walk)].seen = Last(walk).seen \cup {c}
      BY <1>0, <3>1, SeenFacts
    <3> HIDE DEF next
    <3> QED  BY <1>0, <1>1, <3>2
  <2>2. v \in Visits /\ v.op = "element" /\ v.of = c
    BY <2>0, VisitFacts
  <2> HIDE DEF next, v
  <2>3. walk' = Append(next, v)
    BY <1>4 DEF next, v
  <2>4. /\ Len(walk') = n + 1 /\ walk'[n + 1] = v /\ walk'[n] = next[n]
        /\ \A i \in 1..(n - 1) : walk'[i] = walk[i]
        /\ \A i \in 1..(n + 1) : i \in 1..n \/ i = n + 1
    BY <1>1, <2>1, <2>2, <2>3
  <2>5. \A i \in 1..n : /\ i \in 1..Len(walk') /\ walk'[i].op = walk[i].op /\ walk'[i].of = walk[i].of
                        /\ walk'[i].seen = walk[i].seen \/ (i = n /\ walk'[i].seen = walk[i].seen \cup {c})
    BY <1>1, <2>1, <2>4
  <2>6. \A of : Held("element", of)' # {} => Held("element", of) # {} \/ of = c
    BY <2>2, <2>4, <2>5 DEF Held
  <2>7. \A of : Held("bin", of)' # {} => Held("bin", of) # {}
    BY <2>2, <2>4, <2>5 DEF Held
  <2>8. n + 1 \in Held("element", c)'
    BY <1>1, <2>2, <2>4 DEF Held
  <2>9. ASSUME NEW a, Pending(a) PROVE Pending(a)'
    <3>1. ASSUME NEW i \in Held("element", a) PROVE Pending(a)'
      BY <2>5, <3>1 DEF Held, Pending
    <3>2. ASSUME a \in Elements, NEW i \in Held("bin", Parent[a]), a \notin walk[i].seen PROVE Pending(a)'
      <4>1. CASE a = c
        BY <2>8, <4>1 DEF Pending
      <4>2. CASE a # c
        <5>1. i \in Held("bin", Parent[a])' /\ a \notin walk'[i].seen
          BY <2>5, <3>2, <4>2 DEF Held
        <5> QED  BY <3>2, <5>1 DEF Pending
      <4> QED  BY <4>1, <4>2
    <3> QED  BY <2>9, <3>1, <3>2 DEF Pending
  <2>10. \A e \in steady \cup {Root} : Known(e) => Known(e)'
    BY <1>0, KnownStep
  <2>11. c \in steady => Known(b)
    <3>1. n \in Held("bin", b)
      BY <1>1 DEF Held
    <3>2. c \in steady => b \in steady \cup {Root}
      BY <1>0, <2>0 DEF SteadyOK
    <3>3. Known(Root)
      BY <1>0, WaysAre DEF WaysOK, Known, Start
    <3> QED  BY <1>0, <3>1, <3>2, <3>3 DEF ReachedOK
  <2>12. ReachedOK'
    <3> SUFFICES ASSUME NEW d \in steady
                 PROVE  /\ Held("element", d)' # {} => Known(Parent[d])'
                        /\ Held("bin", d)' # {} => Known(d)'
      BY <1>0 DEF ReachedOK
    <3>1. Parent[d] \in steady \cup {Root}
      BY <1>0 DEF SteadyOK
    <3>2. Held("element", d)' # {} => Known(Parent[d])
      BY <1>0, <2>0, <2>6, <2>11 DEF ReachedOK
    <3>3. Held("bin", d)' # {} => Known(d)
      BY <1>0, <2>7 DEF ReachedOK
    <3> QED  BY <2>10, <3>1, <3>2, <3>3
  <2>13. AnnouncedOK'
    <3> SUFFICES ASSUME requests > 0, NEW d \in steady PROVE Known(d)' \/ \E a \in Up[d] : Pending(a)'
      BY <1>0 DEF AnnouncedOK
    <3>1. Known(d) \/ \E a \in Up[d] : Pending(a)
      BY <1>0 DEF AnnouncedOK
    <3> QED  BY <2>9, <2>10, <3>1
  <2> QED  BY <1>0, <1>2, <2>12, <2>13 DEF KeptOK
<1>5. \/ \E c \in Children(b) :
           walk' = Append([walk EXCEPT ![Len(walk)].seen = @ \cup {c}], Visit("element", c))
      \/ walk' = Front(walk) /\ (Children(b) \cap attached) \ walk[n].seen = {}
  BY <1>1 DEF NextElement
<1> QED  BY <1>3, <1>4, <1>5

\* All steps together.
LEMMA KeptStep ==
  ASSUME Told, SoundOK, SoundOK', KeptOK, [Next]_vars
  PROVE  KeptOK'
<1>0. SteadyOK /\ ReachedOK /\ AnnouncedOK /\ SteadyOK'
  BY SteadyStep DEF KeptOK
<1>1. CASE \E t \in Threads : Changer(t)
  BY <1>1, ChangerKeepsKept
<1>2. CASE Request
  BY <1>0, <1>2, RequestKeepsKept
<1>3. CASE SendElement
  BY <1>3, SendKeepsKept
<1>4. CASE SendPad
  BY <1>4, PadKeepsKept
<1>5. CASE NextElement
  BY <1>5, NextKeepsKept
<1>6. CASE TakeLink \/ SendLink \/ WalkEnds \/ UNCHANGED vars
  <2>1. UNCHANGED <<walk, requests>> /\ (UNCHANGED phase \/ walk = <<>>)
    BY <1>6 DEF TakeLink, SendLink, WalkEnds, vars, walkVars
  <2>2. \A a : Pending(a) => Pending(a)'
    BY <2>1 DEF Pending, Held
  <2>3. \A op, of : Held(op, of)' = Held(op, of)
    BY <2>1 DEF Held
  <2>4. ReachedOK' /\ AnnouncedOK'
    BY <1>0, <2>1, <2>2, <2>3, WalkGoesOn
  <2>5. phase' # "walk" => walk' = <<>>
    BY <2>1 DEF KeptOK
  <2> QED  BY <1>0, <2>4, <2>5 DEF KeptOK
<1> QED  BY <1>1, <1>2, <1>3, <1>4, <1>5, <1>6 DEF Next, Server

\* When the server thread is through, it has come to everything.
LEMMA KeptIsShown == SoundOK /\ KeptOK => NothingLost
<1> SUFFICES ASSUME SoundOK, KeptOK, requests > 0, phase = "idle", NEW e \in steady
             PROVE  PathOf[e] \in ShownElements
  BY DEF NothingLost, AtRest
<1>1. /\ walk = <<>> /\ NodesOK /\ attached \subseteq Elements /\ SteadyOK
      /\ steady \subseteq Elements /\ (Known(e) \/ \E a \in Up[e] : Pending(a))
  BY DEF KeptOK, SoundOK, PipelineOK, RestOK, AnnouncedOK
<1>2. \A a : ~Pending(a)
  BY <1>1 DEF Pending, Held
<1>3. Known(e)
  BY <1>1, <1>2
<1>4. PathOf[e] = PathIn[e]
  BY <1>1, PathOfConnected DEF SteadyOK
<1>5. Visible[Way(e).at] /\ PathShown[Way(e).at] = PathIn[e]
  <2>1. ShownOK /\ e \in Elements
    BY <1>1, ShownIs
  <2> QED  BY <1>3, <2>1 DEF ShownOK
<1>6. Way(e).at \in DOMAIN nodes
  <2>1. Named(Way(Parent[e]).at, Name[e]) # {} /\ Way(e).at = Min(Named(Way(Parent[e]).at, Name[e]))
    <3>1. e \in Elements
      BY <1>1
    <3> QED  BY <1>1, <1>3, <3>1, KnownIs
  <2>2. Way(e).at \in Named(Way(Parent[e]).at, Name[e])
    BY <1>1, <2>1, NamedFacts
  <2> QED  BY <2>2 DEF Named
<1> QED  BY <1>4, <1>5, <1>6 DEF ShownElements, VisibleNodes

\* gst_debugserver_topology_send_entire_topology, do_bin_add_post,
\* do_bin_remove_pre: whatever threads change while the topology is collected
\* and however often it is asked for, what stays in the pipeline is shown in its
\* place when nothing is under way, if no two elements have the same name.
THEOREM NothingIsLost ==
  ASSUME NamesDiffer
  PROVE  Spec => []NothingLost
<1>1. SoundOK /\ KeptOK /\ [Next]_vars => (SoundOK /\ KeptOK)'
  BY SoundStep, KeptStep DEF Told
<1>2. Init => SoundOK /\ KeptOK
  BY SoundInit, KeptInit
<1> QED  BY <1>1, <1>2, KeptIsShown, PTL DEF Spec

-----------------------------------------------------------------------------
\* A place has one element.
LEMMA PathInIsInjective == \A d, e \in Elements \cup {Root} : PathIn[d] = PathIn[e] => d = e
<1> DEFINE S == {d \in Elements \cup {Root} : \A e \in Elements \cup {Root} : PathIn[d] = PathIn[e] => d = e}
<1>0. /\ \A e \in Elements \cup {Root} : PathIn[e] \in Seq(Names)
      /\ PathIn[Root] = <<>>
      /\ \A e \in Elements : PathIn[e] = Append(PathIn[Parent[e]], Name[e])
      /\ \A e \in Elements : Name[e] \in Names /\ Parent[e] \in Elements \cup {Root}
  BY PathInFacts, DepthFacts DEF Names
<1>1. \A s \in Seq(Names), x \in Names : Append(s, x) # <<>>
  BY SMTT(30)
<1>2. Root \in S
  BY <1>0, <1>1
<1>3. ASSUME NEW s \in Seq(Names), NEW t \in Seq(Names), NEW x \in Names, NEW y \in Names,
             Append(s, x) = Append(t, y)
      PROVE  s = t /\ x = y
  <2>1. x = y /\ Len(s) = Len(t)
    BY <1>3
  <2>2. s = t
    <3>1. \A i \in 1..Len(s) : s[i] = Append(s, x)[i] /\ t[i] = Append(t, y)[i]
      BY <2>1
    <3>2. \A i \in 1..Len(s) : s[i] = t[i]
      BY <1>3, <3>1
    <3> QED  BY <2>1, <3>2
  <2> QED  BY <2>1, <2>2
<1>4. ASSUME NEW d \in Elements, Parent[d] \in S, NEW e \in Elements \cup {Root}, PathIn[d] = PathIn[e]
      PROVE  d = e
  <2>1. PathIn[d] = Append(PathIn[Parent[d]], Name[d])
    BY <1>0
  <2>2. e \in Elements /\ PathIn[e] = Append(PathIn[Parent[e]], Name[e])
    <3>1. Parent[d] \in Elements \cup {Root} /\ Name[d] \in Names
      BY ONLY <1>0, <1>4
    <3>2. Append(PathIn[Parent[d]], Name[d]) # <<>>
      BY ONLY <1>0, <1>1, <3>1
    <3>3. e # Root
      BY ONLY <1>0, <1>4, <2>1, <3>2
    <3>4. e \in Elements
      BY <1>4, <3>3
    <3> QED  BY ONLY <1>0, <3>4
  <2>3. PathIn[Parent[d]] = PathIn[Parent[e]] /\ Name[d] = Name[e]
    <3>1. /\ PathIn[Parent[d]] \in Seq(Names) /\ Name[d] \in Names
          /\ PathIn[Parent[e]] \in Seq(Names) /\ Name[e] \in Names
      BY <1>0, <2>2
    <3>2. Append(PathIn[Parent[d]], Name[d]) = Append(PathIn[Parent[e]], Name[e])
      BY <1>4, <2>1, <2>2
    <3>3. PICK s, t, x, y : s = PathIn[Parent[d]] /\ t = PathIn[Parent[e]] /\ x = Name[d] /\ y = Name[e]
      OBVIOUS
    <3>4. s \in Seq(Names) /\ t \in Seq(Names) /\ x \in Names /\ y \in Names /\ Append(s, x) = Append(t, y)
      BY <3>1, <3>2, <3>3
    <3>5. s = t /\ x = y
      BY <1>3, <3>4
    <3> QED  BY <3>3, <3>5
  <2>4. Parent[d] = Parent[e]
    BY <1>0, <1>4, <2>2, <2>3
  <2>5. d \in Children(Parent[e]) /\ e \in Children(Parent[e]) /\ Parent[e] \in Bins
    BY <2>2, <2>4 DEF Children, Bins
  <2> QED  BY <2>3, <2>5, TreeAssumption
<1>5. Elements \cup {Root} \subseteq S
  <2>1. \A d \in Elements : Parent[d] \in S => d \in S
    BY <1>4
  <2> HIDE DEF S
  <2> QED  BY <1>2, <2>1, DepthInduction
<1> QED  BY <1>5

LEMMA WayIsInjective ==
  ASSUME NodesOK
  PROVE  \A d, e \in Elements \cup {Root} : Known(d) /\ Known(e) /\ Way(d).at = Way(e).at => d = e
<1> SUFFICES ASSUME NEW d \in Elements \cup {Root}, NEW e \in Elements \cup {Root},
                    Known(d), Known(e), Way(d).at = Way(e).at
             PROVE  d = e
  OBVIOUS
<1>1. PathShown[Way(d).at] = PathIn[d] /\ PathShown[Way(e).at] = PathIn[e]
  BY ShownIs DEF ShownOK
<1> QED  BY <1>1, PathInIsInjective

\* What is on the way of a path depends on the models alone.
LEMMA WaysStay ==
  ASSUME NodesOK, NodesOK', UNCHANGED nodes
  PROVE  \A e \in Elements \cup {Root} : Way(e)' = Way(e) /\ (Known(e)' <=> Known(e))
<1> DEFINE S == {e \in Elements \cup {Root} : Way(e)' = Way(e)}
<1>1. WaysOK /\ WaysOK'
  <2>1. NodesOK' => WaysOK'
    BY WaysAre, PTL
  <2> QED  BY <2>1, WaysAre
<1>2. Root \in S
  BY <1>1 DEF WaysOK, Start
<1>3. ASSUME NEW e \in Elements, Way(Parent[e])' = Way(Parent[e]) PROVE Way(e)' = Way(e)
  <2>1. PICK w : w = Way(Parent[e])
    OBVIOUS
  <2>2. Way(e) = Down(w, Name[e])
    BY <1>1, <2>1 DEF WaysOK
  <2>3. Way(e)' = Down(w, Name[e])'
    BY <1>1, <1>3, <2>1 DEF WaysOK
  <2>4. Down(w, Name[e])' = Down(w, Name[e])
    BY DEF Down, Named
  <2> QED  BY <2>2, <2>3, <2>4
<1>4. Elements \cup {Root} \subseteq S
  <2>1. \A e \in Elements : Parent[e] \in S => e \in S
    BY <1>3
  <2> HIDE DEF S
  <2> QED  BY <1>2, <2>1, DepthInduction
<1> QED  BY <1>4 DEF Known

\* What is in the pipeline, and where the debugger looks for it.
Spot(p) == [of |-> Way(p.of).at, dir |-> p.dir]

LEMMA ConnectedFacts ==
  ASSUME attached \subseteq Elements
  PROVE  /\ Connected \subseteq attached
         /\ \A e \in Connected : Parent[e] \in Connected \cup {Root}
         /\ \A e \in attached : Parent[e] \in Connected \cup {Root} => e \in Connected
         /\ \A e \in Connected \cup {Root} : PathOf[e] = PathIn[e] /\ Locate(PathOf[e]) = Way(e).at
         /\ \A p \in Pads : p.of \in Connected => Located(p) = Spot(p)
<1>1. ASSUME NEW e \in Connected PROVE e \in attached /\ Parent[e] \in Connected \cup {Root}
  <2>1. e \in Elements /\ Up[e] \subseteq attached \cup {Root} /\ Up[e] = {e} \cup Up[Parent[e]]
    BY UpFacts DEF Connected
  <2> QED  BY <2>1, DepthFacts DEF Connected
<1>2. ASSUME NEW e \in attached, Parent[e] \in Connected \cup {Root} PROVE e \in Connected
  <2>1. Up[e] = {e} \cup Up[Parent[e]] /\ Up[Parent[e]] \subseteq attached \cup {Root}
    BY <1>2, UpFacts DEF Connected
  <2> QED  BY <2>1 DEF Connected
<1>3. \A e \in Connected \cup {Root} : PathOf[e] = PathIn[e]
  <2> DEFINE D == Connected
  <2>1. D \in SUBSET attached /\ \A e \in D : Parent[e] \in D \cup {Root}
    BY <1>1
  <2> HIDE DEF D
  <2>2. \A e \in D \cup {Root} : PathOf[e] = PathIn[e]
    BY <2>1, PathOfConnected
  <2> QED  BY <2>2 DEF D
<1>4. \A e \in Connected \cup {Root} : Locate(PathOf[e]) = Way(e).at
  BY <1>3, LocateIs DEF Way
<1> QED  BY <1>1, <1>2, <1>3, <1>4 DEF Located, Spot

\* One that is sent after its bin, and only once, becomes known, and nothing else
\* does; what is known stays where it is.
LEMMA SentAlone ==
  ASSUME attached \subseteq Elements, NodesOK, NodesOK', NEW e \in Connected, AddElement(e),
         Known(Parent[e]), ~Known(e)
  PROVE  /\ Known(e)' /\ Way(e)'.at = Len(nodes) + 1 /\ Len(nodes') = Len(nodes) + 1
         /\ \A d \in Elements \cup {Root} : d # e => (Known(d)' <=> Known(d))
         /\ \A d \in Elements \cup {Root} : Known(d) => Way(d)' = Way(d)
<1>1. /\ e \in attached /\ e \in Elements /\ Parent[e] \in Connected \cup {Root} /\ Parent[e] \in Elements \cup {Root}
      /\ Locate(PathOf[Parent[e]]) = Way(Parent[e]).at
  BY ConnectedFacts, DepthFacts
<1>2. PICK at : at = Way(Parent[e]).at
  OBVIOUS
<1>3. PICK n : n = Len(nodes)
  OBVIOUS
<1> DEFINE x == [name |-> Name[e], parent |-> at, shown |-> TRUE]
<1>4. /\ n \in Nat /\ Len(nodes') = n + 1 /\ nodes'[n + 1] = x /\ at \in 0..n
      /\ \A i \in 1..n : nodes'[i] = nodes[i]
      /\ DOMAIN nodes = 1..n /\ DOMAIN nodes' = 1..(n + 1)
  BY <1>1, <1>2, <1>3, AddedIs DEF NodesOK
<1>5. WaysOK /\ WaysOK'
  <2>1. NodesOK' => WaysOK'
    BY WaysAre, PTL
  <2> QED  BY <2>1, WaysAre
<1>6. \A d \in Elements \cup {Root} : Known(d) => Known(d)' /\ Way(d)' = Way(d)
  <2>1. \A d \in Elements, a \in Nat : Named(a, Name[d]) # {} =>
          Named(a, Name[d])' # {} /\ Min(Named(a, Name[d])') = Min(Named(a, Name[d]))
    BY <1>1, NamedStays
  <2>2. \A d \in Elements : Parent[d] \in Elements \cup {Root}
    BY DepthFacts
  <2> QED  BY <2>1, <2>2, KnownStays
\* Where it is new.
<1>7. ASSUME NEW a \in Nat, NEW name
      PROVE  Named(a, name)' \subseteq Named(a, name) \cup (IF a = at /\ name = Name[e] THEN {n + 1} ELSE {})
  <2> SUFFICES ASSUME NEW i \in 1..(n + 1), nodes'[i] = [name |-> name, parent |-> a, shown |-> TRUE]
               PROVE  i \in Named(a, name) \/ (i = n + 1 /\ a = at /\ name = Name[e])
    BY <1>4 DEF Named
  <2>1. CASE i \in 1..n
    BY <1>4, <2>1 DEF Named
  <2>2. CASE i = n + 1
    <3>1. nodes'[i].name = name /\ nodes'[i].parent = a
      OBVIOUS
    <3> QED  BY <1>4, <2>2, <3>1
  <2> QED  BY <1>4, <2>1, <2>2
<1>8. n + 1 \in Named(at, Name[e])'
  BY <1>4 DEF Named
<1>9. Known(Parent[e])' /\ Way(Parent[e])'.at = at
  BY <1>1, <1>2, <1>6
<1>10. Named(at, Name[e]) = {}
  BY <1>1, <1>2, KnownIs
<1>11. Known(e)' /\ Way(e)'.at = n + 1
  <2>1. Named(at, Name[e])' = {n + 1}
    BY <1>4, <1>7, <1>8, <1>10
  <2>2. PICK w : w = Way(Parent[e])'
    OBVIOUS
  <2>3. w.at = at /\ ~w.lost
    BY <1>9, <2>2 DEF Known
  <2>4. w \in Places'
    BY <1>5, <1>1, <2>2 DEF WaysOK
  <2>5. Way(e)' = Down(w, Name[e])'
    BY <1>5, <1>1, <2>2 DEF WaysOK
  <2>6. Way(e)' = [w EXCEPT !.at = Min({n + 1})]
    BY <2>1, <2>3, <2>5 DEF Down
  <2>7. Min({n + 1}) = n + 1
    BY <1>4 DEF Min
  <2> QED  BY <2>3, <2>4, <2>6, <2>7 DEF Known, Places
<1>12. ASSUME NEW d \in Elements, d # e, Known(Parent[d])' => Known(Parent[d]) \/ Parent[d] = e, Known(d)'
       PROVE  Known(d)
  <2>1. PICK a : a = Way(Parent[d])'.at
    OBVIOUS
  <2>2. PICK v : v = Way(Parent[d])'
    OBVIOUS
  <2>3. Way(d)' = Down(v, Name[d])' /\ v \in Places' /\ v.at = a
    BY <1>5, <2>1, <2>2, DepthFacts DEF WaysOK
  <2>4. ~v.lost /\ Named(a, Name[d])' # {}
    <3>1. ~Down(v, Name[d])'.lost
      BY <1>12, <2>3 DEF Known
    <3> QED  BY <2>3, <3>1 DEF Down, Places
  <2>5. Known(Parent[d])' /\ a \in 0..(n + 1)
    BY <1>4, <2>2, <2>3, <2>4 DEF Known, Places
  <2>6. a # n + 1
    <3> SUFFICES ASSUME NEW i \in 1..(n + 1), nodes'[i].parent = n + 1 PROVE FALSE
      <4>1. PICK i \in Named(a, Name[d])' : TRUE
        BY <2>4
      <4>2. i \in 1..(n + 1) /\ nodes'[i].parent = a
        BY <1>4, <4>1 DEF Named
      <4> QED  BY <4>2
    <3>1. nodes'[i].parent < i
      BY <1>4 DEF NodesOK
    <3> QED  BY <1>4, <3>1
  <2>7. Parent[d] # e
    BY <1>11, <2>1, <2>6
  <2>8. Known(Parent[d]) /\ Parent[d] \in Elements \cup {Root}
    BY <1>12, <2>5, <2>7, DepthFacts
  <2>9. Way(Parent[d]).at = a
    BY <1>6, <2>1, <2>8
  <2>10. ~(a = at /\ Name[d] = Name[e])
    <3> SUFFICES ASSUME a = at, Name[d] = Name[e] PROVE FALSE
      OBVIOUS
    <3>1. Parent[d] = Parent[e]
      BY <1>1, <1>2, <2>8, <2>9, WayIsInjective
    <3>2. d \in Children(Parent[e]) /\ e \in Children(Parent[e]) /\ Parent[e] \in Bins
      BY <1>1, <3>1 DEF Children, Bins
    <3> QED  BY <1>12, <3>2, TreeAssumption
  <2>11. Named(a, Name[d]) # {}
    <3>1. a \in Nat
      BY <1>4, <2>5
    <3> QED  BY <1>7, <2>4, <2>10, <3>1
  <2> QED  BY <2>8, <2>9, <2>11, KnownIs
<1> DEFINE S == {d \in Elements \cup {Root} : Known(d)' => Known(d) \/ d = e}
<1>13. Elements \cup {Root} \subseteq S
  <2>1. Root \in S
    BY <1>5 DEF WaysOK, Known, Start
  <2>2. \A d \in Elements : Parent[d] \in S => d \in S
    BY <1>12
  <2> HIDE DEF S
  <2> QED  BY <2>1, <2>2, DepthInduction
<1> QED  BY <1>3, <1>4, <1>6, <1>11, <1>13

-----------------------------------------------------------------------------
\* The first topology, of a pipeline that does not change.
StillOK ==
  /\ \A t \in Threads : task[t] = Nothing
  /\ steady = Connected
  /\ \A l \in links : SameParent(l[1].of, l[2].of)
  /\ \A l, m \in links : l = m \/ {l[1], l[2]} \cap {m[1], m[2]} = {}

\* There is something the server thread has not seen where it iterates.
Awaits(op, of, x) == \E i \in Held(op, of) : x \notin walk[i].seen

\* It is never twice at the same place, and never at what is known already.
VisitsOK ==
  /\ \A op \in {"element", "pads", "bin"}, e \in Elements \cup {Root} :
       /\ Held(op, e) # {} => e \in Connected \cup {Root}
       /\ \A i, j \in Held(op, e) : i = j
  /\ \A e \in Elements \cup {Root} : Held("pads", e) # {} => Known(e)
  /\ \A e \in Connected : Held("element", e) # {} => ~Known(e) /\ ~Awaits("bin", Parent[e], e)
  /\ \A e \in Connected : Awaits("bin", Parent[e], e) => ~Known(e)
  /\ Held("element", Root) # {} => Len(walk) = 1 /\ nodes = <<>>

\* Every model is of something that is there, and the pads of what is known were
\* sent or are still to be.
OnceOK == \A i \in 1..Len(nodes) : \E e \in Connected : Known(e) /\ Way(e).at = i
PadsSentOK ==
  /\ \A q \in DOMAIN peer : \E p \in pads : p.of \in Connected /\ Known(p.of) /\ q = Spot(p)
  /\ \A p \in pads : p.of \in Connected /\ Known(p.of) =>
       Spot(p) \in DOMAIN peer \/ Awaits("pads", p.of, p)

\* Links come after everything else; one whose source was sent is waiting, is
\* about to be sent, or was.
Joined(l) == {Spot(l[1]), Spot(l[2])} \subseteq DOMAIN peer /\ peer[Spot(l[1])] = Spot(l[2])
LinksSentOK ==
  /\ walk # <<>> => \A q \in DOMAIN peer : peer[q] = NoPad
  /\ \A q \in DOMAIN peer : peer[q] # NoPad => \E l \in links :
       /\ Ends(l) \subseteq Connected
       /\ (q = Spot(l[1]) /\ peer[q] = Spot(l[2])) \/ (q = Spot(l[2]) /\ peer[q] = Spot(l[1]))
  /\ \A l \in links : l[1].of \in Connected /\ Known(l[1].of) /\ Spot(l[1]) \in DOMAIN peer =>
       (\E i \in 1..Len(srcs) : srcs[i] = l[1]) \/ (found # <<>> /\ found[1] = l) \/ Joined(l)
  /\ \A i \in 1..Len(srcs) : srcs[i] \in pads /\ srcs[i].of \in Connected /\ Linked(srcs[i])
  /\ found # <<>> => walk = <<>> /\ Len(found) = 1 /\ found[1] \in links /\ Ends(found[1]) \subseteq Connected
FreshOK ==
  /\ requests = 0 => nodes = <<>> /\ peer = <<>> /\ phase = "idle"
  /\ phase # "walk" => srcs = <<>> /\ found = <<>>
SnapOK == StillOK /\ KeptOK /\ VisitsOK /\ OnceOK /\ PadsSentOK /\ LinksSentOK /\ FreshOK

LEMMA SnapInit == Init => SnapOK
<1> SUFFICES ASSUME Init PROVE SnapOK
  OBVIOUS
<1>1. /\ nodes = <<>> /\ peer = <<>> /\ walk = <<>> /\ srcs = <<>> /\ found = <<>> /\ phase = "idle"
      /\ steady = Connected
      /\ \A l \in links : SameParent(l[1].of, l[2].of)
      /\ \A l, m \in links : l = m \/ {l[1], l[2]} \cap {m[1], m[2]} = {}
      /\ \A t \in Threads : task[t] = Nothing
  BY DEF Init
<1>2. Len(nodes) = 0 /\ Len(walk) = 0 /\ Len(srcs) = 0 /\ DOMAIN peer = {}
  BY <1>1
<1>3. \A op, of, x : Held(op, of) = {} /\ ~Awaits(op, of, x)
  BY <1>2 DEF Held, Awaits
<1>4. NodesOK
  BY SoundInit DEF SoundOK
<1>5. \A e \in Elements : ~Known(e)
  <2> SUFFICES ASSUME NEW e \in Elements, Known(e) PROVE FALSE
    OBVIOUS
  <2>1. Named(Way(Parent[e]).at, Name[e]) # {}
    BY <1>4, KnownIs
  <2> QED  BY <1>1, <2>1 DEF Named
<1>6. \A p \in pads : p.of \in Connected => ~Known(p.of)
  BY <1>5 DEF Connected
<1>7. \A l \in links : l[1].of \in Connected => ~Known(l[1].of)
  BY <1>5 DEF Connected
<1> QED  BY <1>1, <1>2, <1>3, <1>6, <1>7, KeptInit
       DEF SnapOK, StillOK, VisitsOK, OnceOK, PadsSentOK, LinksSentOK, FreshOK

\* What the server thread does leaves the pipeline as it is.
LEMMA StillStep ==
  ASSUME SoundOK, StillOK, Server \/ UNCHANGED vars
  PROVE  /\ StillOK' /\ UNCHANGED <<attached, pads, links, steady>> /\ Connected' = Connected
         /\ \A p : Linked(p)' <=> Linked(p)
<1>1. UNCHANGED <<attached, pads, links, steady, task>>
  BY DEF Server, Request, SendElement, SendPad, NextElement, TakeLink, SendLink, WalkEnds, vars,
     pipelineVars, history
<1>2. Connected' = Connected
  BY <1>1 DEF Connected
<1> QED  BY <1>1, <1>2 DEF StillOK, SameParent, Linked

\* Without a new model everything is where it was.
LEMMA SpotsStay ==
  ASSUME SoundOK, SoundOK', UNCHANGED nodes
  PROVE  /\ \A e \in Elements \cup {Root} : (Known(e)' <=> Known(e)) /\ Way(e)' = Way(e)
         /\ \A p \in Pads : Spot(p)' = Spot(p)
<1>1. NodesOK /\ NodesOK'
  BY DEF SoundOK
<1>2. \A e \in Elements \cup {Root} : (Known(e)' <=> Known(e)) /\ Way(e)' = Way(e)
  BY <1>1, WaysStay
<1> QED  BY <1>2, PadFacts DEF Spot

LEMMA SpotIsInjective ==
  ASSUME SoundOK
  PROVE  /\ \A p, q \in Pads : Known(p.of) /\ Known(q.of) /\ Spot(p) = Spot(q) => p = q
         /\ \A p \in Pads : Spot(p) # NoPad /\ Spot(p).dir = p.dir /\ Spot(p).of = Way(p.of).at
                            /\ Way(p.of).at \in 0..Len(nodes)
<1>1. NodesOK /\ \A e \in Elements \cup {Root} : Way(e) \in Places
  BY WaysAre DEF SoundOK, WaysOK
<1>2. \A p \in Pads : p.of \in Elements /\ p = [of |-> p.of, dir |-> p.dir]
  BY PadsAssumption
<1>3. Len(nodes) \in Nat
  BY <1>1 DEF NodesOK
<1>4. \A p \in Pads : Way(p.of).at \in 0..Len(nodes)
  BY <1>1, <1>2 DEF Places
<1>5. \A p \in Pads : Spot(p).dir = p.dir /\ Spot(p).of = Way(p.of).at
  BY DEF Spot
<1>6. \A p \in Pads : Spot(p) # NoPad
  BY <1>3, <1>4, <1>5 DEF NoPad
<1>7. ASSUME NEW p \in Pads, NEW q \in Pads, Known(p.of), Known(q.of), Spot(p) = Spot(q) PROVE p = q
  <2>1. p.dir = q.dir /\ Way(p.of).at = Way(q.of).at
    BY <1>5, <1>7
  <2>2. p.of = q.of
    BY <1>1, <1>2, <1>7, <2>1, WayIsInjective
  <2> QED  BY <1>2, <2>1, <2>2
<1> QED  BY <1>4, <1>5, <1>6, <1>7

\* Where the server thread is after each of its steps.
LEMMA SendWalk ==
  ASSUME WalkOK, SendElement, NEW e, e = Last(walk).of
  PROVE  /\ e \in Elements \cup {Root} /\ Held("element", e) # {} /\ walk # <<>>
         /\ \A op, d : Held(op, d)' \subseteq Held(op, d) \/ (d = e /\ op # "element")
         /\ \A op, d, x : Awaits(op, d, x)' => Awaits(op, d, x) \/ (d = e /\ op # "element")
         /\ \A op, d, x : Awaits(op, d, x) /\ op # "element" => Awaits(op, d, x)'
         /\ \A x : Awaits("pads", e, x)'
         /\ (\A i, j \in Held("element", e) : i = j) => Held("element", e)' = {}
         /\ \A op \in {"pads", "bin"} : Held(op, e) = {} => \A i, j \in Held(op, e)' : i = j
         /\ (Len(walk) = 1 => \A op \in {"pads", "bin"} : \A d : Held(op, d) = {})
<1> PICK n : n = Len(walk) - 1
  OBVIOUS
<1>1. /\ e \in Elements \cup {Root} /\ n \in Nat /\ walk' \in Seq(Visits)
      /\ \A i \in 1..n : walk'[i] = walk[i]
      /\ e \in Bins => Len(walk') = n + 2 /\ walk'[n + 1] = Visit("bin", e) /\ walk'[n + 2] = Visit("pads", e)
      /\ e \notin Bins => Len(walk') = n + 1 /\ walk'[n + 1] = Visit("pads", e)
  BY SendFacts
<1>2. walk \in Seq(Visits) /\ walk # <<>> /\ Len(walk) = n + 1
  <2>1. walk \in Seq(Visits) /\ walk # <<>>
    BY DEF WalkOK, SendElement, Walking
  <2> QED  BY <2>1
<1>3. walk[n + 1].op = "element" /\ walk[n + 1].of = e
  BY <1>2, FrontFacts DEF SendElement, Walking
<1>4. n + 1 \in Held("element", e)
  BY <1>1, <1>2, <1>3 DEF Held
<1>5. \A i \in 1..Len(walk) : i \in 1..n \/ i = n + 1
  BY <1>1, <1>2
<1>6. \A i \in 1..n : i \in 1..Len(walk) /\ i \in 1..Len(walk')
  BY <1>1, <1>2
<1>7. /\ Visit("bin", e).op = "bin" /\ Visit("bin", e).of = e /\ Visit("bin", e).seen = {}
      /\ Visit("pads", e).op = "pads" /\ Visit("pads", e).of = e /\ Visit("pads", e).seen = {}
  BY <1>1, VisitFacts
<1>8. \A i \in 1..Len(walk') : i \in 1..n \/ (walk'[i].of = e /\ walk'[i].op \in {"pads", "bin"})
  <2> SUFFICES ASSUME NEW i \in 1..Len(walk'), i \notin 1..n
               PROVE  walk'[i].of = e /\ walk'[i].op \in {"pads", "bin"}
    OBVIOUS
  <2>1. CASE e \in Bins
    <3>1. i = n + 1 \/ i = n + 2
      BY <1>1, <2>1
    <3> QED  BY <1>1, <1>7, <2>1, <3>1
  <2>2. CASE e \notin Bins
    <3>1. i = n + 1
      BY <1>1, <2>2
    <3> QED  BY <1>1, <1>7, <2>2, <3>1
  <2> QED  BY <2>1, <2>2
<1>9. \A op, d, i : i \in Held(op, d)' => (i \in 1..n /\ i \in Held(op, d)) \/ (d = e /\ op \in {"pads", "bin"})
  BY <1>1, <1>6, <1>8 DEF Held
<1>10. \A op, d, i : i \in Held(op, d) /\ op # "element" => i \in Held(op, d)' /\ i \in 1..n
  BY <1>1, <1>3, <1>5, <1>6 DEF Held
<1>11. \A x : Awaits("pads", e, x)'
  <2>1. PICK i \in 1..Len(walk') : walk'[i] = Visit("pads", e)
    <3>1. CASE e \in Bins
      <4>1. n + 2 \in 1..Len(walk') /\ walk'[n + 2] = Visit("pads", e)
        BY <1>1, <3>1
      <4> QED  BY <4>1
    <3>2. CASE e \notin Bins
      <4>1. n + 1 \in 1..Len(walk') /\ walk'[n + 1] = Visit("pads", e)
        BY <1>1, <3>2
      <4> QED  BY <4>1
    <3> QED  BY <3>1, <3>2
  <2>2. i \in Held("pads", e)' /\ walk'[i].seen = {}
    BY <1>7, <2>1 DEF Held
  <2> QED  BY <2>2 DEF Awaits
<1>12. \A op, d, x : Awaits(op, d, x)' => Awaits(op, d, x) \/ (d = e /\ op # "element")
  BY <1>1, <1>9 DEF Awaits
<1>13. \A op, d, x : Awaits(op, d, x) /\ op # "element" => Awaits(op, d, x)'
  BY <1>1, <1>10 DEF Awaits
<1>14. (\A i, j \in Held("element", e) : i = j) => Held("element", e)' = {}
  <2> SUFFICES ASSUME \A i, j \in Held("element", e) : i = j, NEW i \in Held("element", e)' PROVE FALSE
    OBVIOUS
  <2>1. i \in 1..n /\ i \in Held("element", e)
    BY <1>9
  <2>2. i = n + 1
    BY <1>4, <2>1
  <2> QED  BY <1>1, <2>1, <2>2
<1>15. ASSUME NEW op \in {"pads", "bin"}, Held(op, e) = {}, NEW i \in Held(op, e)', NEW j \in Held(op, e)'
       PROVE  i = j
  <2>1. /\ i \in 1..Len(walk') /\ j \in 1..Len(walk') /\ i \notin 1..n /\ j \notin 1..n
        /\ walk'[i].op = op /\ walk'[j].op = op
    <3>1. \A k \in Held(op, e)' : k \in 1..Len(walk') /\ walk'[k].op = op /\ walk'[k].of = e
      BY DEF Held
    <3>2. \A k \in 1..n : k \notin Held(op, e)'
      <4> SUFFICES ASSUME NEW k \in 1..n, k \in Held(op, e)' PROVE FALSE
        OBVIOUS
      <4>1. k \in Held(op, e)
        BY <1>1, <1>6, <3>1 DEF Held
      <4> QED  BY <1>15, <4>1
    <3> QED  BY <1>15, <3>1, <3>2
  <2>2. CASE e \in Bins
    <3>1. (i = n + 1 \/ i = n + 2) /\ (j = n + 1 \/ j = n + 2)
      BY <1>1, <2>1, <2>2
    <3> QED  BY <1>1, <1>7, <2>1, <2>2, <3>1
  <2>3. CASE e \notin Bins
    BY <1>1, <2>1, <2>3
  <2> QED  BY <2>2, <2>3
<1>16. Len(walk) = 1 => \A op \in {"pads", "bin"} : \A d : Held(op, d) = {}
  <2> SUFFICES ASSUME Len(walk) = 1, NEW op \in {"pads", "bin"}, NEW d, NEW i \in Held(op, d) PROVE FALSE
    OBVIOUS
  <2>1. i \in 1..n
    BY <1>10
  <2> QED  BY <1>1, <1>2, <2>1
<1>17. \A op, d : Held(op, d)' \subseteq Held(op, d) \/ (d = e /\ op # "element")
  BY <1>9
<1> QED  BY <1>1, <1>2, <1>4, <1>11, <1>12, <1>13, <1>14, <1>15, <1>16, <1>17

LEMMA PadWalk ==
  ASSUME WalkOK, pads \subseteq Pads, SendPad, NEW b, b = Last(walk).of
  PROVE  /\ b \in Elements \cup {Root} /\ Held("pads", b) # {} /\ walk # <<>> /\ Last(walk).op = "pads"
         /\ \A op, d : Held(op, d)' \subseteq Held(op, d)
         /\ \A op, d, x : Awaits(op, d, x)' => Awaits(op, d, x)
         /\ \A op, d, x : Awaits(op, d, x) => Awaits(op, d, x)' \/ (op = "pads" /\ d = b)
         /\ \/ \E p \in pads : /\ p.of = b /\ AddPad(p) /\ srcs' = IF Collects(p) THEN Append(srcs, p) ELSE srcs
                               /\ \A x : Awaits("pads", b, x) => Awaits("pads", b, x)' \/ x = p
            \/ /\ \A x \in pads : x.of = b => x \in Last(walk).seen
               /\ UNCHANGED <<srcs, nodes, peer>>
               /\ (\A i, j \in Held("pads", b) : i = j) =>
                    \A x : Awaits("pads", b, x) => x \notin Last(walk).seen
<1> PICK n : n = Len(walk)
  OBVIOUS
<1>1. /\ walk \in Seq(Visits) /\ walk # <<>> /\ n \in Nat \ {0} /\ Last(walk) = walk[n]
      /\ walk[n].op = "pads" /\ walk[n].of = b /\ n \in 1..n /\ b \in Elements \cup {Root}
      /\ \A i \in 1..n : i \in 1..(n - 1) \/ i = n
  <2>1. walk \in Seq(Visits) /\ walk # <<>> /\ Last(walk).op = "pads"
    BY DEF WalkOK, SendPad, Walking
  <2>2. Last(walk) \in Visits /\ Last(walk) = walk[Len(walk)] /\ Len(walk) \in Nat \ {0}
    BY <2>1, FrontFacts, EmptySeq, LenProperties
  <2>3. b \in Elements \cup {Root}
    BY <2>2 DEF Visits
  <2> QED  BY <2>1, <2>2, <2>3
<1>2. n \in Held("pads", b)
  BY <1>1 DEF Held
<1>3. ASSUME walk' = Front(walk)
      PROVE  /\ \A op, d : Held(op, d)' \subseteq Held(op, d)
             /\ \A op, d, x : Awaits(op, d, x)' => Awaits(op, d, x)
             /\ \A op, d, x : Awaits(op, d, x) => Awaits(op, d, x)' \/ (op = "pads" /\ d = b)
  <2>1. Len(walk') = n - 1 /\ \A i \in 1..(n - 1) : i \in 1..Len(walk') /\ walk'[i] = walk[i] /\ i \in 1..n
    BY <1>1, <1>3, FrontFacts
  <2>2. \A i \in 1..Len(walk') : i \in 1..n /\ walk'[i] = walk[i]
    BY <2>1
  <2>3. \A op, d : Held(op, d)' \subseteq Held(op, d)
    BY <2>2 DEF Held
  <2>4. \A op, d : \A i \in Held(op, d) : i \in Held(op, d)' \/ (op = "pads" /\ d = b)
    BY <1>1, <2>1 DEF Held
  <2>5. \A op, d : \A i \in Held(op, d)' : walk'[i] = walk[i]
    BY <2>2 DEF Held
  <2>6. \A op, d, x : Awaits(op, d, x)' => Awaits(op, d, x)
    BY <2>3, <2>5 DEF Awaits
  <2>7. \A op, d, x : Awaits(op, d, x) => Awaits(op, d, x)' \/ (op = "pads" /\ d = b)
    BY <2>4, <2>5 DEF Awaits
  <2> QED  BY <2>3, <2>6, <2>7
<1>4. ASSUME NEW p \in pads, walk' = [walk EXCEPT ![Len(walk)].seen = @ \cup {p}]
      PROVE  /\ \A op, d : Held(op, d)' = Held(op, d)
             /\ \A op, d, x : Awaits(op, d, x)' => Awaits(op, d, x)
             /\ \A op, d, x : Awaits(op, d, x) => Awaits(op, d, x)' \/ (op = "pads" /\ d = b)
             /\ \A x : Awaits("pads", b, x) => Awaits("pads", b, x)' \/ x = p
  <2>1. /\ Len(walk') = n /\ \A i \in 1..(n - 1) : walk'[i] = walk[i]
        /\ walk'[n].op = "pads" /\ walk'[n].of = b /\ walk'[n].seen = walk[n].seen \cup {p}
    <3>1. p \in Pads \cup Elements
      OBVIOUS
    <3> DEFINE next == [walk EXCEPT ![Len(walk)].seen = @ \cup {p}]
    <3>2. /\ Len(next) = Len(walk) /\ \A i \in 1..(Len(walk) - 1) : next[i] = walk[i]
          /\ next[Len(walk)].op = Last(walk).op /\ next[Len(walk)].of = Last(walk).of
          /\ next[Len(walk)].seen = Last(walk).seen \cup {p}
      BY <1>1, <3>1, SeenFacts
    <3>3. walk' = next
      BY <1>4
    <3> HIDE DEF next
    <3> QED  BY <1>1, <3>2, <3>3
  <2>2. \A i \in 1..n : /\ walk'[i].op = walk[i].op /\ walk'[i].of = walk[i].of
                        /\ walk'[i].seen = walk[i].seen \/ (i = n /\ walk'[i].seen = walk[i].seen \cup {p})
    BY <1>1, <2>1
  <2>3. \A op, d : Held(op, d)' = Held(op, d)
    BY <2>1, <2>2 DEF Held
  <2>4. \A op, d, x : Awaits(op, d, x)' => Awaits(op, d, x)
    <3> SUFFICES ASSUME NEW op, NEW d, NEW x, NEW i \in Held(op, d)', x \notin walk'[i].seen
                 PROVE  Awaits(op, d, x)
      BY DEF Awaits
    <3>1. i \in Held(op, d)
      BY <2>3
    <3>2. i \in 1..n
      BY <3>1 DEF Held
    <3> QED  BY <2>2, <3>1, <3>2 DEF Awaits
  <2>5. \A op, d, x : Awaits(op, d, x) => Awaits(op, d, x)' \/ (x = p /\ op = "pads" /\ d = b)
    <3> SUFFICES ASSUME NEW op, NEW d, NEW x, NEW i \in Held(op, d), x \notin walk[i].seen
                 PROVE  Awaits(op, d, x)' \/ (x = p /\ op = "pads" /\ d = b)
      BY DEF Awaits
    <3>0. i \in 1..n /\ walk[i].op = op /\ walk[i].of = d
      BY DEF Held
    <3>1. i \in Held(op, d)' /\ i \in 1..n /\ walk[i].op = op /\ walk[i].of = d
      BY <2>3, <3>0
    <3>2. CASE x \notin walk'[i].seen
      BY <3>1, <3>2 DEF Awaits
    <3>3. CASE x \in walk'[i].seen
      BY <1>1, <2>2, <3>1, <3>3
    <3> QED  BY <3>2, <3>3
  <2> QED  BY <2>3, <2>4, <2>5
<1>5. ASSUME \A i, j \in Held("pads", b) : i = j, NEW x, Awaits("pads", b, x) PROVE x \notin Last(walk).seen
  BY <1>1, <1>2, <1>5 DEF Awaits
<1>6. \/ \E p \in pads : /\ p.of = b /\ AddPad(p) /\ srcs' = IF Collects(p) THEN Append(srcs, p) ELSE srcs
                         /\ walk' = [walk EXCEPT ![Len(walk)].seen = @ \cup {p}]
      \/ /\ \A x \in pads : x.of = b => x \in Last(walk).seen
         /\ UNCHANGED <<srcs, nodes, peer>> /\ walk' = Front(walk)
  BY DEF SendPad, mirrorVars
<1>7. ASSUME NEW p \in pads, p.of = b, AddPad(p), srcs' = IF Collects(p) THEN Append(srcs, p) ELSE srcs,
             walk' = [walk EXCEPT ![Len(walk)].seen = @ \cup {p}]
      PROVE  /\ \A op, d : Held(op, d)' \subseteq Held(op, d)
             /\ \A op, d, x : Awaits(op, d, x)' => Awaits(op, d, x)
             /\ \A op, d, x : Awaits(op, d, x) => Awaits(op, d, x)' \/ (op = "pads" /\ d = b)
             /\ \E r \in pads : /\ r.of = b /\ AddPad(r) /\ srcs' = IF Collects(r) THEN Append(srcs, r) ELSE srcs
                                /\ \A x : Awaits("pads", b, x) => Awaits("pads", b, x)' \/ x = r
  BY <1>4, <1>7
<1>8. CASE /\ \A x \in pads : x.of = b => x \in Last(walk).seen
           /\ UNCHANGED <<srcs, nodes, peer>> /\ walk' = Front(walk)
  BY <1>1, <1>2, <1>3, <1>5, <1>8
<1> QED  BY <1>1, <1>2, <1>6, <1>7, <1>8

LEMMA NextWalk ==
  ASSUME WalkOK, NextElement, NEW b, b = Last(walk).of
  PROVE  /\ b \in Elements \cup {Root} /\ Held("bin", b) # {}
         /\ Len(walk) = 1 => \A d : Held("element", d) = {}
         /\ \A op, d, x : Awaits(op, d, x) => Awaits(op, d, x)' \/ (op = "bin" /\ d = b)
         /\ \A op, d, x : op # "element" /\ Awaits(op, d, x)' => Awaits(op, d, x)
         /\ \/ \A op, d : Held(op, d)' \subseteq Held(op, d)
            \/ \E c \in Children(b) \cap attached :
                 /\ Awaits("bin", b, c)
                 /\ (\A i, j \in Held("bin", b) : i = j) => ~Awaits("bin", b, c)'
                 /\ \A op, d : Held(op, d)' \subseteq Held(op, d) \/ (op = "element" /\ d = c)
                 /\ Held("element", c) = {} => \A i, j \in Held("element", c)' : i = j
<1> PICK n : n = Len(walk)
  OBVIOUS
<1>1. /\ walk \in Seq(Visits) /\ walk # <<>> /\ n \in Nat \ {0} /\ Last(walk) = walk[n]
      /\ walk[n].op = "bin" /\ walk[n].of = b /\ n \in 1..n /\ b \in Elements \cup {Root}
      /\ \A i \in 1..n : i \in 1..(n - 1) \/ i = n
  <2>1. walk \in Seq(Visits) /\ walk # <<>> /\ Last(walk).op = "bin"
    BY DEF WalkOK, NextElement, Walking
  <2>2. Last(walk) \in Visits /\ Last(walk) = walk[Len(walk)] /\ Len(walk) \in Nat \ {0}
    BY <2>1, FrontFacts, EmptySeq, LenProperties
  <2>3. b \in Elements \cup {Root}
    BY <2>2 DEF Visits
  <2> QED  BY <2>1, <2>2, <2>3
<1>2. n \in Held("bin", b)
  BY <1>1 DEF Held
<1>3. Len(walk) = 1 => \A d : Held("element", d) = {}
  <2> SUFFICES ASSUME Len(walk) = 1, NEW d, NEW i \in Held("element", d) PROVE FALSE
    OBVIOUS
  <2>1. i = n /\ walk[i].op = "element"
    BY <1>1 DEF Held
  <2> QED  BY <1>1, <2>1
<1>4. ASSUME walk' = Front(walk)
      PROVE  /\ \A op, d : Held(op, d)' \subseteq Held(op, d)
             /\ \A op, d, x : Awaits(op, d, x)' => Awaits(op, d, x)
             /\ \A op, d, x : Awaits(op, d, x) => Awaits(op, d, x)' \/ (op = "bin" /\ d = b)
  <2>1. Len(walk') = n - 1 /\ \A i \in 1..(n - 1) : i \in 1..Len(walk') /\ walk'[i] = walk[i] /\ i \in 1..n
    BY <1>1, <1>4, FrontFacts
  <2>2. \A i \in 1..Len(walk') : i \in 1..n /\ walk'[i] = walk[i]
    BY <2>1
  <2>3. \A op, d : Held(op, d)' \subseteq Held(op, d)
    BY <2>2 DEF Held
  <2>4. \A op, d : \A i \in Held(op, d) : i \in Held(op, d)' \/ (op = "bin" /\ d = b)
    BY <1>1, <2>1 DEF Held
  <2>5. \A op, d : \A i \in Held(op, d)' : walk'[i] = walk[i]
    BY <2>2 DEF Held
  <2>6. \A op, d, x : Awaits(op, d, x)' => Awaits(op, d, x)
    BY <2>3, <2>5 DEF Awaits
  <2>7. \A op, d, x : Awaits(op, d, x) => Awaits(op, d, x)' \/ (op = "bin" /\ d = b)
    BY <2>4, <2>5 DEF Awaits
  <2> QED  BY <2>3, <2>6, <2>7
<1>5. ASSUME NEW c \in (Children(b) \cap attached) \ walk[n].seen,
             walk' = Append([walk EXCEPT ![Len(walk)].seen = @ \cup {c}], Visit("element", c))
      PROVE  /\ \A op, d, x : Awaits(op, d, x) => Awaits(op, d, x)' \/ (op = "bin" /\ d = b)
             /\ \A op, d, x : op # "element" /\ Awaits(op, d, x)' => Awaits(op, d, x)
             /\ Awaits("bin", b, c)
             /\ (\A i, j \in Held("bin", b) : i = j) => ~Awaits("bin", b, c)'
             /\ \A op, d : Held(op, d)' \subseteq Held(op, d) \/ (op = "element" /\ d = c)
             /\ Held("element", c) = {} => \A i, j \in Held("element", c)' : i = j
  <2> DEFINE next == [walk EXCEPT ![Len(walk)].seen = @ \cup {c}]
             v == Visit("element", c)
  <2>0. c \in Elements /\ Parent[c] = b
    BY DEF Children
  <2>1. /\ next \in Seq(Visits) /\ Len(next) = n /\ \A i \in 1..(n - 1) : next[i] = walk[i]
        /\ next[n].op = "bin" /\ next[n].of = b /\ next[n].seen = walk[n].seen \cup {c}
    <3>1. c \in Pads \cup Elements
      BY <2>0
    <3>2. /\ next \in Seq(Visits) /\ Len(next) = Len(walk)
          /\ \A i \in 1..(Len(walk) - 1) : next[i] = walk[i]
          /\ next[Len(walk)].op = Last(walk).op /\ next[Len(walk)].of = Last(walk).of
          /\ next[Len(walk)].seen = Last(walk).seen \cup {c}
      BY <1>1, <3>1, SeenFacts
    <3> HIDE DEF next
    <3> QED  BY <1>1, <3>2
  <2>2. v \in Visits /\ v.op = "element" /\ v.of = c
    BY <2>0, VisitFacts
  <2> HIDE DEF next, v
  <2>3. walk' = Append(next, v)
    BY <1>5 DEF next, v
  <2>4. /\ Len(walk') = n + 1 /\ walk'[n + 1] = v /\ walk'[n] = next[n]
        /\ \A i \in 1..(n - 1) : walk'[i] = walk[i]
        /\ \A i \in 1..(n + 1) : i \in 1..n \/ i = n + 1
    BY <1>1, <2>1, <2>2, <2>3
  <2>5. \A i \in 1..n : /\ i \in 1..Len(walk') /\ walk'[i].op = walk[i].op /\ walk'[i].of = walk[i].of
                        /\ walk'[i].seen = walk[i].seen \/ (i = n /\ walk'[i].seen = walk[i].seen \cup {c})
    BY <1>1, <2>1, <2>4
  <2>6. \A op, d : \A i \in Held(op, d)' : (i \in 1..n /\ i \in Held(op, d)) \/ (i = n + 1 /\ op = "element" /\ d = c)
    BY <2>2, <2>4, <2>5 DEF Held
  <2>7. \A op, d : \A i \in Held(op, d) : i \in 1..n /\ i \in Held(op, d)'
    BY <2>5 DEF Held
  <2>8. Awaits("bin", b, c)
    BY <1>2 DEF Awaits
  <2>9. \A op, d, x : Awaits(op, d, x) => Awaits(op, d, x)' \/ (op = "bin" /\ d = b)
    <3> SUFFICES ASSUME NEW op, NEW d, NEW x, NEW i \in Held(op, d), x \notin walk[i].seen
                 PROVE  Awaits(op, d, x)' \/ (op = "bin" /\ d = b)
      BY DEF Awaits
    <3>1. i \in Held(op, d)' /\ i \in 1..n
      BY <2>7
    <3>2. CASE walk'[i].seen = walk[i].seen
      BY <3>1, <3>2 DEF Awaits
    <3>3. CASE i = n
      BY <1>1, <3>3 DEF Held
    <3> QED  BY <2>5, <3>1, <3>2, <3>3
  <2>10. \A op, d, x : op # "element" /\ Awaits(op, d, x)' => Awaits(op, d, x)
    <3> SUFFICES ASSUME NEW op, NEW d, NEW x, NEW i \in Held(op, d)', x \notin walk'[i].seen, op # "element"
                 PROVE  Awaits(op, d, x)
      BY DEF Awaits
    <3>1. i \in Held(op, d) /\ i \in 1..n
      BY <2>6
    <3> QED  BY <2>5, <3>1 DEF Awaits
  <2>11. (\A i, j \in Held("bin", b) : i = j) => ~Awaits("bin", b, c)'
    <3> SUFFICES ASSUME \A i, j \in Held("bin", b) : i = j, NEW i \in Held("bin", b)', c \notin walk'[i].seen
                 PROVE  FALSE
      BY DEF Awaits
    <3>1. i \in Held("bin", b)
      BY <2>6
    <3>2. i = n
      BY <1>2, <3>1
    <3> QED  BY <2>1, <2>4, <3>2
  <2>12. Held("element", c) = {} => \A i, j \in Held("element", c)' : i = j
    BY <2>6
  <2>13. \A op, d : Held(op, d)' \subseteq Held(op, d) \/ (op = "element" /\ d = c)
    BY <2>6
  <2> QED  BY <2>8, <2>9, <2>10, <2>11, <2>12, <2>13
<1>6. \/ \E c \in (Children(b) \cap attached) \ walk[n].seen :
           walk' = Append([walk EXCEPT ![Len(walk)].seen = @ \cup {c}], Visit("element", c))
      \/ walk' = Front(walk)
  BY <1>1 DEF NextElement
<1>7. CASE walk' = Front(walk)
  BY <1>1, <1>2, <1>3, <1>4, <1>7
<1>8. CASE \E c \in (Children(b) \cap attached) \ walk[n].seen :
             walk' = Append([walk EXCEPT ![Len(walk)].seen = @ \cup {c}], Visit("element", c))
  <2>1. PICK c \in (Children(b) \cap attached) \ walk[n].seen :
             walk' = Append([walk EXCEPT ![Len(walk)].seen = @ \cup {c}], Visit("element", c))
    BY <1>8
  <2>2. c \in Children(b) \cap attached
    OBVIOUS
  <2> QED  BY <1>1, <1>2, <1>3, <1>5, <2>1, <2>2
<1> QED  BY <1>6, <1>7, <1>8

\* What the steps have in common.
LEMMA SnapFacts ==
  ASSUME SoundOK, SnapOK
  PROVE  /\ attached \subseteq Elements /\ Connected \subseteq attached /\ NodesOK /\ WalkOK /\ Known(Root)
         /\ \A e \in Connected : Parent[e] \in Connected \cup {Root} /\ e # Root /\ Parent[e] # e
         /\ \A e \in attached : Parent[e] \in Connected \cup {Root} => e \in Connected
         /\ \A e \in Connected : /\ Held("element", e) # {} => Known(Parent[e])
                                 /\ Held("bin", e) # {} => Known(e)
         /\ \A p \in Pads : p.of \in Elements /\ (p.of \in Connected => Located(p) = Spot(p))
         /\ \A e \in Elements : Known(e) => Known(Parent[e])
         /\ pads \subseteq Pads /\ links \subseteq Pairs /\ (phase = "walk" => requests > 0)
         /\ \A op, d, oq, e : Len(walk) = 1 /\ Held(op, d) # {} /\ Held(oq, e) # {} => op = oq /\ d = e
<1>1. attached \subseteq Elements /\ NodesOK /\ WalkOK /\ pads \subseteq Pads /\ links \subseteq Pairs /\ requests \in Nat
  BY DEF SoundOK, PipelineOK, RestOK
<1>2. Connected \subseteq attached /\ \A e \in Connected : Parent[e] \in Connected \cup {Root}
  BY <1>1, ConnectedFacts
<1>3. \A e \in attached : Parent[e] \in Connected \cup {Root} => e \in Connected
  BY <1>1, ConnectedFacts
<1>4. \A e \in Connected : e # Root /\ Parent[e] # e
  <2> SUFFICES ASSUME NEW e \in Connected PROVE e # Root /\ Parent[e] # e
    OBVIOUS
  <2>1. e \in Elements /\ Depth[Parent[e]] < Depth[e] /\ Depth[e] \in Nat
    BY <1>1, <1>2, DepthFacts
  <2> QED  BY <2>1, DepthFacts
<1>5. \A e \in Connected : /\ Held("element", e) # {} => Known(Parent[e])
                           /\ Held("bin", e) # {} => Known(e)
  BY DEF SnapOK, StillOK, KeptOK, ReachedOK
<1>6. \A p \in Pads : p.of \in Elements /\ (p.of \in Connected => Located(p) = Spot(p))
  BY <1>1, PadFacts, ConnectedFacts
<1>7. \A e \in Elements : Known(e) => Known(Parent[e])
  BY <1>1, KnownIs
<1>8. Known(Root)
  BY <1>1, WaysAre DEF WaysOK, Known, Start
<1>9. phase = "walk" => requests > 0
  BY <1>1 DEF SnapOK, FreshOK
<1>10. \A op, d, oq, e : Len(walk) = 1 /\ Held(op, d) # {} /\ Held(oq, e) # {} => op = oq /\ d = e
  BY DEF Held
<1> QED  BY <1>1, <1>2, <1>3, <1>4, <1>5, <1>6, <1>7, <1>8, <1>9, <1>10

\* An element is sent.
LEMMA SendKeepsVisits ==
  ASSUME SoundOK, SoundOK', SnapOK, SendElement, NEW e \in attached, e = Last(walk).of
  PROVE  /\ VisitsOK' /\ e \in Connected /\ AddElement(e) /\ Known(Parent[e]) /\ ~Known(e)
<1>1. /\ attached \subseteq Elements /\ Connected \subseteq attached /\ NodesOK /\ WalkOK /\ NodesOK'
      /\ \A d \in Connected : Parent[d] \in Connected \cup {Root} /\ d # Root /\ Parent[d] # d
      /\ \A d \in Connected : /\ Held("element", d) # {} => Known(Parent[d])
                              /\ Held("bin", d) # {} => Known(d)
      /\ \A d \in Elements : Known(d) => Known(Parent[d])
      /\ \A op, d, oq, a : Len(walk) = 1 /\ Held(op, d) # {} /\ Held(oq, a) # {} => op = oq /\ d = a
  BY SnapFacts DEF SoundOK
<1>2. /\ e \in Elements \cup {Root} /\ Held("element", e) # {}
      /\ \A op, d : Held(op, d)' \subseteq Held(op, d) \/ (d = e /\ op # "element")
      /\ \A op, d, x : Awaits(op, d, x)' => Awaits(op, d, x) \/ (d = e /\ op # "element")
      /\ (\A i, j \in Held("element", e) : i = j) => Held("element", e)' = {}
      /\ \A op \in {"pads", "bin"} : Held(op, e) = {} => \A i, j \in Held(op, e)' : i = j
  BY <1>1, SendWalk
<1>3. VisitsOK
  BY DEF SnapOK
<1>4. e \in Connected /\ e # Root
  <2>1. e \in Connected \cup {Root}
    BY <1>2, <1>3 DEF VisitsOK
  <2> QED  BY <1>1, <2>1, DepthFacts
<1>5. AddElement(e)
  BY DEF SendElement
<1>6. Known(Parent[e]) /\ ~Known(e) /\ ~Awaits("bin", Parent[e], e)
  BY <1>1, <1>2, <1>3, <1>4 DEF VisitsOK
<1>7. Held("element", e)' = {}
  BY <1>2, <1>3 DEF VisitsOK
<1>8. Held("pads", e) = {} /\ Held("bin", e) = {}
  BY <1>1, <1>2, <1>3, <1>4, <1>6 DEF VisitsOK
<1>9. /\ Known(e)'
      /\ \A d \in Elements \cup {Root} : d # e => (Known(d)' <=> Known(d))
  BY <1>1, <1>4, <1>5, <1>6, SentAlone
<1>10. Connected' = Connected
  BY DEF SendElement, pipelineVars, Connected
<1>11. ASSUME NEW op \in {"element", "pads", "bin"}, NEW d \in Elements \cup {Root}
       PROVE  /\ Held(op, d)' # {} => d \in Connected \cup {Root}
              /\ \A i, j \in Held(op, d)' : i = j
  <2>1. CASE Held(op, d)' \subseteq Held(op, d)
    BY <1>3, <2>1 DEF VisitsOK
  <2>2. CASE d = e /\ op # "element"
    BY <1>2, <1>4, <1>8, <2>2
  <2> QED  BY <1>2, <2>1, <2>2
<1>12. ASSUME NEW d \in Elements \cup {Root}, Held("pads", d)' # {} PROVE Known(d)'
  <2>1. CASE d = e
    BY <1>9, <2>1
  <2>2. CASE d # e
    <3>1. Held("pads", d) # {}
      BY <1>2, <1>12, <2>2
    <3> QED  BY <1>3, <1>9, <2>2, <3>1 DEF VisitsOK
  <2> QED  BY <2>1, <2>2
<1>13. ASSUME NEW d \in Connected, Held("element", d)' # {}
       PROVE  ~Known(d)' /\ ~Awaits("bin", Parent[d], d)'
  <2>1. d # e /\ Held("element", d) # {}
    BY <1>2, <1>7, <1>13
  <2>2. ~Known(d) /\ ~Awaits("bin", Parent[d], d) /\ Known(Parent[d])
    BY <1>1, <1>3, <2>1 DEF VisitsOK
  <2>3. Parent[d] # e
    BY <1>6, <2>2
  <2> QED  BY <1>1, <1>2, <1>9, <2>1, <2>2, <2>3
<1>14. ASSUME NEW d \in Connected, Awaits("bin", Parent[d], d)' PROVE ~Known(d)'
  <2>1. CASE Awaits("bin", Parent[d], d)
    <3>1. ~Known(d) /\ d # e
      BY <1>3, <1>6, <2>1 DEF VisitsOK
    <3> QED  BY <1>1, <1>9, <3>1
  <2>2. CASE Parent[d] = e
    <3>1. ~Known(d) /\ d # e
      BY <1>1, <1>6, <2>2
    <3> QED  BY <1>1, <1>9, <3>1
  <2> QED  BY <1>2, <1>14, <2>1, <2>2
<1>15. Held("element", Root)' = {}
  <2> SUFFICES ASSUME Held("element", Root)' # {} PROVE FALSE
    OBVIOUS
  <2>1. Held("element", Root) # {}
    BY <1>2
  <2>2. Len(walk) = 1
    BY <1>3, <2>1 DEF VisitsOK
  <2> QED  BY <1>1, <1>2, <1>4, <2>1, <2>2
<1>16. VisitsOK'
  BY <1>10, <1>11, <1>12, <1>13, <1>14, <1>15 DEF VisitsOK
<1> QED  BY <1>4, <1>5, <1>6, <1>16

\* Nothing is known before the first one.
LEMMA NothingKnown == NodesOK /\ nodes = <<>> => \A e \in Elements : ~Known(e)
<1> SUFFICES ASSUME NodesOK, nodes = <<>>, NEW e \in Elements, Known(e) PROVE FALSE
  OBVIOUS
<1>1. Named(Way(Parent[e]).at, Name[e]) # {}
  BY KnownIs
<1> QED  BY <1>1 DEF Named

\* The server thread turns to the pipeline itself.
LEMMA RootKeepsVisits ==
  ASSUME SoundOK, SoundOK', SnapOK, SendElement, Last(walk).of \notin attached
  PROVE  /\ VisitsOK' /\ UNCHANGED <<nodes, peer>> /\ nodes = <<>>
<1> PICK e : e = Last(walk).of
  OBVIOUS
<1>1. /\ attached \subseteq Elements /\ Connected \subseteq attached /\ NodesOK /\ WalkOK /\ NodesOK' /\ Known(Root)
      /\ \A d \in Connected : Parent[d] \in Connected \cup {Root} /\ d # Root /\ Parent[d] # d
      /\ \A op, d, oq, a : Len(walk) = 1 /\ Held(op, d) # {} /\ Held(oq, a) # {} => op = oq /\ d = a
  BY SnapFacts DEF SoundOK
<1>2. /\ e \in Elements \cup {Root} /\ Held("element", e) # {}
      /\ \A op, d : Held(op, d)' \subseteq Held(op, d) \/ (d = e /\ op # "element")
      /\ (\A i, j \in Held("element", e) : i = j) => Held("element", e)' = {}
      /\ \A op \in {"pads", "bin"} : Held(op, e) = {} => \A i, j \in Held(op, e)' : i = j
      /\ (Len(walk) = 1 => \A op \in {"pads", "bin"} : \A d : Held(op, d) = {})
  BY <1>1, SendWalk
<1>3. VisitsOK
  BY DEF SnapOK
<1>4. e = Root
  <2>1. e \in Connected \cup {Root}
    BY <1>2, <1>3 DEF VisitsOK
  <2> QED  BY <1>1, <2>1
<1>5. UNCHANGED <<nodes, peer>>
  BY DEF SendElement, mirrorVars
<1>6. Len(walk) = 1 /\ nodes = <<>>
  BY <1>2, <1>3, <1>4 DEF VisitsOK
<1>7. Held("element", Root)' = {}
  BY <1>2, <1>3, <1>4 DEF VisitsOK
<1>8. \A d \in Connected : Held("element", d)' = {}
  <2> SUFFICES ASSUME NEW d \in Connected, Held("element", d)' # {} PROVE FALSE
    OBVIOUS
  <2>1. Held("element", d) # {}
    BY <1>2
  <2> QED  BY <1>1, <1>2, <1>4, <1>6, <2>1
<1>9. Connected' = Connected
  BY DEF SendElement, pipelineVars, Connected
<1>10. (\A d \in Elements : ~Known(d)') /\ Known(Root)'
  <2>1. \A d \in Elements \cup {Root} : Known(d)' <=> Known(d)
    BY <1>5, SpotsStay
  <2> QED  BY <1>1, <1>6, <2>1, NothingKnown
<1>11. ASSUME NEW op \in {"element", "pads", "bin"}, NEW d \in Elements \cup {Root}
       PROVE  /\ Held(op, d)' # {} => d \in Connected \cup {Root}
              /\ \A i, j \in Held(op, d)' : i = j
  <2>1. CASE Held(op, d)' \subseteq Held(op, d)
    BY <1>3, <2>1 DEF VisitsOK
  <2>2. CASE d = e /\ op # "element"
    BY <1>2, <1>4, <1>6, <2>2
  <2> QED  BY <1>2, <2>1, <2>2
<1>12. ASSUME NEW d \in Elements \cup {Root}, Held("pads", d)' # {} PROVE Known(d)'
  <2>1. d = Root
    BY <1>2, <1>4, <1>6, <1>12
  <2> QED  BY <1>10, <2>1
<1>13. VisitsOK'
  BY <1>1, <1>7, <1>8, <1>9, <1>10, <1>11, <1>12 DEF VisitsOK
<1> QED  BY <1>5, <1>6, <1>13

LEMMA SendKeepsSnap ==
  ASSUME SoundOK, SoundOK', SnapOK, SendElement, KeptOK', StillOK'
  PROVE  SnapOK'
<1> PICK e : e = Last(walk).of
  OBVIOUS
<1> PICK n : n = Len(nodes)
  OBVIOUS
<1>1. /\ attached \subseteq Elements /\ NodesOK /\ NodesOK' /\ WalkOK /\ PeersOK /\ n \in Nat
      /\ pads \subseteq Pads /\ links \subseteq Pairs /\ Connected \subseteq Elements /\ (phase = "walk" => requests > 0)
      /\ \A p \in Pads : p.of \in Elements
  BY SnapFacts DEF SoundOK, NodesOK
<1>2. /\ UNCHANGED <<pads, links, phase, requests, srcs, found>> /\ phase = "walk" /\ walk # <<>>
      /\ Connected' = Connected /\ \A p : Linked(p)' <=> Linked(p)
  BY DEF SendElement, pipelineVars, Walking, Connected, Linked
<1>3. OnceOK /\ PadsSentOK /\ LinksSentOK
  BY DEF SnapOK
<1>4. found = <<>> /\ \A q \in DOMAIN peer : peer[q] = NoPad
  BY <1>2, <1>3 DEF LinksSentOK
<1>5. FreshOK'
  BY <1>1, <1>2 DEF FreshOK
<1>6. /\ \A op, d, x : Awaits(op, d, x) /\ op # "element" => Awaits(op, d, x)'
      /\ \A x : Awaits("pads", e, x)'
  BY <1>1, SendWalk
<1>7. \A l \in links : ~Joined(l)
  <2> SUFFICES ASSUME NEW l \in links, Joined(l) PROVE FALSE
    OBVIOUS
  <2>1. l[2] \in Pads
    BY <1>1, PadFacts
  <2>2. Spot(l[2]) # NoPad
    BY <2>1, SpotIsInjective
  <2> QED  BY <1>4, <2>2 DEF Joined
<1>8. ASSUME e \in attached PROVE SnapOK'
  <2>1. VisitsOK' /\ e \in Connected /\ AddElement(e) /\ Known(Parent[e]) /\ ~Known(e)
    BY <1>8, SendKeepsVisits
  <2>2. /\ Known(e)' /\ Way(e)'.at = n + 1 /\ Len(nodes') = n + 1
        /\ \A d \in Elements \cup {Root} : d # e => (Known(d)' <=> Known(d))
        /\ \A d \in Elements \cup {Root} : Known(d) => Way(d)' = Way(d)
    BY <1>1, <2>1, SentAlone
  <2>3. peer' = peer
    BY <2>1 DEF AddElement
  <2>4. \A p \in Pads : Known(p.of) => Spot(p)' = Spot(p)
    BY <1>1, <2>2 DEF Spot
  <2>5. OnceOK'
    <3> SUFFICES ASSUME NEW i \in 1..(n + 1) PROVE \E d \in Connected : Known(d)' /\ Way(d)'.at = i
      BY <1>2, <2>2 DEF OnceOK
    <3>1. CASE i = n + 1
      BY <2>1, <2>2, <3>1
    <3>2. CASE i # n + 1
      <4>1. i \in 1..n
        BY <1>1, <3>2
      <4>2. PICK d \in Connected : Known(d) /\ Way(d).at = i
        BY <1>3, <4>1 DEF OnceOK
      <4>3. d \in Elements /\ d # e
        BY <1>1, <2>1, <4>2
      <4>4. Known(d)' /\ Way(d)' = Way(d)
        BY <2>2, <4>2, <4>3
      <4> QED  BY <4>2, <4>4
    <3> QED  BY <3>1, <3>2
  <2>6. PadsSentOK'
    <3>1. ASSUME NEW q \in DOMAIN peer PROVE \E p \in pads : p.of \in Connected /\ Known(p.of)' /\ q = Spot(p)'
      <4>1. PICK p \in pads : p.of \in Connected /\ Known(p.of) /\ q = Spot(p)
        BY <1>3 DEF PadsSentOK
      <4>2. p \in Pads /\ p.of \in Elements /\ p.of # e
        BY <1>1, <2>1, <4>1
      <4>3. Known(p.of)' /\ Spot(p)' = Spot(p)
        BY <2>2, <2>4, <4>1, <4>2
      <4> QED  BY <4>1, <4>3
    <3>2. ASSUME NEW p \in pads, p.of \in Connected, Known(p.of)'
          PROVE  Spot(p)' \in DOMAIN peer \/ Awaits("pads", p.of, p)'
      <4>1. CASE p.of = e
        BY <1>6, <4>1
      <4>2. CASE p.of # e
        <5>1. Known(p.of) /\ Spot(p)' = Spot(p)
          BY <1>1, <2>2, <2>4, <3>2, <4>2
        <5> QED  BY <1>3, <1>6, <3>2, <5>1 DEF PadsSentOK
      <4> QED  BY <4>1, <4>2
    <3> QED  BY <1>2, <2>3, <3>1, <3>2 DEF PadsSentOK
  <2>7. LinksSentOK'
    <3>1. ASSUME NEW l \in links, l[1].of \in Connected, Known(l[1].of)', Spot(l[1])' \in DOMAIN peer
          PROVE  \E i \in 1..Len(srcs) : srcs[i] = l[1]
      <4>1. l[1] \in Pads /\ l[1].of \in Elements
        BY <1>1, PadFacts
      <4>2. l[1].of # e
        <5> SUFFICES ASSUME l[1].of = e PROVE FALSE
          OBVIOUS
        <5>1. Spot(l[1])'.of = n + 1
          BY <2>2 DEF Spot
        <5> QED  BY <1>1, <3>1, <5>1 DEF PeersOK
      <4>3. Known(l[1].of) /\ Spot(l[1])' = Spot(l[1])
        BY <2>2, <2>4, <3>1, <4>1, <4>2
      <4> QED  BY <1>3, <1>4, <1>7, <3>1, <4>3 DEF LinksSentOK
    <3> QED  BY <1>2, <1>3, <1>4, <2>3, <3>1 DEF LinksSentOK
  <2> QED  BY <1>5, <2>1, <2>5, <2>6, <2>7 DEF SnapOK
<1>9. ASSUME e \notin attached PROVE SnapOK'
  <2>1. VisitsOK' /\ UNCHANGED <<nodes, peer>> /\ nodes = <<>>
    BY <1>9, RootKeepsVisits
  <2>2. \A d \in Elements \cup {Root} : (Known(d)' <=> Known(d)) /\ Way(d)' = Way(d)
    BY <2>1, SpotsStay
  <2>3. \A d \in Elements : ~Known(d) /\ ~Known(d)'
    BY <1>1, <2>1, <2>2, NothingKnown
  <2>4. OnceOK'
    <3>1. Len(nodes') = 0
      BY <2>1
    <3> QED  BY <3>1 DEF OnceOK
  <2>5. DOMAIN peer = {}
    BY <1>1, <1>3, <2>3 DEF PadsSentOK
  <2>6. PadsSentOK'
    BY <1>1, <1>2, <2>1, <2>3, <2>5 DEF PadsSentOK
  <2>7. LinksSentOK'
    <3>1. \A l \in links : l[1].of \in Connected => ~Known(l[1].of)'
      BY <1>1, <2>3
    <3> QED  BY <1>2, <1>3, <1>4, <2>1, <2>5, <3>1 DEF LinksSentOK
  <2> QED  BY <1>5, <2>1, <2>4, <2>6, <2>7 DEF SnapOK
<1> QED  BY <1>8, <1>9

\* A pad is sent, or all of the element were.
LEMMA PadKeepsSnap ==
  ASSUME SoundOK, SoundOK', SnapOK, SendPad, KeptOK', StillOK'
  PROVE  SnapOK'
<1> PICK b : b = Last(walk).of
  OBVIOUS
<1>1. /\ NodesOK /\ WalkOK /\ Connected \subseteq Elements /\ Known(Root) /\ (phase = "walk" => requests > 0)
      /\ pads \subseteq Pads /\ links \subseteq Pairs
      /\ \A p \in Pads : p.of \in Elements /\ (p.of \in Connected => Located(p) = Spot(p))
      /\ \A op, d, oq, a : Len(walk) = 1 /\ Held(op, d) # {} /\ Held(oq, a) # {} => op = oq /\ d = a
      /\ \A d \in Connected : Parent[d] \in Connected \cup {Root}
  BY SnapFacts
<1>2. /\ UNCHANGED <<pads, links, phase, requests, found, nodes>> /\ phase = "walk" /\ walk # <<>>
      /\ Connected' = Connected /\ \A p : Linked(p)' <=> Linked(p)
  BY DEF SendPad, pipelineVars, Walking, Connected, Linked, AddPad, mirrorVars
<1>3. OnceOK /\ PadsSentOK /\ LinksSentOK /\ VisitsOK
  BY DEF SnapOK
<1>4. found = <<>> /\ \A q \in DOMAIN peer : peer[q] = NoPad
  BY <1>2, <1>3 DEF LinksSentOK
<1>5. FreshOK'
  BY <1>1, <1>2 DEF FreshOK
<1>6. /\ \A d \in Elements \cup {Root} : (Known(d)' <=> Known(d)) /\ Way(d)' = Way(d)
      /\ \A p \in Pads : Spot(p)' = Spot(p)
  BY <1>2, SpotsStay
<1>7. /\ b \in Elements \cup {Root} /\ Held("pads", b) # {}
      /\ \A op, d : Held(op, d)' \subseteq Held(op, d)
      /\ \A op, d, x : Awaits(op, d, x)' => Awaits(op, d, x)
      /\ \A op, d, x : Awaits(op, d, x) => Awaits(op, d, x)' \/ (op = "pads" /\ d = b)
      /\ \/ \E p \in pads : /\ p.of = b /\ AddPad(p) /\ srcs' = IF Collects(p) THEN Append(srcs, p) ELSE srcs
                            /\ \A x : Awaits("pads", b, x) => Awaits("pads", b, x)' \/ x = p
         \/ /\ \A x \in pads : x.of = b => x \in Last(walk).seen
            /\ UNCHANGED <<srcs, nodes, peer>>
            /\ (\A i, j \in Held("pads", b) : i = j) =>
                 \A x : Awaits("pads", b, x) => x \notin Last(walk).seen
  BY <1>1, PadWalk
<1>8. VisitsOK'
  <2>1. Held("element", Root)' = {}
    <3> SUFFICES ASSUME Held("element", Root)' # {} PROVE FALSE
      OBVIOUS
    <3>1. Held("element", Root) # {}
      BY <1>7
    <3>2. Len(walk) = 1
      BY <1>3, <3>1 DEF VisitsOK
    <3> QED  BY <1>1, <1>7, <3>1, <3>2
  <2>2. ASSUME NEW op \in {"element", "pads", "bin"}, NEW d \in Elements \cup {Root}
        PROVE  /\ Held(op, d)' # {} => d \in Connected \cup {Root}
               /\ \A i, j \in Held(op, d)' : i = j
    <3>1. Held(op, d)' \subseteq Held(op, d)
      BY <1>7
    <3> QED  BY <1>3, <3>1 DEF VisitsOK
  <2>3. ASSUME NEW d \in Elements \cup {Root}, Held("pads", d)' # {} PROVE Known(d)'
    BY <1>3, <1>6, <1>7, <2>3 DEF VisitsOK
  <2>4. ASSUME NEW d \in Connected, Held("element", d)' # {} PROVE ~Known(d)' /\ ~Awaits("bin", Parent[d], d)'
    <3>1. Held("element", d) # {}
      BY <1>7, <2>4
    <3> QED  BY <1>1, <1>3, <1>6, <1>7, <3>1 DEF VisitsOK
  <2>5. ASSUME NEW d \in Connected, Awaits("bin", Parent[d], d)' PROVE ~Known(d)'
    <3>1. Awaits("bin", Parent[d], d)
      BY <1>7, <2>5
    <3> QED  BY <1>1, <1>3, <1>6, <3>1 DEF VisitsOK
  <2> QED  BY <1>2, <2>1, <2>2, <2>3, <2>4, <2>5 DEF VisitsOK
<1>9. OnceOK'
  BY <1>1, <1>2, <1>3, <1>6 DEF OnceOK
<1>10. \A l \in links : ~Joined(l)
  <2> SUFFICES ASSUME NEW l \in links, Joined(l) PROVE FALSE
    OBVIOUS
  <2>1. l[2] \in Pads
    BY <1>1, PadFacts
  <2>2. Spot(l[2]) # NoPad
    BY <2>1, SpotIsInjective
  <2> QED  BY <1>4, <2>2 DEF Joined
<1>11. ASSUME NEW p \in pads, p.of = b, AddPad(p), srcs' = (IF Collects(p) THEN Append(srcs, p) ELSE srcs),
              \A x : Awaits("pads", b, x) => Awaits("pads", b, x)' \/ x = p
       PROVE  PadsSentOK' /\ LinksSentOK'
  <2>1. p \in Pads /\ b \in Elements
    BY <1>1, <1>11
  <2>2. b \in Connected /\ Known(b)
    <3>1. b \in Connected \cup {Root}
      BY <1>3, <1>7 DEF VisitsOK
    <3> QED  BY <1>3, <1>7, <2>1, <3>1, DepthFacts DEF VisitsOK
  <2>3. Located(p) = Spot(p)
    BY <1>1, <1>11, <2>1, <2>2
  <2>4. /\ DOMAIN peer' = DOMAIN peer \cup {Spot(p)}
        /\ \A q \in DOMAIN peer' : peer'[q] = NoPad
    BY <1>4, <1>11, <2>3 DEF AddPad
  <2>5. PadsSentOK'
    <3>1. ASSUME NEW q \in DOMAIN peer' PROVE \E r \in pads : r.of \in Connected /\ Known(r.of)' /\ q = Spot(r)'
      <4>1. CASE q = Spot(p)
        <5>1. p.of \in Connected /\ Known(p.of)' /\ Spot(p)' = Spot(p)
          BY <1>6, <1>11, <2>1, <2>2
        <5> QED  BY <4>1, <5>1
      <4>2. CASE q \in DOMAIN peer
        <5>1. PICK r \in pads : r.of \in Connected /\ Known(r.of) /\ q = Spot(r)
          BY <1>3, <4>2 DEF PadsSentOK
        <5>2. Known(r.of)' /\ Spot(r)' = Spot(r)
          BY <1>1, <1>6, <5>1
        <5> QED  BY <5>1, <5>2
      <4> QED  BY <2>4, <4>1, <4>2
    <3>2. ASSUME NEW r \in pads, r.of \in Connected, Known(r.of)'
          PROVE  Spot(r)' \in DOMAIN peer' \/ Awaits("pads", r.of, r)'
      <4>1. Known(r.of) /\ Spot(r)' = Spot(r)
        BY <1>1, <1>6, <3>2
      <4>2. Spot(r) \in DOMAIN peer \/ Awaits("pads", r.of, r)
        BY <1>3, <3>2, <4>1 DEF PadsSentOK
      <4>3. Awaits("pads", r.of, r) => Awaits("pads", r.of, r)' \/ r = p
        <5>1. CASE r.of = b
          BY <1>11, <5>1
        <5>2. CASE r.of # b
          BY <1>7, <5>2
        <5> QED  BY <5>1, <5>2
      <4> QED  BY <2>4, <4>1, <4>2, <4>3
    <3> QED  BY <1>2, <3>1, <3>2 DEF PadsSentOK
  <2>6. srcs \in Seq(Pads) /\ Len(srcs) \in Nat
    BY <1>1 DEF WalkOK
  <2>7. /\ \A i \in 1..Len(srcs) : i \in 1..Len(srcs') /\ srcs'[i] = srcs[i]
        /\ \A i \in 1..Len(srcs') : i \in 1..Len(srcs) \/ (srcs'[i] = p /\ Collects(p))
        /\ Collects(p) => Len(srcs') \in 1..Len(srcs') /\ srcs'[Len(srcs')] = p
    <3>1. CASE Collects(p)
      BY <1>11, <2>1, <2>6, <3>1
    <3>2. CASE ~Collects(p)
      BY <1>11, <3>2
    <3> QED  BY <3>1, <3>2
  <2>8. ASSUME NEW l \in links, l[1].of \in Connected, Known(l[1].of)', Spot(l[1])' \in DOMAIN peer'
        PROVE  \E i \in 1..Len(srcs') : srcs'[i] = l[1]
    <3>1. l[1] \in Pads /\ l[1].of \in Elements /\ l[1].dir = "src"
      BY <1>1, PadFacts
    <3>2. Known(l[1].of) /\ Spot(l[1])' = Spot(l[1])
      BY <1>6, <2>8, <3>1
    <3>3. CASE Spot(l[1]) \in DOMAIN peer
      <4>1. \E i \in 1..Len(srcs) : srcs[i] = l[1]
        BY <1>3, <1>4, <1>10, <2>8, <3>2, <3>3 DEF LinksSentOK
      <4> QED  BY <2>7, <4>1
    <3>4. CASE Spot(l[1]) = Spot(p)
      <4>1. l[1] = p
        BY <1>11, <2>1, <2>2, <3>1, <3>2, <3>4, SpotIsInjective
      <4>2. Collects(p)
        BY <3>1, <4>1 DEF Collects, Linked
      <4> QED  BY <2>7, <4>1, <4>2
    <3> QED  BY <2>4, <2>8, <3>2, <3>3, <3>4
  <2>9. ASSUME NEW i \in 1..Len(srcs') PROVE srcs'[i] \in pads /\ srcs'[i].of \in Connected /\ Linked(srcs'[i])
    <3>1. CASE i \in 1..Len(srcs)
      <4>1. srcs[i] \in pads /\ srcs[i].of \in Connected /\ Linked(srcs[i])
        BY <1>3, <3>1 DEF LinksSentOK
      <4> QED  BY <2>7, <3>1, <4>1
    <3>2. CASE i \notin 1..Len(srcs)
      <4>1. srcs'[i] = p /\ Collects(p)
        BY <2>7, <3>2
      <4> QED  BY <1>11, <2>2, <4>1 DEF Collects
    <3> QED  BY <3>1, <3>2
  <2>10. \A i \in 1..Len(srcs') : srcs'[i] \in pads' /\ srcs'[i].of \in Connected' /\ Linked(srcs[i])'
    <3> TAKE i \in 1..Len(srcs')
    <3>1. PICK s : s = srcs'[i]
      OBVIOUS
    <3>2. s \in pads' /\ s.of \in Connected' /\ Linked(s)'
      BY <1>2, <2>9, <3>1
    <3> QED  BY <3>1, <3>2 DEF Linked
  <2>11. LinksSentOK'
    BY <1>2, <1>4, <2>4, <2>8, <2>10 DEF LinksSentOK
  <2> QED  BY <2>5, <2>11
<1>12. ASSUME \A x \in pads : x.of = b => x \in Last(walk).seen, UNCHANGED <<srcs, nodes, peer>>,
              (\A i, j \in Held("pads", b) : i = j) => \A x : Awaits("pads", b, x) => x \notin Last(walk).seen
       PROVE  PadsSentOK' /\ LinksSentOK'
  <2>1. \A x \in pads : x.of = b => ~Awaits("pads", b, x)
    BY <1>3, <1>7, <1>12 DEF VisitsOK
  <2>2. \A r \in pads : Awaits("pads", r.of, r) => Awaits("pads", r.of, r)'
    BY <1>7, <2>1
  <2>3. \A r \in pads : r \in Pads /\ (Known(r.of)' <=> Known(r.of)) /\ Spot(r)' = Spot(r)
    BY <1>1, <1>6
  <2>4. PadsSentOK'
    BY <1>2, <1>3, <1>12, <2>2, <2>3 DEF PadsSentOK
  <2>5. ASSUME NEW l \in links, l[1].of \in Connected, Known(l[1].of)', Spot(l[1])' \in DOMAIN peer
        PROVE  \E i \in 1..Len(srcs) : srcs[i] = l[1]
    <3>1. l[1] \in Pads /\ l[1].of \in Elements
      BY <1>1, PadFacts
    <3>2. Known(l[1].of) /\ Spot(l[1])' = Spot(l[1])
      BY <1>6, <2>5, <3>1
    <3> QED  BY <1>3, <1>4, <1>10, <2>5, <3>2 DEF LinksSentOK
  <2>6. \A i \in 1..Len(srcs') : srcs'[i] \in pads' /\ srcs'[i].of \in Connected' /\ Linked(srcs[i])'
    BY <1>2, <1>3, <1>12 DEF LinksSentOK, Linked
  <2> QED  BY <1>2, <1>4, <1>12, <2>4, <2>5, <2>6 DEF LinksSentOK
<1>13. PadsSentOK' /\ LinksSentOK'
  BY <1>7, <1>11, <1>12
<1> QED  BY <1>5, <1>8, <1>9, <1>13 DEF SnapOK

\* The next element of a bin is taken up, or all of the bin were.
LEMMA NextKeepsSnap ==
  ASSUME SoundOK, SoundOK', SnapOK, NextElement, KeptOK', StillOK'
  PROVE  SnapOK'
<1> PICK b : b = Last(walk).of
  OBVIOUS
<1>1. /\ NodesOK /\ WalkOK /\ Connected \subseteq Elements /\ Known(Root) /\ (phase = "walk" => requests > 0)
      /\ pads \subseteq Pads /\ links \subseteq Pairs /\ attached \subseteq Elements
      /\ \A p \in Pads : p.of \in Elements
      /\ \A d \in Connected : Parent[d] \in Connected \cup {Root} /\ d # Root
      /\ \A d \in attached : Parent[d] \in Connected \cup {Root} => d \in Connected
  BY SnapFacts
<1>2. /\ UNCHANGED <<pads, links, phase, requests, found, srcs, nodes, peer>> /\ phase = "walk" /\ walk # <<>>
      /\ Connected' = Connected /\ \A p : Linked(p)' <=> Linked(p)
  BY DEF NextElement, pipelineVars, Walking, Connected, Linked, mirrorVars
<1>3. OnceOK /\ PadsSentOK /\ LinksSentOK /\ VisitsOK
  BY DEF SnapOK
<1>4. found = <<>> /\ \A q \in DOMAIN peer : peer[q] = NoPad
  BY <1>2, <1>3 DEF LinksSentOK
<1>5. FreshOK'
  BY <1>1, <1>2 DEF FreshOK
<1>6. /\ \A d \in Elements \cup {Root} : (Known(d)' <=> Known(d)) /\ Way(d)' = Way(d)
      /\ \A p \in Pads : Spot(p)' = Spot(p)
  BY <1>2, SpotsStay
<1>7. /\ b \in Elements \cup {Root} /\ Held("bin", b) # {}
      /\ Len(walk) = 1 => \A d : Held("element", d) = {}
      /\ \A op, d, x : Awaits(op, d, x) => Awaits(op, d, x)' \/ (op = "bin" /\ d = b)
      /\ \A op, d, x : op # "element" /\ Awaits(op, d, x)' => Awaits(op, d, x)
      /\ \/ \A op, d : Held(op, d)' \subseteq Held(op, d)
         \/ \E c \in Children(b) \cap attached :
              /\ Awaits("bin", b, c)
              /\ (\A i, j \in Held("bin", b) : i = j) => ~Awaits("bin", b, c)'
              /\ \A op, d : Held(op, d)' \subseteq Held(op, d) \/ (op = "element" /\ d = c)
              /\ Held("element", c) = {} => \A i, j \in Held("element", c)' : i = j
  BY <1>1, NextWalk
<1>8. PICK c : /\ \A op, d : Held(op, d)' \subseteq Held(op, d) \/ (op = "element" /\ d = c /\ c \in Connected)
               /\ c \in Connected => \/ \A op, d : Held(op, d)' \subseteq Held(op, d)
                                     \/ /\ ~Known(c) /\ ~Awaits("bin", Parent[c], c)'
                                        /\ \A i, j \in Held("element", c)' : i = j
  <2>1. CASE \A op, d : Held(op, d)' \subseteq Held(op, d)
    BY <2>1
  <2>2. ASSUME NEW c \in Children(b) \cap attached, Awaits("bin", b, c),
               (\A i, j \in Held("bin", b) : i = j) => ~Awaits("bin", b, c)',
               \A op, d : Held(op, d)' \subseteq Held(op, d) \/ (op = "element" /\ d = c),
               Held("element", c) = {} => \A i, j \in Held("element", c)' : i = j
        PROVE  /\ c \in Connected /\ ~Known(c) /\ ~Awaits("bin", Parent[c], c)'
               /\ \A i, j \in Held("element", c)' : i = j
    <3>1. Parent[c] = b /\ c \in attached
      BY DEF Children
    <3>2. b \in Connected \cup {Root} /\ \A i, j \in Held("bin", b) : i = j
      BY <1>3, <1>7 DEF VisitsOK
    <3>3. c \in Connected
      BY <1>1, <3>1, <3>2
    <3>4. ~Known(c) /\ Held("element", c) = {}
      BY <1>3, <2>2, <3>1, <3>3 DEF VisitsOK
    <3> QED  BY <2>2, <3>1, <3>2, <3>3, <3>4
  <2> QED  BY <1>7, <2>1, <2>2
<1>9. VisitsOK'
  <2>1. Held("element", Root)' = {}
    <3> SUFFICES ASSUME Held("element", Root)' # {} PROVE FALSE
      OBVIOUS
    <3>1. Held("element", Root) # {}
      BY <1>1, <1>8
    <3>2. Len(walk) = 1
      BY <1>3, <3>1 DEF VisitsOK
    <3> QED  BY <1>7, <3>1, <3>2
  <2>2. ASSUME NEW op \in {"element", "pads", "bin"}, NEW d \in Elements \cup {Root}
        PROVE  /\ Held(op, d)' # {} => d \in Connected \cup {Root}
               /\ \A i, j \in Held(op, d)' : i = j
    <3>1. CASE Held(op, d)' \subseteq Held(op, d)
      BY <1>3, <3>1 DEF VisitsOK
    <3>2. CASE ~(Held(op, d)' \subseteq Held(op, d))
      <4>1. op = "element" /\ d = c /\ c \in Connected
        BY <1>8, <3>2
      <4> QED  BY <1>8, <3>2, <4>1
    <3> QED  BY <3>1, <3>2
  <2>3. ASSUME NEW d \in Elements \cup {Root}, Held("pads", d)' # {} PROVE Known(d)'
    <3>1. Held("pads", d) # {}
      BY <1>8, <2>3
    <3> QED  BY <1>3, <1>6, <3>1 DEF VisitsOK
  <2>4. ASSUME NEW d \in Connected, Held("element", d)' # {} PROVE ~Known(d)' /\ ~Awaits("bin", Parent[d], d)'
    <3>1. CASE Held("element", d)' \subseteq Held("element", d)
      <4>1. Held("element", d) # {}
        BY <2>4, <3>1
      <4> QED  BY <1>1, <1>3, <1>6, <1>7, <4>1 DEF VisitsOK
    <3>2. CASE ~(Held("element", d)' \subseteq Held("element", d))
      <4>1. d = c
        BY <1>8, <3>2
      <4> QED  BY <1>1, <1>6, <1>8, <3>2, <4>1
    <3> QED  BY <3>1, <3>2
  <2>5. ASSUME NEW d \in Connected, Awaits("bin", Parent[d], d)' PROVE ~Known(d)'
    <3>1. Awaits("bin", Parent[d], d)
      BY <1>7, <2>5
    <3> QED  BY <1>1, <1>3, <1>6, <3>1 DEF VisitsOK
  <2> QED  BY <1>2, <2>1, <2>2, <2>3, <2>4, <2>5 DEF VisitsOK
<1>10. OnceOK'
  BY <1>1, <1>2, <1>3, <1>6 DEF OnceOK
<1>11. \A p \in pads : p \in Pads /\ (Known(p.of)' <=> Known(p.of)) /\ Spot(p)' = Spot(p)
                       /\ (Awaits("pads", p.of, p) => Awaits("pads", p.of, p)')
  BY <1>1, <1>6, <1>7
<1>12. PadsSentOK'
  BY <1>2, <1>3, <1>11 DEF PadsSentOK
<1>13. LinksSentOK'
  <2>1. \A l \in links : /\ l[1].of \in Elements /\ l[1] \in Pads /\ l[2] \in Pads
                         /\ (Known(l[1].of)' <=> Known(l[1].of))
                         /\ Spot(l[1])' = Spot(l[1]) /\ Spot(l[2])' = Spot(l[2])
    BY <1>1, <1>6, PadFacts
  <2>2. \A i \in 1..Len(srcs') : srcs'[i] \in pads' /\ srcs'[i].of \in Connected' /\ Linked(srcs[i])'
    BY <1>2, <1>3 DEF LinksSentOK, Linked
  <2>3. \A l \in links : l[1].of \in Connected /\ Known(l[1].of) /\ Spot(l[1]) \in DOMAIN peer =>
          \E i \in 1..Len(srcs) : srcs[i] = l[1]
    <3>1. ASSUME NEW l \in links, Joined(l) PROVE FALSE
      <4>1. Spot(l[2]) # NoPad
        BY <2>1, SpotIsInjective
      <4> QED  BY <1>4, <3>1, <4>1 DEF Joined
    <3> QED  BY <1>3, <1>4, <3>1 DEF LinksSentOK
  <2> QED  BY <1>2, <1>4, <2>1, <2>2, <2>3 DEF LinksSentOK
<1> QED  BY <1>5, <1>9, <1>10, <1>12, <1>13 DEF SnapOK

\* The topology is asked for the first time.
LEMMA RequestKeepsSnap ==
  ASSUME SoundOK, SoundOK', SnapOK, Request, KeptOK', StillOK', requests' <= 1
  PROVE  SnapOK'
<1>1. /\ NodesOK /\ NodesOK' /\ Connected \subseteq Elements /\ Known(Root) /\ requests \in Nat
      /\ pads \subseteq Pads /\ links \subseteq Pairs
      /\ \A p \in Pads : p.of \in Elements
  BY SnapFacts DEF SoundOK, RestOK
<1>2. /\ UNCHANGED <<pads, links, nodes, peer, found>> /\ srcs' = <<>> /\ phase' = "walk" /\ requests' = requests + 1
      /\ walk' = <<Visit("element", Root)>> /\ Connected' = Connected /\ phase = "idle"
  BY DEF Request, pipelineVars, Connected, mirrorVars
<1>3. requests = 0 /\ requests' > 0
  BY <1>1, <1>2
<1>4. nodes = <<>> /\ peer = <<>> /\ found = <<>>
  BY <1>2, <1>3 DEF SnapOK, FreshOK
<1>5. /\ \A d \in Elements \cup {Root} : Known(d)' <=> Known(d)
      /\ \A d \in Elements : ~Known(d)
  BY <1>1, <1>2, <1>4, SpotsStay, NothingKnown
<1> PICK v : v = Visit("element", Root)
  OBVIOUS
<1>6. v.op = "element" /\ v.of = Root /\ Len(walk') = 1 /\ walk'[1] = v
  BY <1>2 DEF Visit
<1>7. \A op, d : Held(op, d)' \subseteq {1} /\ (Held(op, d)' # {} => op = "element" /\ d = Root)
  <2>1. \A i \in 1..Len(walk') : i = 1
    BY <1>6
  <2> QED  BY <1>6, <2>1 DEF Held
<1>8. \A d, x : ~Awaits("bin", d, x)'
  BY <1>7 DEF Awaits
<1>9. VisitsOK'
  <2>1. \A d \in Connected : d # Root
    BY <1>1, DepthFacts
  <2> QED  BY <1>1, <1>2, <1>4, <1>5, <1>6, <1>7, <1>8, <2>1 DEF VisitsOK
<1>10. OnceOK'
  <2>1. Len(nodes') = 0
    BY <1>2, <1>4
  <2> QED  BY <2>1 DEF OnceOK
<1>11. DOMAIN peer' = {}
  BY <1>2, <1>4
<1>12. PadsSentOK'
  BY <1>1, <1>2, <1>5, <1>11 DEF PadsSentOK
<1>13. LinksSentOK'
  <2>1. Len(srcs') = 0 /\ \A l \in links : l[1].of \in Connected => ~Known(l[1].of)'
    BY <1>1, <1>2, <1>5
  <2> QED  BY <1>2, <1>4, <1>11, <2>1 DEF LinksSentOK
<1>14. FreshOK'
  BY <1>2, <1>3 DEF FreshOK
<1> QED  BY <1>9, <1>10, <1>12, <1>13, <1>14 DEF SnapOK

\* The server thread is where it was.
LEMMA StayKeepsSnap ==
  ASSUME SoundOK, SoundOK', SnapOK, UNCHANGED <<walk, nodes, attached>>
  PROVE  VisitsOK' /\ OnceOK'
<1>1. Connected' = Connected /\ Connected \subseteq Elements
  BY DEF Connected
<1>2. /\ \A d \in Elements \cup {Root} : (Known(d)' <=> Known(d)) /\ Way(d)' = Way(d)
  BY SpotsStay
<1>3. \A op, d, x : Held(op, d)' = Held(op, d) /\ (Awaits(op, d, x)' <=> Awaits(op, d, x))
  BY DEF Held, Awaits
<1>4. VisitsOK'
  BY <1>1, <1>2, <1>3 DEF SnapOK, VisitsOK
<1>5. OnceOK'
  BY <1>1, <1>2 DEF SnapOK, OnceOK
<1> QED  BY <1>4, <1>5

\* When it is through, everything is known and the pads of everything were sent.
LEMMA WalkedIsKnown ==
  ASSUME SoundOK, SnapOK, walk = <<>>, requests > 0
  PROVE  /\ \A e \in Connected : Known(e)
         /\ \A p \in pads : p.of \in Connected => Spot(p) \in DOMAIN peer
<1>1. \A op, d : Held(op, d) = {}
  BY DEF Held
<1>2. \A e \in Connected : Known(e)
  BY <1>1 DEF SnapOK, StillOK, KeptOK, AnnouncedOK, Pending
<1>3. \A p \in pads : p.of \in Connected => Spot(p) \in DOMAIN peer
  BY <1>1, <1>2 DEF SnapOK, PadsSentOK, Awaits
<1> QED  BY <1>2, <1>3

\* A link is taken up.
LEMMA TakeKeepsSnap ==
  ASSUME SoundOK, SoundOK', SnapOK, TakeLink, KeptOK', StillOK'
  PROVE  SnapOK'
<1>1. /\ NodesOK /\ WalkOK /\ Connected \subseteq attached /\ attached \subseteq Elements
      /\ pads \subseteq Pads /\ links \subseteq Pairs /\ requests \in Nat /\ (phase = "walk" => requests > 0)
      /\ \A p \in Pads : p.of \in Elements
      /\ \A d \in Connected : Parent[d] \in Connected \cup {Root}
      /\ \A d \in attached : Parent[d] \in Connected \cup {Root} => d \in Connected
  BY SnapFacts DEF SoundOK, RestOK
<1>2. /\ UNCHANGED <<attached, pads, links, requests, walk, nodes, peer>> /\ phase = "walk"
      /\ walk = <<>> /\ found = <<>> /\ srcs # <<>> /\ srcs' = Tail(srcs)
      /\ Connected' = Connected /\ \A p : Linked(p)' <=> Linked(p)
  BY DEF TakeLink, pipelineVars, Connected, Linked, mirrorVars
<1>3. OnceOK /\ PadsSentOK /\ LinksSentOK /\ StillOK
  BY DEF SnapOK
<1>4. /\ srcs \in Seq(Pads) /\ Len(srcs) \in Nat \ {0} /\ Head(srcs) = srcs[1]
      /\ Len(srcs') = Len(srcs) - 1 /\ \A i \in 1..Len(srcs') : srcs'[i] = srcs[i + 1] /\ i + 1 \in 1..Len(srcs)
      /\ \A i \in 1..Len(srcs) : i = 1 \/ (i - 1 \in 1..Len(srcs') /\ srcs'[i - 1] = srcs[i])
      /\ srcs[1].dir = "src"
  <2> DEFINE S == {p \in Pads : p.dir = "src"}
  <2>1. srcs \in Seq(S) /\ srcs # <<>>
    BY <1>1, <1>2 DEF WalkOK
  <2>2. /\ srcs \in Seq(Pads) /\ Len(srcs) \in Nat \ {0} /\ Head(srcs) = srcs[1] /\ srcs[1] \in S
        /\ Len(Tail(srcs)) = Len(srcs) - 1 /\ \A i \in 1..(Len(srcs) - 1) : Tail(srcs)[i] = srcs[i + 1]
    BY <2>1
  <2>3. srcs[1].dir = "src"
    BY <2>2
  <2> HIDE DEF S
  <2> QED  BY <1>2, <2>2, <2>3
<1> PICK p : p = srcs[1]
  OBVIOUS
<1>5. p \in pads /\ p.of \in Connected /\ Linked(p) /\ p.dir = "src"
  BY <1>3, <1>4 DEF LinksSentOK
<1>6. PICK q \in pads : {<<p, q>>, <<q, p>>} \cap links # {} /\ found' = <<<<p, q>>>> /\ UNCHANGED phase
  BY <1>4, <1>5 DEF TakeLink
<1> PICK l : l = <<p, q>>
  OBVIOUS
<1>7. l \in links /\ l[1] = p /\ l[2] = q /\ found' = <<l>> /\ Len(found') = 1 /\ found'[1] = l
  <2>1. <<q, p>> \notin links
    <3> SUFFICES ASSUME <<q, p>> \in links PROVE FALSE
      OBVIOUS
    <3>1. <<q, p>> \in Pairs
      BY <1>1
    <3>2. <<q, p>>[2] = p
      OBVIOUS
    <3> QED  BY <1>5, <3>1, <3>2, PadFacts
  <2> QED  BY <1>6, <2>1
<1>8. Ends(l) \subseteq Connected
  <2>1. SameParent(l[1].of, l[2].of) /\ l[1].of \in Connected
    BY <1>3, <1>5, <1>7 DEF StillOK
  <2>2. l[2].of \in attached /\ Parent[l[2].of] = Parent[l[1].of]
    BY <1>1, <2>1 DEF SameParent
  <2> QED  BY <1>1, <2>1, <2>2 DEF Ends
<1>9. VisitsOK' /\ OnceOK'
  BY <1>2, StayKeepsSnap
<1>10. /\ \A d \in Elements \cup {Root} : (Known(d)' <=> Known(d)) /\ Way(d)' = Way(d)
       /\ \A r \in Pads : Spot(r)' = Spot(r)
  BY <1>2, SpotsStay
<1>11. PadsSentOK'
  <2>1. \A r \in pads : /\ r \in Pads /\ (Known(r.of)' <=> Known(r.of)) /\ Spot(r)' = Spot(r)
                        /\ (Awaits("pads", r.of, r)' <=> Awaits("pads", r.of, r))
    BY <1>1, <1>2, <1>10 DEF Awaits, Held
  <2> QED  BY <1>2, <1>3, <2>1 DEF PadsSentOK
<1>12. FreshOK'
  BY <1>1, <1>2, <1>6 DEF FreshOK
<1>13. LinksSentOK'
  <2>1. \A m \in links : /\ m[1].of \in Elements
                         /\ (Known(m[1].of)' <=> Known(m[1].of))
                         /\ Spot(m[1])' = Spot(m[1]) /\ Spot(m[2])' = Spot(m[2])
    BY <1>1, <1>10, PadFacts
  <2>2. \A i \in 1..Len(srcs') : srcs'[i] \in pads' /\ srcs'[i].of \in Connected' /\ Linked(srcs'[i])
    BY <1>2, <1>3, <1>4 DEF LinksSentOK
  <2>3. \A i \in 1..Len(srcs') : Linked(srcs[i])'
    <3> TAKE i \in 1..Len(srcs')
    <3>1. PICK s : s = srcs'[i]
      OBVIOUS
    <3>2. Linked(s)'
      BY <1>2, <2>2, <3>1
    <3> QED  BY <3>1, <3>2 DEF Linked
  <2>4. ASSUME NEW m \in links, m[1].of \in Connected, Known(m[1].of)', Spot(m[1])' \in DOMAIN peer
        PROVE  (\E i \in 1..Len(srcs') : srcs'[i] = m[1]) \/ found'[1] = m \/ Joined(m)'
    <3>1. (\E i \in 1..Len(srcs) : srcs[i] = m[1]) \/ Joined(m)
      BY <1>2, <1>3, <2>1, <2>4 DEF LinksSentOK
    <3>2. CASE Joined(m)
      BY <1>2, <2>1, <3>2 DEF Joined
    <3>3. ASSUME NEW i \in 1..Len(srcs), srcs[i] = m[1]
          PROVE (\E j \in 1..Len(srcs') : srcs'[j] = m[1]) \/ found'[1] = m
      <4>1. CASE i = 1
        <5>1. m[1] = l[1]
          BY <1>7, <3>3, <4>1
        <5>2. m = l
          BY <1>3, <1>7, <5>1 DEF StillOK
        <5> QED  BY <1>7, <5>2
      <4>2. CASE i # 1
        BY <1>4, <3>3, <4>2
      <4> QED  BY <4>1, <4>2
    <3> QED  BY <3>1, <3>2, <3>3
  <2>5. found' # <<>> => walk' = <<>> /\ Len(found') = 1 /\ found'[1] \in links /\ Ends(found'[1]) \subseteq Connected
    BY <1>2, <1>7, <1>8
  <2>6. \A i \in 1..Len(srcs') : srcs'[i] \in pads' /\ srcs'[i].of \in Connected' /\ Linked(srcs[i])'
    BY <2>2, <2>3
  <2>7. \A m \in links' : m[1].of \in Connected' /\ Known(m[1].of)' /\ Spot(m[1])' \in DOMAIN peer' =>
          (\E i \in 1..Len(srcs') : srcs'[i] = m[1]) \/ (found' # <<>> /\ found'[1] = m) \/ Joined(m)'
    <3>1. found' # <<>>
      BY <1>7
    <3> QED  BY <1>2, <2>4, <3>1
  <2>8. \A r \in DOMAIN peer' : peer'[r] # NoPad => \E m \in links' :
          /\ Ends(m) \subseteq Connected'
          /\ (r = Spot(m[1])' /\ peer'[r] = Spot(m[2])') \/ (r = Spot(m[2])' /\ peer'[r] = Spot(m[1])')
    <3> SUFFICES ASSUME NEW r \in DOMAIN peer, peer[r] # NoPad
                 PROVE  \E m \in links :
                   /\ Ends(m) \subseteq Connected
                   /\ (r = Spot(m[1])' /\ peer[r] = Spot(m[2])') \/ (r = Spot(m[2])' /\ peer[r] = Spot(m[1])')
      BY <1>2
    <3>1. PICK m \in links :
       /\ Ends(m) \subseteq Connected
       /\ (r = Spot(m[1]) /\ peer[r] = Spot(m[2])) \/ (r = Spot(m[2]) /\ peer[r] = Spot(m[1]))
      BY <1>3 DEF LinksSentOK
    <3> QED  BY <2>1, <3>1
  <2> QED  BY <1>2, <2>5, <2>6, <2>7, <2>8 DEF LinksSentOK, Ends
<1> QED  BY <1>9, <1>11, <1>12, <1>13 DEF SnapOK

\* A link is sent.
LEMMA LinkKeepsSnap ==
  ASSUME SoundOK, SoundOK', SnapOK, SendLink, KeptOK', StillOK'
  PROVE  SnapOK'
<1>1. /\ NodesOK /\ WalkOK /\ Connected \subseteq attached /\ attached \subseteq Elements
      /\ pads \subseteq Pads /\ links \subseteq Pairs /\ requests \in Nat /\ (phase = "walk" => requests > 0)
      /\ \A p \in Pads : p.of \in Elements /\ (p.of \in Connected => Located(p) = Spot(p))
      /\ \A l \in links : {l[1], l[2]} \subseteq pads
  BY SnapFacts DEF SoundOK, RestOK, PipelineOK
<1>2. /\ UNCHANGED <<attached, pads, links, requests, walk, nodes, phase, srcs>> /\ phase = "walk"
      /\ found # <<>> /\ found' = <<>>
      /\ Connected' = Connected /\ \A p : Linked(p)' <=> Linked(p)
  BY DEF SendLink, pipelineVars, Connected, Linked, AddLink, mirrorVars
<1>3. OnceOK /\ PadsSentOK /\ LinksSentOK /\ StillOK
  BY DEF SnapOK
<1> PICK l : l = found[1]
  OBVIOUS
<1>4. walk = <<>> /\ l \in links /\ Ends(l) \subseteq Connected /\ l = Head(found)
  <2>1. walk = <<>> /\ Len(found) = 1 /\ found[1] \in links /\ Ends(found[1]) \subseteq Connected
    BY <1>2, <1>3 DEF LinksSentOK
  <2>2. found \in Seq(Pairs)
    BY <1>1 DEF WalkOK
  <2> QED  BY <1>2, <2>1, <2>2
<1>5. /\ \A e \in Connected : Known(e)
      /\ \A p \in pads : p.of \in Connected => Spot(p) \in DOMAIN peer
  BY <1>1, <1>2, <1>4, WalkedIsKnown
<1>6. /\ l[1] \in pads /\ l[2] \in pads /\ l[1].of \in Connected /\ l[2].of \in Connected /\ AddLink(l[1], l[2])
      /\ l[1].dir = "src" /\ l[2].dir = "sink"
  BY <1>1, <1>4, PadFacts DEF Ends, SendLink
<1> PICK s, k : s = Spot(l[1]) /\ k = Spot(l[2])
  OBVIOUS
<1>7. /\ s \in DOMAIN peer /\ k \in DOMAIN peer /\ Located(l[1]) = s /\ Located(l[2]) = k /\ s # k
      /\ \A p \in Pads : Spot(p).dir = p.dir
  BY <1>1, <1>5, <1>6, SpotIsInjective
<1>8. DOMAIN peer' = DOMAIN peer /\ \A q \in DOMAIN peer : peer'[q] = IF q = s THEN k ELSE IF q = k THEN s ELSE peer[q]
  BY <1>6, <1>7 DEF AddLink
<1>9. VisitsOK' /\ OnceOK'
  BY <1>2, StayKeepsSnap
<1>10. /\ \A d \in Elements \cup {Root} : (Known(d)' <=> Known(d)) /\ Way(d)' = Way(d)
       /\ \A r \in Pads : Spot(r)' = Spot(r)
  BY <1>2, SpotsStay
<1>11. PadsSentOK'
  <2>1. \A r \in pads : /\ r \in Pads /\ (Known(r.of)' <=> Known(r.of)) /\ Spot(r)' = Spot(r)
                        /\ (Awaits("pads", r.of, r)' <=> Awaits("pads", r.of, r))
    BY <1>1, <1>2, <1>10 DEF Awaits, Held
  <2> QED  BY <1>2, <1>3, <1>8, <2>1 DEF PadsSentOK
<1>12. FreshOK'
  BY <1>1, <1>2 DEF FreshOK
<1>13. LinksSentOK'
  <2>1. \A m \in links : /\ m[1].of \in Elements /\ m[1] \in Pads /\ m[2] \in Pads
                         /\ m[1].dir = "src"
                         /\ (Known(m[1].of)' <=> Known(m[1].of))
                         /\ Spot(m[1])' = Spot(m[1]) /\ Spot(m[2])' = Spot(m[2])
    BY <1>1, <1>10, PadFacts
  <2>2. \A i \in 1..Len(srcs') : srcs'[i] \in pads' /\ srcs'[i].of \in Connected' /\ Linked(srcs[i])'
    BY <1>2, <1>3 DEF LinksSentOK, Linked
  <2>3. ASSUME NEW m \in links, m[1].of \in Connected, Known(m[1].of), Spot(m[1]) \in DOMAIN peer
        PROVE  (\E i \in 1..Len(srcs') : srcs'[i] = m[1]) \/ Joined(m)'
    <3>1. CASE m = l
      <4>1. peer'[s] = k /\ s \in DOMAIN peer' /\ k \in DOMAIN peer'
        BY <1>7, <1>8
      <4>2. Spot(m[1])' = s /\ Spot(m[2])' = k
        BY <2>1, <3>1
      <4> QED  BY <4>1, <4>2 DEF Joined
    <3>2. CASE m # l
      <4>1. (\E i \in 1..Len(srcs) : srcs[i] = m[1]) \/ Joined(m)
        BY <1>3, <2>3, <3>2 DEF LinksSentOK
      <4>2. ASSUME Joined(m) PROVE Joined(m)'
        <5>1. m[1] # l[1]
          BY <1>3, <1>4, <3>2 DEF StillOK
        <5>2. Spot(m[1]) # s
          BY <1>1, <1>4, <1>5, <1>6, <2>1, <2>3, <5>1, SpotIsInjective
        <5>3. Spot(m[1]) # k
          <6>1. Spot(m[1]).dir = "src" /\ k.dir = "sink"
            BY <1>1, <1>6, <1>7, <2>1
          <6> QED  BY <6>1
        <5>4. peer'[Spot(m[1])] = peer[Spot(m[1])]
          BY <1>8, <2>3, <5>2, <5>3
        <5> QED  BY <1>8, <2>1, <4>2, <5>4 DEF Joined
      <4> QED  BY <1>2, <4>1, <4>2
    <3> QED  BY <3>1, <3>2
  <2>4. \A m \in links' : m[1].of \in Connected' /\ Known(m[1].of)' /\ Spot(m[1])' \in DOMAIN peer' =>
          (\E i \in 1..Len(srcs') : srcs'[i] = m[1]) \/ (found' # <<>> /\ found'[1] = m) \/ Joined(m)'
    BY <1>2, <1>8, <2>1, <2>3
  <2>5. ASSUME NEW r \in DOMAIN peer, peer'[r] # NoPad
        PROVE  \E m \in links :
                 /\ Ends(m) \subseteq Connected
                 /\ (r = Spot(m[1])' /\ peer'[r] = Spot(m[2])') \/ (r = Spot(m[2])' /\ peer'[r] = Spot(m[1])')
    <3>1. CASE r = s \/ r = k
      <4>1. (r = s /\ peer'[r] = k) \/ (r = k /\ peer'[r] = s)
        BY <1>7, <1>8, <3>1
      <4>2. Spot(l[1])' = s /\ Spot(l[2])' = k
        BY <1>4, <2>1
      <4> QED  BY <1>4, <4>1, <4>2
    <3>2. CASE r # s /\ r # k
      <4>1. peer'[r] = peer[r]
        BY <1>8, <3>2
      <4>2. PICK m \in links :
         /\ Ends(m) \subseteq Connected
         /\ (r = Spot(m[1]) /\ peer[r] = Spot(m[2])) \/ (r = Spot(m[2]) /\ peer[r] = Spot(m[1]))
        BY <1>3, <2>5, <4>1 DEF LinksSentOK
      <4> QED  BY <2>1, <4>1, <4>2
    <3> QED  BY <3>1, <3>2
  <2>6. \A r \in DOMAIN peer' : peer'[r] # NoPad => \E m \in links' :
          /\ Ends(m) \subseteq Connected'
          /\ (r = Spot(m[1])' /\ peer'[r] = Spot(m[2])') \/ (r = Spot(m[2])' /\ peer'[r] = Spot(m[1])')
    BY <1>2, <1>8, <2>5
  <2> QED  BY <1>2, <1>4, <2>2, <2>4, <2>6 DEF LinksSentOK
<1> QED  BY <1>9, <1>11, <1>12, <1>13 DEF SnapOK

\* It is through, or does nothing.
LEMMA EndKeepsSnap ==
  ASSUME SoundOK, SoundOK', SnapOK, WalkEnds \/ UNCHANGED vars, KeptOK', StillOK'
  PROVE  SnapOK'
<1>1. /\ pads \subseteq Pads /\ links \subseteq Pairs /\ (phase = "walk" => requests > 0) /\ requests \in Nat
      /\ \A p \in Pads : p.of \in Elements
  BY SnapFacts DEF SoundOK, RestOK
<1>2. /\ UNCHANGED <<attached, pads, links, requests, walk, nodes, peer, srcs, found>>
      /\ UNCHANGED phase \/ (phase = "walk" /\ phase' = "idle" /\ srcs = <<>> /\ found = <<>>)
      /\ Connected' = Connected /\ \A p : Linked(p)' <=> Linked(p)
  BY DEF WalkEnds, pipelineVars, Connected, Linked, mirrorVars, walkVars, vars
<1>3. OnceOK /\ PadsSentOK /\ LinksSentOK /\ StillOK /\ FreshOK
  BY DEF SnapOK
<1>4. VisitsOK' /\ OnceOK'
  BY <1>2, StayKeepsSnap
<1>5. /\ \A d \in Elements \cup {Root} : (Known(d)' <=> Known(d)) /\ Way(d)' = Way(d)
      /\ \A r \in Pads : Spot(r)' = Spot(r)
  BY <1>2, SpotsStay
<1>6. PadsSentOK'
  <2>1. \A r \in pads : /\ r \in Pads /\ (Known(r.of)' <=> Known(r.of)) /\ Spot(r)' = Spot(r)
                        /\ (Awaits("pads", r.of, r)' <=> Awaits("pads", r.of, r))
    BY <1>1, <1>2, <1>5 DEF Awaits, Held
  <2> QED  BY <1>2, <1>3, <2>1 DEF PadsSentOK
<1>7. FreshOK'
  BY <1>1, <1>2, <1>3 DEF FreshOK
<1>8. LinksSentOK'
  <2>1. \A m \in links : /\ m[1].of \in Elements
                         /\ (Known(m[1].of)' <=> Known(m[1].of))
                         /\ Spot(m[1])' = Spot(m[1]) /\ Spot(m[2])' = Spot(m[2])
                         /\ (Joined(m)' <=> Joined(m))
    BY <1>1, <1>2, <1>5, PadFacts DEF Joined
  <2>2. \A i \in 1..Len(srcs') : srcs'[i] \in pads' /\ srcs'[i].of \in Connected' /\ Linked(srcs[i])'
    BY <1>2, <1>3 DEF LinksSentOK, Linked
  <2> QED  BY <1>2, <1>3, <2>1, <2>2 DEF LinksSentOK
<1> QED  BY <1>4, <1>6, <1>7, <1>8 DEF SnapOK

\* Until something changes, or the topology is asked for again.
SnapInv == changes = 0 /\ requests <= 1 => SnapOK

LEMMA SnapStep ==
  ASSUME SoundOK, SoundOK', SnapInv, [Next]_vars
  PROVE  SnapInv'
<1> SUFFICES ASSUME changes' = 0, requests' <= 1 PROVE SnapOK'
  BY DEF SnapInv
<1>1. changes \in Nat /\ requests \in Nat
  BY DEF SoundOK, RestOK
<1>2. ASSUME NEW t \in Threads, Changer(t) PROVE FALSE
  <2>1. /\ UNCHANGED requests
        /\ changes' = changes + 1 \/ (UNCHANGED changes /\ task[t].op \in {"added", "removing", "unpadding"})
    BY <1>2 DEF Changer, Attach, BinRemovePre, ElementAddPad, ElementRemovePad, PadLinkPost, PadUnlinkPost,
       BinAddPost, RemoveUnlinks, Detach, PadGone, Begins
  <2>2. changes = 0 /\ requests <= 1
    BY <1>1, <2>1
  <2>3. task[t] = Nothing
    BY <2>2 DEF SnapInv, SnapOK, StillOK
  <2> QED  BY <1>1, <2>1, <2>3 DEF Nothing
<1>3. Server \/ UNCHANGED vars
  BY <1>2 DEF Next
<1>4. SnapOK
  <2>1. UNCHANGED changes /\ (UNCHANGED requests \/ requests' = requests + 1)
    BY <1>3 DEF Server, Request, SendElement, SendPad, NextElement, TakeLink, SendLink, WalkEnds, vars
  <2> QED  BY <1>1, <2>1 DEF SnapInv
<1>5. KeptOK'
  BY <1>4, KeptStep DEF Told, SnapOK
<1>6. StillOK'
  BY <1>3, <1>4, StillStep DEF SnapOK
<1>7. CASE Request
  BY <1>4, <1>5, <1>6, <1>7, RequestKeepsSnap
<1>8. CASE SendElement
  BY <1>4, <1>5, <1>6, <1>8, SendKeepsSnap
<1>9. CASE SendPad
  BY <1>4, <1>5, <1>6, <1>9, PadKeepsSnap
<1>10. CASE NextElement
  BY <1>4, <1>5, <1>6, <1>10, NextKeepsSnap
<1>11. CASE TakeLink
  BY <1>4, <1>5, <1>6, <1>11, TakeKeepsSnap
<1>12. CASE SendLink
  BY <1>4, <1>5, <1>6, <1>12, LinkKeepsSnap
<1>13. CASE WalkEnds \/ UNCHANGED vars
  BY <1>4, <1>5, <1>6, <1>13, EndKeepsSnap
<1> QED  BY <1>3, <1>7, <1>8, <1>9, <1>10, <1>11, <1>12, <1>13 DEF Server

\* When the server thread is through, the mirror has what is there.
LEMMA SnapIsFaithful ==
  ASSUME SoundOK, SnapOK, requests > 0, phase = "idle"
  PROVE  /\ ShownOnce /\ ShownElements = TrueElements
         /\ ShownPads = TruePads
         /\ ShownLinks = TrueLinks
<1> PICK n : n = Len(nodes)
  OBVIOUS
<1>1. /\ NodesOK /\ n \in Nat /\ DOMAIN nodes = 1..n /\ attached \subseteq Elements /\ Connected \subseteq Elements
      /\ pads \subseteq Pads /\ links \subseteq Pairs /\ PeersOK
      /\ \A l \in links : {l[1], l[2]} \subseteq pads
      /\ \A p \in Pads : p.of \in Elements
  BY SnapFacts DEF SoundOK, NodesOK, PipelineOK
<1>2. walk = <<>> /\ srcs = <<>> /\ found = <<>>
  BY DEF SnapOK, FreshOK, KeptOK
<1>3. /\ \A e \in Connected : Known(e)
      /\ \A p \in pads : p.of \in Connected => Spot(p) \in DOMAIN peer
  BY <1>2, WalkedIsKnown
<1>4. ASSUME NEW e \in Connected
      PROVE  /\ Way(e).at \in 1..n /\ Visible[Way(e).at]
             /\ PathShown[Way(e).at] = PathOf[e] /\ PathOf[e] = PathIn[e]
  <2>1. e \in Elements /\ Known(e) /\ PathOf[e] = PathIn[e]
    BY <1>1, <1>3, ConnectedFacts
  <2>2. Visible[Way(e).at] /\ PathShown[Way(e).at] = PathIn[e]
    BY <1>1, <2>1, ShownIs DEF ShownOK
  <2>3. Named(Way(Parent[e]).at, Name[e]) # {} /\ Way(e).at = Min(Named(Way(Parent[e]).at, Name[e]))
    BY <1>1, <2>1, KnownIs
  <2>4. Way(e).at \in Named(Way(Parent[e]).at, Name[e])
    BY <1>1, <2>3, NamedFacts
  <2> QED  BY <1>1, <2>1, <2>2, <2>4 DEF Named
<1>5. \A i \in 1..n : \E e \in Connected : Way(e).at = i
  BY DEF SnapOK, OnceOK
<1>6. VisibleNodes = 1..n
  BY <1>1, <1>4, <1>5 DEF VisibleNodes
<1>7. ShownElements = TrueElements
  <2>1. ASSUME NEW i \in 1..n PROVE PathShown[i] \in TrueElements
    BY <1>4, <1>5 DEF TrueElements
  <2>2. ASSUME NEW e \in Connected PROVE \E i \in 1..n : PathOf[e] = PathShown[i]
    BY <1>4
  <2> QED  BY <1>6, <2>1, <2>2 DEF ShownElements, TrueElements
<1>8. ShownOnce
  <2> DEFINE f == [i \in 1..n |-> PathShown[i]]
  <2>1. ASSUME NEW i \in 1..n, NEW j \in 1..n, PathShown[i] = PathShown[j] PROVE i = j
    <3>1. PICK d \in Connected : Way(d).at = i
      BY <1>5
    <3>2. PICK e \in Connected : Way(e).at = j
      BY <1>5
    <3>3. PathIn[d] = PathIn[e]
      BY <1>4, <2>1, <3>1, <3>2
    <3>4. d = e
      BY <1>1, <3>3, PathInIsInjective
    <3> QED  BY <3>1, <3>2, <3>4
  <2>2. f \in Bijection(1..n, ShownElements)
    BY <1>6, <2>1 DEF Bijection, Injection, Surjection, IsInjective, ShownElements
  <2>3. IsFiniteSet(1..n)
    BY <1>1, FS_Interval
  <2>4. ExistsBijection(1..n, ShownElements)
    BY <2>2 DEF ExistsBijection
  <2>5. Cardinality(ShownElements) = Cardinality(1..n)
    BY <2>3, <2>4, FS_Bijection
  <2> QED  BY <1>6, <2>5 DEF ShownOnce
<1>9. \A p \in Pads : p.of \in Connected => /\ Spot(p).of = Way(p.of).at /\ Spot(p).dir = p.dir
                                            /\ PathShown[Spot(p).of] = PathOf[p.of] /\ Visible[Spot(p).of]
  BY <1>4 DEF Spot
<1>10. ShownPads = TruePads
  <2>1. ASSUME NEW q \in DOMAIN peer PROVE <<PathShown[q.of], q.dir>> \in TruePads
    <3>1. PICK p \in pads : p.of \in Connected /\ q = Spot(p)
      BY DEF SnapOK, PadsSentOK
    <3>2. PathShown[q.of] = PathOf[p.of] /\ q.dir = p.dir
      BY <1>1, <1>9, <3>1
    <3> QED  BY <3>1, <3>2 DEF TruePads
  <2>2. ASSUME NEW p \in pads, p.of \in Connected PROVE <<PathOf[p.of], p.dir>> \in ShownPads
    <3>1. PICK q : q = Spot(p)
      OBVIOUS
    <3>2. q \in DOMAIN peer /\ PathShown[q.of] = PathOf[p.of] /\ q.dir = p.dir /\ Visible[q.of]
      BY <1>1, <1>3, <1>9, <2>2, <3>1
    <3> QED  BY <3>2 DEF ShownPads
  <2>3. ShownPads \subseteq TruePads
    BY <2>1 DEF ShownPads
  <2>4. TruePads \subseteq ShownPads
    BY <2>2 DEF TruePads
  <2> QED  BY <2>3, <2>4
<1>11. ShownLinks = TrueLinks
  <2>0. LinksSentOK
    BY DEF SnapOK
  <2>1. ASSUME NEW q \in DOMAIN peer, q.dir = "src", peer[q] # NoPad
        PROVE  <<PathShown[q.of], PathShown[peer[q].of]>> \in TrueLinks
    <3>1. PICK l \in links :
            /\ Ends(l) \subseteq Connected
            /\ (q = Spot(l[1]) /\ peer[q] = Spot(l[2])) \/ (q = Spot(l[2]) /\ peer[q] = Spot(l[1]))
      BY <2>0, <2>1 DEF LinksSentOK
    <3>2. /\ l[1] \in Pads /\ l[2] \in Pads /\ l[1].of \in Connected /\ l[2].of \in Connected
          /\ l[2].dir = "sink"
      BY <1>1, <3>1, PadFacts DEF Ends
    <3>3. q = Spot(l[1]) /\ peer[q] = Spot(l[2])
      <4>1. Spot(l[2]).dir = "sink"
        BY <1>9, <3>2
      <4> QED  BY <2>1, <3>1, <4>1
    <3>4. PathShown[q.of] = PathOf[l[1].of] /\ PathShown[peer[q].of] = PathOf[l[2].of]
      BY <1>9, <3>2, <3>3
    <3> QED  BY <3>1, <3>4 DEF TrueLinks
  <2>2. ASSUME NEW l \in links, Ends(l) \subseteq Connected
        PROVE  <<PathOf[l[1].of], PathOf[l[2].of]>> \in ShownLinks
    <3>1. /\ l[1] \in pads /\ l[2] \in pads /\ l[1] \in Pads /\ l[2] \in Pads
          /\ l[1].of \in Connected /\ l[2].of \in Connected /\ l[1].dir = "src"
      BY <1>1, <2>2, PadFacts DEF Ends
    <3>2. PICK q : q = Spot(l[1])
      OBVIOUS
    <3>3. q \in DOMAIN peer /\ Known(l[1].of)
      BY <1>3, <3>1, <3>2
    <3>4. peer[q] = Spot(l[2])
      <4>1. Len(srcs) = 0
        BY <1>2
      <4> QED  BY <1>2, <2>0, <3>1, <3>2, <3>3, <4>1 DEF LinksSentOK, Joined
    <3>5. peer[q] # NoPad
      BY <3>1, <3>4, SpotIsInjective
    <3>6. /\ q.dir = "src" /\ Visible[q.of] /\ PathShown[q.of] = PathOf[l[1].of]
          /\ PathShown[peer[q].of] = PathOf[l[2].of]
      BY <1>9, <3>1, <3>2, <3>4
    <3> QED  BY <3>3, <3>5, <3>6 DEF ShownLinks
  <2>3. ShownLinks \subseteq TrueLinks
    BY <2>1 DEF ShownLinks
  <2>4. TrueLinks \subseteq ShownLinks
    BY <2>2 DEF TrueLinks
  <2> QED  BY <2>3, <2>4
<1> QED  BY <1>7, <1>8, <1>10, <1>11

\* gst_debugserver_topology_send_entire_topology: of a pipeline of any shape
\* that does not change, the first topology gives every element, pad and link
\* once and in its place, and nothing else, whatever the names in it are.
THEOREM FirstTopologyIsFaithful == Spec => [](requests <= 1 => SnapshotIsFaithful)
<1>1. Init => SoundOK /\ SnapInv
  BY SoundInit, SnapInit DEF SnapInv
<1>2. SoundOK /\ SnapInv /\ [Next]_vars => (SoundOK /\ SnapInv)'
  <2>1. SoundOK /\ [Next]_vars => SoundOK'
    BY SoundStep
  <2> QED  BY <2>1, SnapStep
<1>3. SoundOK /\ SnapInv => (requests <= 1 => SnapshotIsFaithful)
  BY SnapIsFaithful DEF SnapInv, SnapshotIsFaithful, AtRest
<1> QED  BY <1>1, <1>2, <1>3, PTL DEF Spec

-----------------------------------------------------------------------------
\* Orderly changes by one thread, after the first topology.
OneThread == \A t, u \in Threads : t = u

\* What the debugger has been told of.
Announced == {e \in Connected : \A t \in Threads : task[t].of = e => task[t].op = "unpadding"}

\* What comes and goes is in the pipeline, and empty; what was announced has a
\* model and every model that is shown is of something announced; a pad that is
\* shown is there, and what it is linked to was linked to it.
TendedOK == \A t \in Threads : task[t].op \in {"added", "removing"} =>
  task[t].of \in Connected /\ Children(task[t].of) \cap attached = {}
MirroredOK ==
  /\ \A e \in Announced : Known(e)
  /\ \A i \in 1..Len(nodes) : nodes[i].shown => \E e \in Announced : Way(e).at = i
PadsOK == \A q \in DOMAIN peer :
  /\ q.of # 0
  /\ nodes[q.of].shown => \E p \in pads : /\ p.of \in Announced /\ q = Spot(p)
                                          /\ \A t \in Threads : p \notin task[t].pads
LinksOK == \A q \in DOMAIN peer : q.dir = "src" /\ nodes[q.of].shown /\ peer[q] # NoPad =>
  /\ peer[q].of \in 0..Len(nodes)
  /\ \E l \in links \cup refused : /\ l \in refused \/ Ends(l) \subseteq Connected
                                   /\ PathShown[q.of] = PathIn[l[1].of]
                                   /\ PathShown[peer[q].of] = PathIn[l[2].of]
FollowOK == TendedOK /\ MirroredOK /\ PadsOK /\ LinksOK

PathsOK ==
  /\ PathShown[0] = <<>>
  /\ \A i \in 1..Len(nodes) : PathShown[i] = Append(PathShown[nodes[i].parent], nodes[i].name)

LEMMA PathsAre == NodesOK => PathsOK
BY PathShownFacts DEF PathsOK

\* The path of a model is that of its names and parents, shown or not.
LEMMA PathsStay ==
  ASSUME NodesOK, NodesOK', Len(nodes) <= Len(nodes'),
         \A i \in 1..Len(nodes) : nodes'[i].name = nodes[i].name /\ nodes'[i].parent = nodes[i].parent
  PROVE  \A i \in 0..Len(nodes) : PathShown[i]' = PathShown[i]
<1> PICK n : n = Len(nodes)
  OBVIOUS
<1>1. /\ n \in Nat /\ n <= Len(nodes') /\ Len(nodes') \in Nat
      /\ \A i \in 1..n : nodes[i].parent \in 0..(i - 1)
  BY NodesAre DEF NodesOK
<1>2. PathsOK /\ PathsOK'
  <2>1. NodesOK' => PathsOK'
    BY PathsAre, PTL
  <2> QED  BY <2>1, PathsAre
<1>3. PathShown[0]' = PathShown[0]
  BY <1>2 DEF PathsOK
<1>4. ASSUME NEW i \in 1..n, NEW j, j = nodes[i].parent, PathShown[j]' = PathShown[j] PROVE PathShown[i]' = PathShown[i]
  <2>1. i \in 1..Len(nodes) /\ i \in 1..Len(nodes')
    BY <1>1
  <2>2. PathShown[i] = Append(PathShown[j], nodes[i].name)
    BY <1>2, <1>4, <2>1 DEF PathsOK
  <2>3. nodes'[i].parent = j /\ nodes'[i].name = nodes[i].name
    BY <1>4, <2>1
  <2>4. PathShown[i]' = Append(PathShown[j]', nodes'[i].name)
    BY <1>2, <2>1, <2>3 DEF PathsOK
  <2> QED  BY <1>4, <2>2, <2>3, <2>4
<1> DEFINE T == {k \in Nat : \A i \in 0..n : i < k => PathShown[i]' = PathShown[i]}
<1>5. 0 \in T
  BY <1>1
<1>6. ASSUME NEW k \in Nat, k \in T PROVE k + 1 \in T
  <2>1. ASSUME NEW i \in 0..n, i < k + 1 PROVE PathShown[i]' = PathShown[i]
    <3>1. CASE i = 0
      BY <1>3, <3>1
    <3>2. CASE i # 0
      <4>1. PICK j : j = nodes[i].parent
        OBVIOUS
      <4>2. i \in 1..n /\ j \in 0..n /\ j < k
        BY <1>1, <2>1, <3>2, <4>1
      <4>3. PathShown[j]' = PathShown[j]
        BY <1>6, <4>2
      <4> QED  BY <1>4, <4>1, <4>2, <4>3
    <3> QED  BY <3>1, <3>2
  <2> QED  BY <2>1
<1>7. Nat \subseteq T
  <2> HIDE DEF T
  <2> QED  BY <1>5, <1>6, SetInduction
<1>8. n + 1 \in T
  <2> HIDE DEF T
  <2> QED  BY <1>1, <1>7
<1> QED  BY <1>1, <1>8

\* What is announced is shown where it is.
LEMMA FollowFacts ==
  ASSUME SoundOK, MirroredOK
  PROVE  /\ attached \subseteq Elements /\ NodesOK /\ Len(nodes) \in Nat /\ PeersOK
         /\ Connected \subseteq attached /\ Announced \subseteq Connected
         /\ pads \subseteq Pads /\ links \subseteq Pairs /\ refused \subseteq Pairs
         /\ \A e \in Connected : Parent[e] \in Connected \cup {Root} /\ PathOf[e] = PathIn[e]
         /\ \A e \in attached : Parent[e] \in Connected \cup {Root} => e \in Connected
         /\ \A p \in Pads : /\ p.of \in Elements /\ Spot(p).of = Way(p.of).at /\ Spot(p).dir = p.dir
                            /\ Located(p).dir = p.dir
                            /\ p.of \in Connected => Located(p) = Spot(p)
                            /\ p.of \notin attached => Located(p).of = 0
         /\ \A e \in Announced :
              /\ Known(e) /\ e \in Elements /\ Way(e).at \in 1..Len(nodes) /\ nodes[Way(e).at].shown
              /\ Visible[Way(e).at] /\ PathShown[Way(e).at] = PathIn[e]
         /\ \A d, e \in Announced : Way(d).at = Way(e).at => d = e
<1>1. /\ attached \subseteq Elements /\ NodesOK /\ Len(nodes) \in Nat /\ PeersOK
      /\ pads \subseteq Pads /\ links \subseteq Pairs /\ refused \subseteq Pairs
  BY DEF SoundOK, PipelineOK, RestOK, NodesOK
<1>2. /\ Connected \subseteq attached /\ Announced \subseteq Connected
      /\ \A e \in Connected : Parent[e] \in Connected \cup {Root} /\ PathOf[e] = PathIn[e]
      /\ \A e \in attached : Parent[e] \in Connected \cup {Root} => e \in Connected
  BY <1>1, ConnectedFacts DEF Announced
<1>3. ASSUME NEW p \in Pads
      PROVE  /\ p.of \in Elements /\ Spot(p).of = Way(p.of).at /\ Spot(p).dir = p.dir
             /\ Located(p).dir = p.dir
             /\ p.of \in Connected => Located(p) = Spot(p)
             /\ p.of \notin attached => Located(p).of = 0
  <2>1. p.of \in Elements
    BY PadFacts
  <2>2. ASSUME p.of \notin attached PROVE Located(p).of = 0
    <3>1. PathOf[p.of] = <<>>
      BY <1>1, <2>1, <2>2, PathOfFacts
    <3>2. PathIn[Root] = <<>> /\ Way(Root) = Start
      BY <1>1, PathInFacts, WaysAre DEF WaysOK
    <3>3. Locate(<<>>) = Start.at
      BY <3>2, LocateIs DEF Way
    <3> QED  BY <3>1, <3>3 DEF Located, Start
  <2> QED  BY <1>1, <2>1, <2>2, ConnectedFacts DEF Spot, Located
<1>4. ASSUME NEW e \in Announced
      PROVE  /\ Known(e) /\ e \in Elements /\ Way(e).at \in 1..Len(nodes) /\ nodes[Way(e).at].shown
             /\ Visible[Way(e).at] /\ PathShown[Way(e).at] = PathIn[e]
  <2>1. Known(e) /\ e \in Elements
    BY <1>1, <1>2 DEF MirroredOK
  <2>2. Visible[Way(e).at] /\ PathShown[Way(e).at] = PathIn[e]
    BY <1>1, <2>1, ShownIs DEF ShownOK
  <2>3. Named(Way(Parent[e]).at, Name[e]) # {} /\ Way(e).at = Min(Named(Way(Parent[e]).at, Name[e]))
    BY <1>1, <2>1, KnownIs
  <2>4. Way(e).at \in Named(Way(Parent[e]).at, Name[e])
    BY <1>1, <2>3, NamedFacts
  <2>5. Way(e).at \in 1..Len(nodes) /\ nodes[Way(e).at].shown
    BY <1>1, <2>4 DEF Named, NodesOK
  <2> QED  BY <2>1, <2>2, <2>5
<1>5. \A d, e \in Announced : Way(d).at = Way(e).at => d = e
  BY <1>1, <1>4, WayIsInjective
<1> QED  BY <1>1, <1>2, <1>3, <1>4, <1>5

\* The first topology has what orderly changes begin with.
LEMMA SnapIsFollow ==
  ASSUME SoundOK, SnapOK, requests > 0, phase = "idle"
  PROVE  FollowOK
<1>1. /\ NodesOK /\ Connected \subseteq Elements /\ pads \subseteq Pads /\ links \subseteq Pairs
      /\ \A p \in Pads : p.of \in Elements
  BY SnapFacts
<1>2. walk = <<>> /\ \A t \in Threads : task[t] = Nothing
  BY DEF SnapOK, FreshOK, KeptOK, StillOK
<1>3. \A e \in Connected : Known(e)
  BY <1>2, WalkedIsKnown
<1>4. TendedOK
  BY <1>2 DEF TendedOK, Nothing
<1>5. Announced = Connected
  BY <1>1, <1>2, DepthFacts DEF Announced, Nothing
<1>6. MirroredOK
  BY <1>3, <1>5 DEF MirroredOK, SnapOK, OnceOK
<1>7. /\ \A e \in Connected : Way(e).at \in 1..Len(nodes) /\ PathShown[Way(e).at] = PathIn[e]
      /\ \A p \in Pads : Spot(p).of = Way(p.of).at /\ Spot(p).dir = p.dir
  BY <1>5, <1>6, FollowFacts
<1>8. PadsOK
  <2> SUFFICES ASSUME NEW q \in DOMAIN peer
               PROVE  /\ q.of # 0
                      /\ \E p \in pads : /\ p.of \in Announced /\ q = Spot(p)
                                         /\ \A t \in Threads : p \notin task[t].pads
    BY DEF PadsOK
  <2>1. PICK p \in pads : p.of \in Connected /\ q = Spot(p)
    BY DEF SnapOK, PadsSentOK
  <2>2. q.of \in 1..Len(nodes)
    BY <1>1, <1>7, <2>1
  <2>3. q.of # 0
    BY <2>2
  <2>4. \A t \in Threads : p \notin task[t].pads
    BY <1>2 DEF Nothing
  <2> QED  BY <1>5, <2>1, <2>3, <2>4
<1>9. LinksOK
  <2> SUFFICES ASSUME NEW q \in DOMAIN peer, q.dir = "src", peer[q] # NoPad
               PROVE  /\ peer[q].of \in 0..Len(nodes)
                      /\ \E l \in links : /\ Ends(l) \subseteq Connected
                                          /\ PathShown[q.of] = PathIn[l[1].of]
                                          /\ PathShown[peer[q].of] = PathIn[l[2].of]
    BY DEF LinksOK
  <2>1. PICK l \in links :
          /\ Ends(l) \subseteq Connected
          /\ (q = Spot(l[1]) /\ peer[q] = Spot(l[2])) \/ (q = Spot(l[2]) /\ peer[q] = Spot(l[1]))
    BY DEF SnapOK, LinksSentOK
  <2>2. /\ l[1] \in Pads /\ l[2] \in Pads /\ l[1].of \in Connected /\ l[2].of \in Connected
        /\ l[2].dir = "sink"
    BY <1>1, <2>1, PadFacts DEF Ends
  <2>3. q = Spot(l[1]) /\ peer[q] = Spot(l[2])
    <3>1. Spot(l[2]).dir = "sink"
      BY <1>7, <2>2
    <3> QED  BY <2>1, <3>1
  <2> QED  BY <1>7, <2>1, <2>2, <2>3
<1> QED  BY <1>4, <1>6, <1>8, <1>9 DEF FollowOK

\* What it means when nothing is under way.
LEMMA FollowIsFaithful ==
  ASSUME SoundOK, FollowOK, \A t \in Threads : task[t] = Nothing
  PROVE  /\ ShownOnce /\ ShownElements = TrueElements
         /\ ShownPads \subseteq TruePads
         /\ ShownLinks \subseteq TrueLinks \cup RefusedLinks
<1> PICK n : n = Len(nodes)
  OBVIOUS
<1>1. /\ attached \subseteq Elements /\ NodesOK /\ n \in Nat /\ PeersOK /\ DOMAIN nodes = 1..n
      /\ Connected \subseteq attached /\ pads \subseteq Pads
      /\ \A e \in Connected : PathOf[e] = PathIn[e]
      /\ \A p \in Pads : p.of \in Elements /\ Spot(p).of = Way(p.of).at /\ Spot(p).dir = p.dir
      /\ \A e \in Announced :
           /\ Way(e).at \in 1..n /\ Visible[Way(e).at] /\ PathShown[Way(e).at] = PathIn[e]
      /\ MirroredOK
  BY FollowFacts DEF FollowOK, NodesOK
<1>2. Announced = Connected
  BY <1>1, DepthFacts DEF Announced, Nothing
<1>3. \A i \in 1..n : Visible[i] => \E e \in Connected : Way(e).at = i
  BY <1>1, <1>2, VisibleFacts DEF MirroredOK
<1>4. /\ \A i \in VisibleNodes : \E e \in Connected : Way(e).at = i
      /\ \A e \in Connected : Way(e).at \in VisibleNodes
      /\ VisibleNodes \subseteq 1..n
  BY <1>1, <1>2, <1>3 DEF VisibleNodes
<1>5. ShownElements = TrueElements
  <2>1. ASSUME NEW i \in VisibleNodes PROVE PathShown[i] \in TrueElements
    BY <1>1, <1>2, <1>4 DEF TrueElements
  <2>2. ASSUME NEW e \in Connected PROVE \E i \in VisibleNodes : PathOf[e] = PathShown[i]
    BY <1>1, <1>2, <1>4
  <2> QED  BY <2>1, <2>2 DEF ShownElements, TrueElements
<1>6. ShownOnce
  <2> DEFINE f == [i \in VisibleNodes |-> PathShown[i]]
  <2>1. ASSUME NEW i \in VisibleNodes, NEW j \in VisibleNodes, PathShown[i] = PathShown[j] PROVE i = j
    <3>1. PICK d \in Connected : Way(d).at = i
      BY <1>4
    <3>2. PICK e \in Connected : Way(e).at = j
      BY <1>4
    <3>3. PathIn[d] = PathIn[e]
      BY <1>1, <1>2, <2>1, <3>1, <3>2
    <3>4. d = e
      BY <1>1, <3>3, PathInIsInjective
    <3> QED  BY <3>1, <3>2, <3>4
  <2>2. f \in Bijection(VisibleNodes, ShownElements)
    BY <2>1 DEF Bijection, Injection, Surjection, IsInjective, ShownElements
  <2>3. IsFiniteSet(VisibleNodes)
    <3>1. IsFiniteSet(1..n)
      BY <1>1, FS_Interval
    <3> QED  BY <1>4, <3>1, FS_Subset
  <2>4. ExistsBijection(VisibleNodes, ShownElements)
    BY <2>2 DEF ExistsBijection
  <2>5. Cardinality(ShownElements) = Cardinality(VisibleNodes)
    BY <2>3, <2>4, FS_Bijection
  <2> QED  BY <2>5 DEF ShownOnce
<1>7. ASSUME NEW q \in DOMAIN peer, Visible[q.of] PROVE q.of \in 1..n /\ nodes[q.of].shown
  <2>1. q.of # 0 /\ q \in PadModel /\ q.of <= n
    BY <1>1 DEF PeersOK, FollowOK, PadsOK
  <2>2. q.of \in 1..n
    BY <1>1, <2>1 DEF PadModel
  <2> QED  BY <1>1, <1>7, <2>2, VisibleFacts
<1>8. ShownPads \subseteq TruePads
  <2> SUFFICES ASSUME NEW q \in DOMAIN peer, Visible[q.of] PROVE <<PathShown[q.of], q.dir>> \in TruePads
    BY DEF ShownPads
  <2>1. PICK p \in pads : p.of \in Announced /\ q = Spot(p)
    BY <1>7 DEF FollowOK, PadsOK
  <2>2. PathShown[q.of] = PathOf[p.of] /\ q.dir = p.dir
    BY <1>1, <1>2, <2>1
  <2> QED  BY <1>2, <2>1, <2>2 DEF TruePads
<1>9. ShownLinks \subseteq TrueLinks \cup RefusedLinks
  <2> SUFFICES ASSUME NEW q \in DOMAIN peer, q.dir = "src", Visible[q.of], peer[q] # NoPad
               PROVE  <<PathShown[q.of], PathShown[peer[q].of]>> \in TrueLinks \cup RefusedLinks
    BY DEF ShownLinks
  <2>1. PICK l \in links \cup refused : /\ l \in refused \/ Ends(l) \subseteq Connected
                                        /\ PathShown[q.of] = PathIn[l[1].of]
                                        /\ PathShown[peer[q].of] = PathIn[l[2].of]
    BY <1>7 DEF FollowOK, LinksOK
  <2>2. CASE l \in refused
    BY <2>1, <2>2 DEF RefusedLinks
  <2>3. CASE l \notin refused
    <3>1. l \in links /\ Ends(l) \subseteq Connected
      BY <2>1, <2>3
    <3>2. PathOf[l[1].of] = PathIn[l[1].of] /\ PathOf[l[2].of] = PathIn[l[2].of]
      BY <1>1, <3>1 DEF Ends
    <3> QED  BY <2>1, <3>1, <3>2 DEF TrueLinks
  <2> QED  BY <2>2, <2>3
<1> QED  BY <1>5, <1>6, <1>8, <1>9

\* What is in the pipeline when something empty comes or goes.
ConnectedOK ==
  /\ Connected \subseteq attached
  /\ \A e \in Connected : Parent[e] \in Connected \cup {Root}
  /\ \A e \in attached : Parent[e] \in Connected \cup {Root} => e \in Connected

LEMMA ConnectedAre == attached \subseteq Elements => ConnectedOK
BY ConnectedFacts DEF ConnectedOK

LEMMA ConnectedGrows ==
  ASSUME attached \subseteq Elements, NEW e \in Elements, e \notin attached, Parent[e] \in Connected \cup {Root},
         Children(e) \cap attached = {}, attached' = attached \cup {e}
  PROVE  Connected' = Connected \cup {e}
<1>1. ConnectedOK /\ ConnectedOK'
  <2>1. (attached \subseteq Elements)' => ConnectedOK'
    BY ConnectedAre, PTL
  <2> QED  BY <2>1, ConnectedAre
<1>2. Connected \subseteq Connected' /\ Connected' \subseteq Elements
  BY DEF Connected
<1>3. e \in Connected'
  BY <1>1, <1>2 DEF ConnectedOK
<1> DEFINE S == {d \in Elements \cup {Root} : d \in Connected' => d \in Connected \cup {e}}
<1>4. ASSUME NEW d \in Elements, Parent[d] \in S, d \in Connected', d # e PROVE d \in Connected
  <2>1. d \in attached /\ Parent[d] \in Connected' \cup {Root}
    BY <1>1, <1>4 DEF ConnectedOK
  <2>2. Parent[d] # e
    BY <2>1 DEF Children
  <2>3. Parent[d] \in Connected \cup {Root}
    BY <1>4, <2>1, <2>2
  <2> QED  BY <1>1, <2>1, <2>3 DEF ConnectedOK
<1>5. Elements \cup {Root} \subseteq S
  <2>1. Root \in S
    BY <1>2, DepthFacts
  <2>2. \A d \in Elements : Parent[d] \in S => d \in S
    BY <1>4
  <2> HIDE DEF S
  <2> QED  BY <2>1, <2>2, DepthInduction
<1> QED  BY <1>2, <1>3, <1>5

LEMMA ConnectedShrinks ==
  ASSUME attached \subseteq Elements, NEW e \in Connected, Children(e) \cap attached = {}, attached' = attached \ {e}
  PROVE  Connected' = Connected \ {e}
<1>1. ConnectedOK /\ ConnectedOK'
  <2>1. (attached \subseteq Elements)' => ConnectedOK'
    BY ConnectedAre, PTL
  <2> QED  BY <2>1, ConnectedAre
<1>2. Connected' \subseteq Connected /\ Connected \subseteq Elements
  BY DEF Connected
<1>3. e \notin Connected'
  BY <1>1 DEF ConnectedOK
<1> DEFINE S == {d \in Elements \cup {Root} : d \in Connected \ {e} => d \in Connected'}
<1>4. ASSUME NEW d \in Elements, Parent[d] \in S, d \in Connected, d # e PROVE d \in Connected'
  <2>1. d \in attached' /\ d \in attached /\ Parent[d] \in Connected \cup {Root}
    BY <1>1, <1>4 DEF ConnectedOK
  <2>2. Parent[d] # e
    BY <2>1 DEF Children
  <2>3. Parent[d] \in Connected' \cup {Root}
    BY <1>4, <2>1, <2>2
  <2> QED  BY <1>1, <2>1, <2>3 DEF ConnectedOK
<1>5. Elements \cup {Root} \subseteq S
  <2>1. Root \in S
    BY <1>2, DepthFacts
  <2>2. \A d \in Elements : Parent[d] \in S => d \in S
    BY <1>4
  <2> HIDE DEF S
  <2> QED  BY <2>1, <2>2, DepthInduction
<1> QED  BY <1>2, <1>3, <1>5

\* Without a change of the models, what is announced, and what there is of pads
\* and links, decides.
Keeps(q) == \A p \in pads : p.of \in Announced /\ q = Spot(p) /\ (\A t \in Threads : p \notin task[t].pads) =>
              p \in pads' /\ \A t \in Threads : p \notin task'[t].pads
Padded(q) == q.of # 0 /\ \E p \in pads' : /\ p.of \in Announced /\ q = Spot(p)
                                          /\ \A t \in Threads : p \notin task'[t].pads
Linkage(q) == /\ peer'[q].of \in 0..Len(nodes)
              /\ \E l \in links' \cup refused' : /\ l \in refused' \/ Ends(l) \subseteq Connected'
                                                 /\ PathShown[q.of] = PathIn[l[1].of]
                                                 /\ PathShown[peer'[q].of] = PathIn[l[2].of]

LEMMA ModelsStay ==
  ASSUME SoundOK, SoundOK', UNCHANGED nodes
  PROVE  /\ \A e \in Elements \cup {Root} : (Known(e)' <=> Known(e)) /\ Way(e)' = Way(e)
         /\ \A p \in Pads : Spot(p)' = Spot(p)
         /\ \A i \in 0..Len(nodes) : PathShown[i]' = PathShown[i]
<1>1. NodesOK /\ NodesOK' /\ Len(nodes) <= Len(nodes') /\ Len(nodes) \in Nat
  BY DEF SoundOK, NodesOK
<1>2. \A i \in 0..Len(nodes) : PathShown[i]' = PathShown[i]
  BY <1>1, PathsStay
<1> QED  BY <1>2, SpotsStay

LEMMA FollowStays ==
  ASSUME SoundOK, SoundOK', FollowOK, UNCHANGED nodes, Announced' = Announced, TendedOK',
         \A q \in DOMAIN peer' : (q \in DOMAIN peer /\ Keeps(q)) \/ Padded(q),
         \A q \in DOMAIN peer' : q.dir = "src" /\ nodes[q.of].shown /\ peer'[q] # NoPad => Linkage(q)
  PROVE  FollowOK'
<1> PICK n : n = Len(nodes)
  OBVIOUS
<1>1. /\ n \in Nat /\ Announced \subseteq Elements /\ pads \subseteq Pads /\ PeersOK'
      /\ \A p \in Pads : p.of \in Elements
  BY FollowFacts DEF SoundOK, FollowOK
<1>2. /\ \A e \in Elements \cup {Root} : (Known(e)' <=> Known(e)) /\ Way(e)' = Way(e)
      /\ \A p \in Pads : Spot(p)' = Spot(p)
      /\ \A i \in 0..n : PathShown[i]' = PathShown[i]
  BY ModelsStay
<1>3. MirroredOK'
  <2>1. \A e \in Announced : Known(e)'
    BY <1>1, <1>2 DEF FollowOK, MirroredOK
  <2>2. \A i \in 1..Len(nodes) : nodes[i].shown => \E e \in Announced : Way(e)'.at = i
    BY <1>1, <1>2 DEF FollowOK, MirroredOK
  <2> QED  BY <2>1, <2>2 DEF MirroredOK
<1>4. pads' \subseteq Pads
  BY DEF SoundOK, PipelineOK
<1>5. PadsOK'
  <2> SUFFICES ASSUME NEW q \in DOMAIN peer'
               PROVE  /\ q.of # 0
                      /\ nodes[q.of].shown => \E p \in pads' : /\ p.of \in Announced /\ q = Spot(p)'
                                                               /\ \A t \in Threads : p \notin task'[t].pads
    BY DEF PadsOK
  <2>1. CASE q \in DOMAIN peer /\ Keeps(q)
    <3>1. q.of # 0 /\ (nodes[q.of].shown => \E p \in pads : /\ p.of \in Announced /\ q = Spot(p)
                                                            /\ \A t \in Threads : p \notin task[t].pads)
      BY <2>1 DEF FollowOK, PadsOK
    <3>2. nodes[q.of].shown => \E p \in pads' : /\ p.of \in Announced /\ q = Spot(p)
                                                /\ \A t \in Threads : p \notin task'[t].pads
      BY <2>1, <3>1 DEF Keeps
    <3> QED  BY <1>2, <1>4, <3>1, <3>2
  <2>2. CASE Padded(q)
    BY <1>2, <1>4, <2>2 DEF Padded
  <2> QED  BY <2>1, <2>2
<1>6. LinksOK'
  <2> SUFFICES ASSUME NEW q \in DOMAIN peer', q.dir = "src", nodes[q.of].shown, peer'[q] # NoPad
               PROVE  /\ peer'[q].of \in 0..Len(nodes')
                      /\ \E l \in links' \cup refused' : /\ l \in refused' \/ Ends(l) \subseteq Connected'
                                                         /\ PathShown[q.of]' = PathIn[l[1].of]
                                                         /\ PathShown[peer[q].of]' = PathIn[l[2].of]
    BY DEF LinksOK, Ends
  <2>1. Linkage(q)
    OBVIOUS
  <2>2. q.of \in 0..n
    BY <1>1 DEF PeersOK, PadModel
  <2>3. PICK k : k = peer'[q]
    OBVIOUS
  <2>4. PathShown[q.of]' = PathShown[q.of] /\ k.of \in 0..n /\ PathShown[k.of]' = PathShown[k.of]
    BY <1>2, <2>1, <2>2, <2>3 DEF Linkage
  <2> QED  BY <2>1, <2>3, <2>4 DEF Linkage
<1> QED  BY <1>3, <1>5, <1>6 DEF FollowOK

\* What one thread has in hand is all that is not announced.
LEMMA OneTask ==
  ASSUME SoundOK, OneThread, NEW t \in Threads
  PROVE  /\ Threads = {t} /\ task[t] \in Task /\ DOMAIN task = Threads
         /\ task[t] = Nothing => Announced = Connected
         /\ task[t].op = "unpadding" => Announced = Connected
         /\ task[t].op # "unpadding" => Announced = Connected \ {task[t].of}
<1>1. Threads = {t} /\ task[t] \in Task /\ DOMAIN task = Threads /\ attached \subseteq Elements
  BY DEF OneThread, SoundOK, PipelineOK
<1>2. task[t] = Nothing => Announced = Connected
  BY <1>1, DepthFacts DEF Announced, Nothing, Connected
<1> QED  BY <1>1, <1>2 DEF Announced

AllAnnounced == \A t \in Threads : task[t].op \in {"none", "unpadding"} => Announced = Connected
LEMMA AnnouncedAre == OneThread /\ SoundOK => AllAnnounced
<1> SUFFICES ASSUME OneThread, SoundOK, NEW t \in Threads, task[t].op \in {"none", "unpadding"}
             PROVE  Announced = Connected
  BY DEF AllAnnounced
<1>1. task[t] = Nothing \/ task[t].op = "unpadding"
  BY DEF SoundOK, PipelineOK, TaskOK, Nothing
<1> QED  BY <1>1, OneTask

LEMMA AnnouncedStay ==
  ASSUME OneThread, SoundOK', NEW t \in Threads, task'[t].op \in {"none", "unpadding"}
  PROVE  Announced' = Connected'
<1>1. OneThread' /\ SoundOK' => AllAnnounced'
  BY AnnouncedAre, PTL
<1> QED  BY <1>1 DEF OneThread, AllAnnounced

LEMMA LinkageStays ==
  ASSUME FollowOK, NEW q \in DOMAIN peer, q.dir = "src", nodes[q.of].shown, peer[q] # NoPad, peer'[q] = peer[q],
         refused \subseteq refused',
         \A l \in links : Ends(l) \subseteq Connected =>
           l \in refused' \/ (l \in links' /\ Ends(l) \subseteq Connected')
  PROVE  Linkage(q)
<1>1. /\ peer[q].of \in 0..Len(nodes)
      /\ \E l \in links \cup refused : /\ l \in refused \/ Ends(l) \subseteq Connected
                                       /\ PathShown[q.of] = PathIn[l[1].of]
                                       /\ PathShown[peer[q].of] = PathIn[l[2].of]
  BY DEF FollowOK, LinksOK
<1> QED  BY <1>1 DEF Linkage

LEMMA AttachFollows ==
  ASSUME SoundOK, SoundOK', FollowOK, Orderly, OneThread, NEW t \in Threads, NEW e \in Elements, Attach(t, e)
  PROVE  FollowOK'
<1>1. /\ e \notin attached /\ task[t] = Nothing /\ attached' = attached \cup {e}
      /\ Parent[e] \in Connected \cup {Root} /\ Children(e) \cap attached = {}
      /\ task' = [task EXCEPT ![t] = [op |-> "added", of |-> e, pads |-> {}]]
      /\ UNCHANGED <<nodes, peer, pads, links, refused>>
  BY DEF Attach, Begins, mirrorVars, history
<1>2. attached \subseteq Elements /\ Connected \subseteq attached
  BY FollowFacts DEF FollowOK
<1>3. Connected' = Connected \cup {e}
  BY <1>1, <1>2, ConnectedGrows
<1>4. Threads = {t} /\ Announced = Connected /\ task'[t] = [op |-> "added", of |-> e, pads |-> {}]
  BY <1>1, OneTask
<1>5. Announced' = Announced
  BY <1>1, <1>2, <1>3, <1>4 DEF Announced
<1>6. TendedOK'
  <2>1. e \notin Children(e)
    BY DepthFacts DEF Children
  <2> QED  BY <1>1, <1>3, <1>4, <2>1 DEF TendedOK
<1>7. \A q \in DOMAIN peer' : q \in DOMAIN peer /\ Keeps(q)
  BY <1>1, <1>4 DEF Keeps
<1>8. \A q \in DOMAIN peer' : q.dir = "src" /\ nodes[q.of].shown /\ peer'[q] # NoPad => Linkage(q)
  BY <1>1, <1>3, LinkageStays
<1> QED  BY <1>1, <1>5, <1>6, <1>7, <1>8, FollowStays

LEMMA DetachFollows ==
  ASSUME SoundOK, SoundOK', FollowOK, OneThread, NEW t \in Threads, Detach(t)
  PROVE  FollowOK'
<1> PICK e : e = task[t].of
  OBVIOUS
<1>1. /\ task[t].op = "removing" /\ attached' = attached \ {e} /\ task' = [task EXCEPT ![t] = Nothing]
      /\ \A l \in links : e \notin Ends(l)
      /\ UNCHANGED <<nodes, peer, pads, links, refused>>
  BY DEF Detach, mirrorVars, history
<1>2. attached \subseteq Elements /\ e \in Connected /\ Children(e) \cap attached = {}
  BY <1>1, FollowFacts DEF FollowOK, TendedOK
<1>3. Connected' = Connected \ {e}
  BY <1>1, <1>2, ConnectedShrinks
<1>4. Threads = {t} /\ Announced = Connected \ {e} /\ task'[t] = Nothing
  BY <1>1, OneTask
<1>5. Announced' = Announced
  <2>1. Announced' = Connected'
    BY <1>4, AnnouncedStay DEF Nothing
  <2> QED  BY <1>3, <1>4, <2>1
<1>6. TendedOK'
  BY <1>4 DEF TendedOK, Nothing
<1>7. \A q \in DOMAIN peer' : q \in DOMAIN peer /\ Keeps(q)
  BY <1>1, <1>4 DEF Keeps, Nothing
<1>8. \A q \in DOMAIN peer' : q.dir = "src" /\ nodes[q.of].shown /\ peer'[q] # NoPad => Linkage(q)
  BY <1>1, <1>3, LinkageStays
<1> QED  BY <1>1, <1>5, <1>6, <1>7, <1>8, FollowStays

LEMMA PadGoneFollows ==
  ASSUME SoundOK, SoundOK', FollowOK, OneThread, NEW t \in Threads, PadGone(t)
  PROVE  FollowOK'
<1>1. /\ task[t].op = "unpadding" /\ pads' = pads \ task[t].pads /\ task' = [task EXCEPT ![t] = Nothing]
      /\ UNCHANGED <<nodes, peer, attached, links, refused>>
  BY DEF PadGone, mirrorVars, history
<1>2. Connected' = Connected
  BY <1>1 DEF Connected
<1>3. Threads = {t} /\ Announced = Connected /\ task'[t] = Nothing
  BY <1>1, OneTask
<1>4. Announced' = Announced
  <2>1. Announced' = Connected'
    BY <1>3, AnnouncedStay DEF Nothing
  <2> QED  BY <1>2, <1>3, <2>1
<1>5. TendedOK'
  BY <1>3 DEF TendedOK, Nothing
<1>6. \A q \in DOMAIN peer' : q \in DOMAIN peer /\ Keeps(q)
  BY <1>1, <1>3 DEF Keeps, Nothing
<1>7. \A q \in DOMAIN peer' : q.dir = "src" /\ nodes[q.of].shown /\ peer'[q] # NoPad => Linkage(q)
  BY <1>1, <1>2, LinkageStays
<1> QED  BY <1>1, <1>4, <1>5, <1>6, <1>7, FollowStays

LEMMA AddPadFollows ==
  ASSUME SoundOK, SoundOK', FollowOK, Orderly, OneThread, NEW t \in Threads, NEW p \in Pads, ElementAddPad(t, p)
  PROVE  FollowOK'
<1>1. /\ p \notin pads /\ task[t] = Nothing /\ pads' = pads \cup {p}
      /\ p.of \in Connected \/ p.of \notin attached
      /\ IF p.of \in attached THEN AddPad(p) ELSE UNCHANGED mirrorVars
      /\ UNCHANGED <<nodes, attached, links, refused, task>>
  BY DEF ElementAddPad, Begins, history, AddPad, mirrorVars
<1>2. Connected' = Connected
  BY <1>1 DEF Connected
<1>3. Threads = {t} /\ Announced = Connected
  BY <1>1, OneTask
<1>4. Announced' = Announced
  <2>1. Announced' = Connected'
    BY <1>1, <1>3, AnnouncedStay DEF Nothing
  <2> QED  BY <1>2, <1>3, <2>1
<1>5. TendedOK'
  BY <1>1, <1>3 DEF TendedOK, Nothing
<1>6. \A q \in DOMAIN peer : Keeps(q)
  BY <1>1 DEF Keeps
<1>7. CASE p.of \in attached
  <2>1. peer' = [q \in DOMAIN peer \cup {Spot(p)} |-> IF q \in DOMAIN peer THEN peer[q] ELSE NoPad]
    <3>1. p.of \in Connected => Located(p) = Spot(p)
      BY FollowFacts DEF FollowOK
    <3> QED  BY <1>1, <1>7, <3>1 DEF AddPad
  <2>2. Padded(Spot(p))
    <3>1. p.of \in Announced /\ Spot(p).of = Way(p.of).at /\ Way(p.of).at \in 1..Len(nodes)
      BY <1>1, <1>3, <1>7, FollowFacts DEF FollowOK
    <3>2. Spot(p).of # 0
      BY <3>1
    <3>3. p \notin task'[t].pads
      BY <1>1 DEF Nothing
    <3> QED  BY <1>1, <1>3, <3>1, <3>2, <3>3 DEF Padded
  <2>3. \A q \in DOMAIN peer' : (q \in DOMAIN peer /\ Keeps(q)) \/ Padded(q)
    BY <1>6, <2>1, <2>2
  <2>4. \A q \in DOMAIN peer' : q.dir = "src" /\ nodes[q.of].shown /\ peer'[q] # NoPad => Linkage(q)
    <3> SUFFICES ASSUME NEW q \in DOMAIN peer', q.dir = "src", nodes[q.of].shown, peer'[q] # NoPad
                 PROVE  Linkage(q)
      OBVIOUS
    <3>1. q \in DOMAIN peer /\ peer'[q] = peer[q]
      BY <2>1
    <3> QED  BY <1>1, <1>2, <3>1, LinkageStays
  <2> QED  BY <1>1, <1>4, <1>5, <2>3, <2>4, FollowStays
<1>8. CASE p.of \notin attached
  <2>1. UNCHANGED peer
    BY <1>1, <1>8 DEF mirrorVars
  <2>2. \A q \in DOMAIN peer' : q.dir = "src" /\ nodes[q.of].shown /\ peer'[q] # NoPad => Linkage(q)
    BY <1>1, <1>2, <2>1, LinkageStays
  <2> QED  BY <1>1, <1>4, <1>5, <1>6, <2>1, <2>2, FollowStays
<1> QED  BY <1>7, <1>8

LEMMA RemovePadFollows ==
  ASSUME SoundOK, SoundOK', FollowOK, Orderly, OneThread, NEW t \in Threads, NEW p \in Pads, ElementRemovePad(t, p)
  PROVE  FollowOK'
<1>1. /\ task[t] = Nothing
      /\ p.of \in Connected \/ p.of \notin attached
      /\ IF p.of \in attached THEN RemovePad(p) ELSE UNCHANGED mirrorVars
      /\ task' = [task EXCEPT ![t] = [op |-> "unpadding", of |-> p.of, pads |-> {p}]]
      /\ UNCHANGED <<nodes, attached, pads, links, refused>>
  BY DEF ElementRemovePad, Begins, history, RemovePad, mirrorVars, pipelineVars
<1>2. Connected' = Connected
  BY <1>1 DEF Connected
<1>3. Threads = {t} /\ Announced = Connected /\ task'[t] = [op |-> "unpadding", of |-> p.of, pads |-> {p}]
  <2>1. task'[t] = [op |-> "unpadding", of |-> p.of, pads |-> {p}]
    BY <1>1, OneTask
  <2> QED  BY <1>1, <2>1, OneTask
<1>4. Announced' = Announced
  <2>1. Announced' = Connected'
    BY <1>3, AnnouncedStay
  <2> QED  BY <1>2, <1>3, <2>1
<1>5. TendedOK'
  BY <1>3 DEF TendedOK
<1>6. \A r \in Pads : p.of \in Announced /\ r.of \in Announced /\ Spot(r) = Spot(p) => r = p
  <2>1. ASSUME NEW r \in Pads, p.of \in Announced, r.of \in Announced, Spot(r) = Spot(p) PROVE r = p
    <3>1. Known(p.of) /\ Known(r.of)
      BY <2>1, FollowFacts DEF FollowOK
    <3> QED  BY <2>1, <3>1, SpotIsInjective
  <2> QED  BY <2>1
<1>7. ASSUME NEW q, p.of \notin Announced \/ q # Spot(p) PROVE Keeps(q)
  BY <1>1, <1>3, <1>7 DEF Keeps
<1>8. CASE p.of \in attached
  <2>1. peer' = [q \in DOMAIN peer \ {Spot(p)} |-> peer[q]]
    <3>1. p.of \in Connected => Located(p) = Spot(p)
      BY FollowFacts DEF FollowOK
    <3>2. peer' = Restrict(peer, DOMAIN peer \ {Spot(p)})
      BY <1>1, <1>8, <3>1 DEF RemovePad
    <3> QED  BY <3>2 DEF Restrict
  <2>2. \A q \in DOMAIN peer' : q \in DOMAIN peer /\ Keeps(q)
    BY <1>7, <2>1
  <2>3. \A q \in DOMAIN peer' : q.dir = "src" /\ nodes[q.of].shown /\ peer'[q] # NoPad => Linkage(q)
    <3> SUFFICES ASSUME NEW q \in DOMAIN peer', q.dir = "src", nodes[q.of].shown, peer'[q] # NoPad
                 PROVE  Linkage(q)
      OBVIOUS
    <3>1. q \in DOMAIN peer /\ peer'[q] = peer[q]
      BY <2>1
    <3> QED  BY <1>1, <1>2, <3>1, LinkageStays
  <2> QED  BY <1>1, <1>4, <1>5, <2>2, <2>3, FollowStays
<1>9. CASE p.of \notin attached
  <2>1. UNCHANGED peer /\ p.of \notin Announced
    BY <1>1, <1>3, <1>9, FollowFacts DEF mirrorVars, FollowOK
  <2>2. \A q \in DOMAIN peer' : q.dir = "src" /\ nodes[q.of].shown /\ peer'[q] # NoPad => Linkage(q)
    BY <1>1, <1>2, <2>1, LinkageStays
  <2> QED  BY <1>1, <1>4, <1>5, <1>7, <2>1, <2>2, FollowStays
<1> QED  BY <1>8, <1>9

\* A link that is undone is no longer shown, nor is it needed to explain another.
LEMMA UnlinkFollows ==
  ASSUME SoundOK, SoundOK', FollowOK, NEW l \in links, Unlink(l), UNCHANGED task
  PROVE  FollowOK'
<1>1. /\ peer' = [q \in DOMAIN peer |-> IF q \in {Located(l[1]), Located(l[2])} THEN NoPad ELSE peer[q]]
      /\ links' = links \ {l}
      /\ UNCHANGED <<nodes, attached, pads, refused>>
  BY DEF Unlink, RemoveLink
<1>2. Connected' = Connected
  BY <1>1 DEF Connected
<1>3. Announced' = Announced /\ TendedOK'
  BY <1>1, <1>2 DEF Announced, FollowOK, TendedOK
<1>4. \A q \in DOMAIN peer' : q \in DOMAIN peer /\ Keeps(q)
  BY <1>1 DEF Keeps
<1>5. ASSUME NEW q \in DOMAIN peer', q.dir = "src", nodes[q.of].shown, peer'[q] # NoPad
      PROVE  Linkage(q)
  <2>1. q \in DOMAIN peer /\ peer'[q] = peer[q] /\ peer[q] # NoPad /\ q # Located(l[1])
    BY <1>1, <1>5
  <2>2. PICK m \in links \cup refused : /\ m \in refused \/ Ends(m) \subseteq Connected
                                        /\ PathShown[q.of] = PathIn[m[1].of]
                                        /\ PathShown[peer[q].of] = PathIn[m[2].of]
    BY <1>5, <2>1 DEF FollowOK, LinksOK
  <2>3. m \in refused \/ m # l
    <3> SUFFICES ASSUME m = l, m \notin refused PROVE FALSE
      OBVIOUS
    <3>1. l \in Pairs /\ l[1] \in Pads /\ l[1].dir = "src" /\ l[1].of \in Connected
      BY <2>2, FollowFacts, PadFacts DEF Ends, FollowOK
    <3>2. q \in PadModel /\ q.of \in 1..Len(nodes)
      <4>1. q \in PadModel /\ q.of <= Len(nodes) /\ q.of # 0
        BY <2>1 DEF SoundOK, PeersOK, FollowOK, PadsOK
      <4>2. Len(nodes) \in Nat
        BY DEF SoundOK, NodesOK
      <4> QED  BY <4>1, <4>2 DEF PadModel
    <3>3. PICK d \in Announced : Way(d).at = q.of
      BY <1>5, <3>2 DEF FollowOK, MirroredOK
    <3>4. d \in Elements /\ PathIn[d] = PathIn[l[1].of]
      BY <2>2, <3>3, FollowFacts DEF FollowOK
    <3>5. l[1].of = d
      BY <3>1, <3>4, PathInIsInjective, PadFacts
    <3>6. Located(l[1]) = [of |-> q.of, dir |-> "src"]
      <4>1. Located(l[1]) = Spot(l[1])
        BY <3>1, FollowFacts DEF FollowOK
      <4> QED  BY <3>1, <3>3, <3>5, <4>1 DEF Spot
    <3>7. q = [of |-> q.of, dir |-> "src"]
      BY <1>5, <3>2 DEF PadModel
    <3> QED  BY <2>1, <3>6, <3>7
  <2>4. m \in links' \cup refused' /\ (m \in refused' \/ Ends(m) \subseteq Connected')
    BY <1>1, <1>2, <2>2, <2>3
  <2>5. peer[q].of \in 0..Len(nodes)
    BY <1>5, <2>1 DEF FollowOK, LinksOK
  <2> QED  BY <2>1, <2>2, <2>4, <2>5 DEF Linkage
<1> QED  BY <1>1, <1>3, <1>4, <1>5, FollowStays

\* A link that was refused is shown between what it was tried between.
LEMMA LinkFollows ==
  ASSUME SoundOK, SoundOK', FollowOK, Orderly, OneThread, NEW t \in Threads, NEW l \in Pairs, PadLinkPost(t, l)
  PROVE  FollowOK'
<1>1. /\ task[t] = Nothing
      /\ l[1].of \in Connected \/ l[1].of \notin attached
      /\ l[2].of \in Connected \/ l[2].of \notin attached
      /\ UNCHANGED <<nodes, attached, pads, task>>
      /\ links \subseteq links' /\ refused \subseteq refused'
      /\ (UNCHANGED peer \/ (AddLink(l[1], l[2]) /\ l \in refused'))
  BY DEF PadLinkPost, Begins, mirrorVars, AddLink
<1>2. Connected' = Connected
  BY <1>1 DEF Connected
<1>3. Announced' = Announced /\ TendedOK' /\ Announced = Connected
  BY <1>1, <1>2, OneTask DEF Announced, FollowOK, TendedOK
<1>4. /\ l[1] \in Pads /\ l[2] \in Pads /\ l[2].dir = "sink"
      /\ attached \subseteq Elements /\ NodesOK
  BY PadFacts DEF SoundOK, PipelineOK
<1>5. \A q \in DOMAIN peer : Keeps(q)
  BY <1>1 DEF Keeps
<1>6. ASSUME NEW q \in DOMAIN peer, peer'[q] = peer[q], q.dir = "src", nodes[q.of].shown, peer'[q] # NoPad
      PROVE  Linkage(q)
  BY <1>1, <1>2, <1>6, LinkageStays
<1>7. CASE UNCHANGED peer
  BY <1>1, <1>3, <1>5, <1>6, <1>7, FollowStays
<1>8. ASSUME AddLink(l[1], l[2]), l \in refused' PROVE FollowOK'
  <2>1. PICK s : s = Located(l[1])
    OBVIOUS
  <2>2. PICK k : k = Located(l[2])
    OBVIOUS
  <2>3. /\ DOMAIN peer' = DOMAIN peer
        /\ \A q \in DOMAIN peer : \/ peer'[q] = peer[q] \/ q = k
                                  \/ {s, k} \subseteq DOMAIN peer /\ q = s /\ peer'[q] = k
    BY <1>8, <2>1, <2>2 DEF AddLink
  <2>4. k.dir = "sink" /\ k.of \in 0..Len(nodes)
    <3>1. k.dir = "sink" /\ k \in PadModel /\ k.of <= Len(nodes) /\ Len(nodes) \in Nat
      BY <1>4, <2>2, LocatedFacts DEF NodesOK
    <3> QED  BY <3>1 DEF PadModel
  <2>5. ASSUME NEW p \in {l[1], l[2]}, Located(p) \in DOMAIN peer
        PROVE  PathShown[Located(p).of] = PathIn[p.of]
    <3>1. p \in Pads /\ (p.of \in Connected \/ p.of \notin attached)
      BY <1>1, <1>4
    <3>2. Located(p).of # 0
      BY <2>5 DEF FollowOK, PadsOK
    <3>3. p.of \in Connected
      BY <3>1, <3>2, FollowFacts DEF FollowOK
    <3>4. Located(p) = Spot(p) /\ Spot(p).of = Way(p.of).at
      BY <3>1, <3>3, FollowFacts DEF FollowOK
    <3>5. PathShown[Way(p.of).at] = PathIn[p.of]
      BY <1>3, <3>3, FollowFacts DEF FollowOK
    <3> QED  BY <3>4, <3>5
  <2>6. ASSUME NEW q \in DOMAIN peer', q.dir = "src", nodes[q.of].shown, peer'[q] # NoPad
        PROVE  Linkage(q)
    <3>1. CASE peer'[q] = peer[q]
      BY <1>6, <2>3, <2>6, <3>1
    <3>2. CASE {s, k} \subseteq DOMAIN peer /\ q = s /\ peer'[q] = k
      <4>1. PathShown[q.of] = PathIn[l[1].of] /\ PathShown[k.of] = PathIn[l[2].of]
        BY <2>1, <2>2, <2>5, <3>2
      <4> QED  BY <1>8, <2>4, <3>2, <4>1 DEF Linkage
    <3>3. q # k
      BY <2>4, <2>6
    <3> QED  BY <2>3, <3>1, <3>2, <3>3
  <2> QED  BY <1>1, <1>3, <1>5, <2>3, <2>6, FollowStays
<1> QED  BY <1>1, <1>7, <1>8

\* What is added in the pipeline gets a model of its own, where it belongs.
LEMMA AddFollows ==
  ASSUME SoundOK, SoundOK', FollowOK, OneThread, NEW t \in Threads, BinAddPost(t)
  PROVE  FollowOK'
<1> PICK e : e = task[t].of
  OBVIOUS
<1> PICK n : n = Len(nodes)
  OBVIOUS
<1>1. /\ task[t].op = "added" /\ AddElement(e) /\ task' = [task EXCEPT ![t] = Nothing]
      /\ UNCHANGED <<attached, pads, links, refused, peer>>
  BY DEF BinAddPost, AddElement, pipelineVars, history
<1>2. /\ attached \subseteq Elements /\ NodesOK /\ n \in Nat /\ PeersOK /\ pads \subseteq Pads
      /\ e \in Connected /\ Parent[e] \in Connected \cup {Root} /\ e \in attached /\ e \in Elements
      /\ NodesOK' /\ MirroredOK /\ PadsOK /\ LinksOK
      /\ \A d \in Announced : d \in Elements /\ Known(d)
      /\ \A p \in Pads : p.of \in Elements
  BY <1>1, FollowFacts DEF FollowOK, TendedOK, SoundOK
<1>3. Connected' = Connected
  BY <1>1 DEF Connected
<1>4. /\ Threads = {t} /\ Announced = Connected \ {e} /\ task'[t] = Nothing
      /\ Announced' = Announced \cup {e}
  <2>1. Threads = {t} /\ Announced = Connected \ {e} /\ task'[t] = Nothing
    BY <1>1, OneTask
  <2>2. Announced' = Connected'
    BY <2>1, AnnouncedStay DEF Nothing
  <2> QED  BY <1>2, <1>3, <2>1, <2>2
<1>5. Known(Parent[e])
  <2>1. Known(Root)
    BY <1>2, WaysAre DEF WaysOK, Known, Start
  <2> QED  BY <1>2, <1>4, <2>1, DepthFacts
<1>6. ~Known(e)
  <2> SUFFICES ASSUME Known(e) PROVE FALSE
    OBVIOUS
  <2>1. Way(e).at \in Named(Way(Parent[e]).at, Name[e])
    BY <1>2, KnownIs, NamedFacts
  <2>2. Way(e).at \in 1..n /\ nodes[Way(e).at].shown
    BY <1>2, <2>1 DEF Named, NodesOK
  <2>3. PICK d \in Announced : Way(d).at = Way(e).at
    BY <1>2, <2>2 DEF MirroredOK
  <2>4. d = e
    BY <1>2, <2>3, WayIsInjective
  <2> QED  BY <1>4, <2>4
<1>7. /\ Known(e)' /\ Way(e)'.at = n + 1 /\ Len(nodes') = n + 1
      /\ \A d \in Elements \cup {Root} : d # e => (Known(d)' <=> Known(d))
      /\ \A d \in Elements \cup {Root} : Known(d) => Way(d)' = Way(d)
  BY <1>1, <1>2, <1>5, <1>6, SentAlone
<1>8. \A i \in 1..n : nodes'[i] = nodes[i]
  BY <1>1, <1>2, AddedIs
<1>9. \A i \in 0..n : PathShown[i]' = PathShown[i]
  BY <1>2, <1>7, <1>8, PathsStay
<1>10. MirroredOK'
  <2>1. \A d \in Announced' : Known(d)'
    BY <1>2, <1>4, <1>7
  <2>2. ASSUME NEW i \in 1..n, nodes'[i].shown PROVE \E d \in Announced' : Way(d)'.at = i
    <3>1. PICK d \in Announced : Way(d).at = i
      BY <1>2, <1>8, <2>2 DEF MirroredOK
    <3> QED  BY <1>2, <1>4, <1>7, <3>1
  <2>3. \E d \in Announced' : Way(d)'.at = n + 1
    BY <1>4, <1>7
  <2>4. \A i \in 1..Len(nodes') : i \in 1..n \/ i = n + 1
    BY <1>2, <1>7
  <2> QED  BY <2>1, <2>2, <2>3, <2>4 DEF MirroredOK
<1>11. \A q \in DOMAIN peer : q.of \in 1..n
  BY <1>2 DEF PadsOK, PeersOK, PadModel
<1>12. PadsOK'
  <2> SUFFICES ASSUME NEW q \in DOMAIN peer, nodes'[q.of].shown
               PROVE  \E p \in pads : /\ p.of \in Announced' /\ q = Spot(p)'
                                      /\ \A u \in Threads : p \notin task'[u].pads
    BY <1>1, <1>2 DEF PadsOK
  <2>1. PICK p \in pads : p.of \in Announced /\ q = Spot(p)
    BY <1>2, <1>8, <1>11 DEF PadsOK
  <2>2. Spot(p)' = Spot(p)
    BY <1>2, <1>7, <2>1 DEF Spot
  <2> QED  BY <1>4, <2>1, <2>2 DEF Nothing
<1>13. LinksOK'
  <2> SUFFICES ASSUME NEW q \in DOMAIN peer, q.dir = "src", nodes'[q.of].shown, peer[q] # NoPad
               PROVE  /\ peer[q].of \in 0..Len(nodes')
                      /\ \E l \in links \cup refused : /\ l \in refused \/ Ends(l) \subseteq Connected
                                                       /\ PathShown[q.of]' = PathIn[l[1].of]
                                                       /\ PathShown[peer[q].of]' = PathIn[l[2].of]
    BY <1>1, <1>3 DEF LinksOK
  <2>1. /\ peer[q].of \in 0..n
        /\ \E l \in links \cup refused : /\ l \in refused \/ Ends(l) \subseteq Connected
                                         /\ PathShown[q.of] = PathIn[l[1].of]
                                         /\ PathShown[peer[q].of] = PathIn[l[2].of]
    BY <1>2, <1>8, <1>11 DEF LinksOK
  <2>2. q.of \in 0..n /\ 0..n \subseteq 0..Len(nodes')
    BY <1>2, <1>7, <1>11
  <2>3. PICK k : k = peer[q]
    OBVIOUS
  <2>4. PathShown[q.of]' = PathShown[q.of] /\ PathShown[k.of]' = PathShown[k.of]
    BY <1>9, <2>1, <2>2, <2>3
  <2>5. peer'[q] = k
    BY <1>1, <2>3
  <2> QED  BY <2>1, <2>2, <2>3, <2>4, <2>5
<1>14. TendedOK'
  BY <1>4 DEF TendedOK, Nothing
<1> QED  BY <1>10, <1>12, <1>13, <1>14 DEF FollowOK

\* What is removed is the model of what goes, and of nothing else.
LEMMA RemoveFollows ==
  ASSUME SoundOK, SoundOK', FollowOK, Orderly, OneThread, NEW t \in Threads, NEW e \in Elements, BinRemovePre(t, e)
  PROVE  FollowOK'
<1> PICK n : n = Len(nodes)
  OBVIOUS
<1> PICK i0 : i0 = Way(e).at
  OBVIOUS
<1>1. /\ task[t] = Nothing /\ RemoveElement(e) /\ e \in attached /\ Children(e) \cap attached = {} /\ e \in Connected
      /\ task' = [task EXCEPT ![t] = [op |-> "removing", of |-> e, pads |-> {}]]
      /\ UNCHANGED <<attached, pads, links, refused, peer>>
  BY DEF BinRemovePre, Begins, RemoveElement, pipelineVars
<1>2. /\ attached \subseteq Elements /\ NodesOK /\ n \in Nat /\ PeersOK /\ pads \subseteq Pads
      /\ \A d \in Connected : d \in attached /\ Parent[d] \in Connected \cup {Root}
      /\ NodesOK' /\ MirroredOK /\ PadsOK /\ LinksOK
      /\ \A d \in Announced : d \in Elements /\ Known(d)
      /\ \A d, c \in Announced : Way(d).at = Way(c).at => d = c
      /\ \A p \in Pads : p.of \in Elements
  BY FollowFacts DEF FollowOK, SoundOK
<1>3. Connected' = Connected
  BY <1>1 DEF Connected
<1>4. /\ Threads = {t} /\ Announced = Connected /\ task'[t] = [op |-> "removing", of |-> e, pads |-> {}]
  BY <1>1, OneTask
<1>5. Announced' = Announced \ {e}
  BY <1>3, <1>4 DEF Announced
<1>6. /\ Named(Way(Parent[e]).at, Name[e]) # {} /\ i0 = Min(Named(Way(Parent[e]).at, Name[e]))
      /\ i0 \in Named(Way(Parent[e]).at, Name[e])
  BY <1>1, <1>2, <1>4, KnownIs, NamedFacts
<1>7. Locate(PathOf[Parent[e]]) = Way(Parent[e]).at
  BY <1>1, <1>2, ConnectedFacts
<1>8. /\ Len(nodes') = n
      /\ \A i \in 1..n : /\ nodes'[i].name = nodes[i].name /\ nodes'[i].parent = nodes[i].parent
                         /\ nodes'[i].shown = (nodes[i].shown /\ i # i0)
  <2>1. /\ Len(nodes') = n
        /\ \A i \in 1..n : /\ nodes'[i].name = nodes[i].name /\ nodes'[i].parent = nodes[i].parent
                           /\ nodes'[i].shown = (nodes[i].shown /\ ~(i \in Named(Way(Parent[e]).at, Name[e]) /\ i = i0))
    BY <1>1, <1>2, <1>6, <1>7, RemovedIs
  <2> QED  BY <1>6, <2>1
<1>9. \A i \in 0..n : PathShown[i]' = PathShown[i]
  BY <1>2, <1>8, PathsStay
<1>10. ASSUME NEW d \in Announced \ {e}, NEW at \in Nat, at = Way(Parent[d]).at, Named(at, Name[d]) # {}
       PROVE  Named(at, Name[d])' = Named(at, Name[d])
  <2>1. i0 \notin Named(at, Name[d])
    <3> SUFFICES ASSUME i0 \in Named(at, Name[d]) PROVE FALSE
      OBVIOUS
    <3>1. nodes[i0] = [name |-> Name[d], parent |-> at, shown |-> TRUE]
          /\ nodes[i0] = [name |-> Name[e], parent |-> Way(Parent[e]).at, shown |-> TRUE]
      BY <1>6 DEF Named
    <3>2. Name[d] = Name[e] /\ at = Way(Parent[e]).at
      BY <3>1
    <3>3. Way(d).at = i0
      BY <1>2, <1>6, <1>10, <3>2, KnownIs
    <3> QED  BY <1>1, <1>2, <1>4, <1>10, <3>3
  <2>2. DOMAIN nodes = 1..n /\ DOMAIN nodes' = 1..n
    BY <1>2, <1>8 DEF NodesOK
  <2>3. ASSUME NEW i \in 1..n, i # i0 PROVE nodes'[i] = nodes[i]
    <3>1. nodes[i] \in Node /\ nodes'[i] \in Node
      BY <1>2, <2>2, <1>8 DEF NodesOK
    <3>2. nodes'[i].name = nodes[i].name /\ nodes'[i].parent = nodes[i].parent /\ nodes'[i].shown = nodes[i].shown
      BY <1>8, <2>3, <3>1 DEF Node
    <3> QED  BY <3>1, <3>2 DEF Node
  <2>4. nodes'[i0] # [name |-> Name[d], parent |-> at, shown |-> TRUE]
    <3>1. i0 \in 1..n
      BY <1>6, <2>2 DEF Named
    <3>2. ~nodes'[i0].shown
      BY <1>8, <3>1
    <3>3. \A x : x = [name |-> Name[d], parent |-> at, shown |-> TRUE] => x.shown
      OBVIOUS
    <3> QED  BY <3>2, <3>3
  <2>5. \A i \in 1..n : nodes'[i] = [name |-> Name[d], parent |-> at, shown |-> TRUE] <=>
                        nodes[i] = [name |-> Name[d], parent |-> at, shown |-> TRUE]
    BY <2>1, <2>2, <2>3, <2>4 DEF Named
  <2> QED  BY <2>2, <2>5 DEF Named
<1>11. \A d \in Announced \ {e} : Known(d)' /\ Way(d)' = Way(d)
  <2> DEFINE D == Announced \ {e}
  <2>1. D \in SUBSET Elements
    BY <1>2
  <2>2. \A d \in D : Parent[d] \in D \cup {Root}
    BY <1>1, <1>2, <1>4 DEF Children
  <2>3. \A d \in D, at \in Nat : at = Way(Parent[d]).at /\ Known(Parent[d]) /\ Named(at, Name[d]) # {} =>
          Named(at, Name[d])' # {} /\ Min(Named(at, Name[d])') = Min(Named(at, Name[d]))
    BY <1>10
  <2>4. \A d \in D : Known(d)
    BY <1>2
  <2> HIDE DEF D
  <2>5. \A d \in D \cup {Root} : Known(d) => Known(d)' /\ Way(d)' = Way(d)
    BY <1>2, <2>1, <2>2, <2>3, KnownStays
  <2>6. \A d \in D : Known(d)' /\ Way(d)' = Way(d)
    BY <2>4, <2>5
  <2> QED  BY <2>6 DEF D
<1>12. MirroredOK'
  <2>1. \A d \in Announced' : Known(d)'
    BY <1>5, <1>11
  <2>2. ASSUME NEW i \in 1..n, nodes'[i].shown PROVE \E d \in Announced' : Way(d)'.at = i
    <3>1. nodes[i].shown /\ i # i0
      BY <1>8, <2>2
    <3>2. PICK d \in Announced : Way(d).at = i
      BY <1>2, <3>1 DEF MirroredOK
    <3> QED  BY <1>5, <1>11, <3>1, <3>2
  <2> QED  BY <1>8, <2>1, <2>2 DEF MirroredOK
<1>13. \A q \in DOMAIN peer : q.of \in 1..n
  BY <1>2 DEF PadsOK, PeersOK, PadModel
<1>14. PadsOK'
  <2> SUFFICES ASSUME NEW q \in DOMAIN peer, nodes'[q.of].shown
               PROVE  \E p \in pads : /\ p.of \in Announced' /\ q = Spot(p)'
                                      /\ \A u \in Threads : p \notin task'[u].pads
    BY <1>1, <1>2 DEF PadsOK
  <2>1. nodes[q.of].shown /\ q.of # i0
    BY <1>8, <1>13
  <2>2. PICK p \in pads : p.of \in Announced /\ q = Spot(p)
    BY <1>2, <2>1 DEF PadsOK
  <2>3. p.of \in Announced \ {e}
    <3>1. Way(p.of).at = q.of
      BY <2>2 DEF Spot
    <3> QED  BY <2>1, <2>2, <3>1
  <2>4. Spot(p)' = Spot(p)
    BY <1>11, <2>3 DEF Spot
  <2> QED  BY <1>4, <1>5, <2>2, <2>3, <2>4
<1>15. LinksOK'
  <2> SUFFICES ASSUME NEW q \in DOMAIN peer, q.dir = "src", nodes'[q.of].shown, peer[q] # NoPad
               PROVE  /\ peer[q].of \in 0..Len(nodes')
                      /\ \E l \in links \cup refused : /\ l \in refused \/ Ends(l) \subseteq Connected
                                                       /\ PathShown[q.of]' = PathIn[l[1].of]
                                                       /\ PathShown[peer[q].of]' = PathIn[l[2].of]
    BY <1>1, <1>3 DEF LinksOK
  <2>1. nodes[q.of].shown
    BY <1>8, <1>13
  <2>2. /\ peer[q].of \in 0..n
        /\ \E l \in links \cup refused : /\ l \in refused \/ Ends(l) \subseteq Connected
                                         /\ PathShown[q.of] = PathIn[l[1].of]
                                         /\ PathShown[peer[q].of] = PathIn[l[2].of]
    BY <1>2, <2>1 DEF LinksOK
  <2>3. q.of \in 0..n
    BY <1>2, <1>13
  <2>4. PICK k : k = peer[q]
    OBVIOUS
  <2>5. PathShown[q.of]' = PathShown[q.of] /\ PathShown[k.of]' = PathShown[k.of]
    BY <1>9, <2>2, <2>3, <2>4
  <2>6. peer'[q] = k
    BY <1>1, <2>4
  <2> QED  BY <1>8, <2>2, <2>4, <2>5, <2>6
<1>16. TendedOK'
  BY <1>1, <1>3, <1>4 DEF TendedOK
<1> QED  BY <1>12, <1>14, <1>15, <1>16 DEF FollowOK

LEMMA ChangerFollows ==
  ASSUME SoundOK, SoundOK', FollowOK, Orderly, OneThread, NEW t \in Threads, Changer(t)
  PROVE  FollowOK'
<1>1. ASSUME NEW e \in Elements, Attach(t, e) PROVE FollowOK'
  BY <1>1, AttachFollows
<1>2. ASSUME NEW e \in Elements, BinRemovePre(t, e) PROVE FollowOK'
  BY <1>2, RemoveFollows
<1>3. ASSUME NEW p \in Pads, ElementAddPad(t, p) PROVE FollowOK'
  BY <1>3, AddPadFollows
<1>4. ASSUME NEW p \in Pads, ElementRemovePad(t, p) PROVE FollowOK'
  BY <1>4, RemovePadFollows
<1>5. ASSUME NEW l \in Pairs, PadLinkPost(t, l) PROVE FollowOK'
  BY <1>5, LinkFollows
<1>6. ASSUME NEW l \in Pairs, PadUnlinkPost(t, l) PROVE FollowOK'
  BY <1>6, UnlinkFollows DEF PadUnlinkPost
<1>7. CASE BinAddPost(t)
  BY <1>7, AddFollows
<1>8. CASE RemoveUnlinks(t)
  BY <1>8, UnlinkFollows DEF RemoveUnlinks
<1>9. CASE Detach(t)
  BY <1>9, DetachFollows
<1>10. CASE PadGone(t)
  BY <1>10, PadGoneFollows
<1> QED  BY <1>1, <1>2, <1>3, <1>4, <1>5, <1>6, <1>7, <1>8, <1>9, <1>10 DEF Changer

\* From the first change on, until the topology is asked for again.
FollowInv == requests <= 1 => changes = 0 \/ (requests = 1 /\ phase = "idle" /\ FollowOK)

LEMMA FollowStep ==
  ASSUME SoundOK, SoundOK', SnapInv, FollowInv, Orderly, OneThread, [Next]_vars
  PROVE  FollowInv'
<1> SUFFICES ASSUME requests' <= 1, changes' # 0 PROVE requests' = 1 /\ phase' = "idle" /\ FollowOK'
  BY DEF FollowInv
<1>1. changes \in Nat /\ requests \in Nat
  BY DEF SoundOK, RestOK
<1>2. ASSUME NEW t \in Threads, Changer(t) PROVE requests' = 1 /\ phase' = "idle" /\ FollowOK'
  <2>1. /\ UNCHANGED <<requests, phase>>
        /\ (task[t] = Nothing /\ requests > 0 /\ phase = "idle") \/ task[t].op \in {"added", "removing", "unpadding"}
        /\ task[t] = Nothing \/ UNCHANGED changes
    BY <1>2 DEF Changer, Attach, BinRemovePre, ElementAddPad, ElementRemovePad, PadLinkPost, PadUnlinkPost,
       BinAddPost, RemoveUnlinks, Detach, PadGone, Begins, Unlink, walkVars
  <2>2. requests <= 1
    BY <2>1
  <2>3. requests = 1 /\ phase = "idle" /\ FollowOK
    <3>1. CASE changes = 0
      <4>1. SnapOK
        BY <2>2, <3>1 DEF SnapInv
      <4>2. task[t] = Nothing
        BY <4>1 DEF SnapOK, StillOK
      <4>3. requests > 0 /\ phase = "idle"
        BY <2>1, <4>2 DEF Nothing
      <4>4. FollowOK
        BY <4>1, <4>3, SnapIsFollow
      <4> QED  BY <1>1, <2>2, <4>3, <4>4
    <3>2. CASE changes # 0
      BY <2>2, <3>2 DEF FollowInv
    <3> QED  BY <3>1, <3>2
  <2> QED  BY <1>2, <2>1, <2>3, ChangerFollows
<1>3. ASSUME Server \/ UNCHANGED vars PROVE requests' = 1 /\ phase' = "idle" /\ FollowOK'
  <2>1. UNCHANGED changes /\ (UNCHANGED requests \/ requests' = requests + 1)
    BY <1>3 DEF Server, Request, SendElement, SendPad, NextElement, TakeLink, SendLink, WalkEnds, vars
  <2>2. requests = 1 /\ phase = "idle" /\ FollowOK
    BY <1>1, <2>1 DEF FollowInv
  <2>3. UNCHANGED vars
    BY <1>3, <2>2 DEF Server, Request, SendElement, SendPad, NextElement, TakeLink, SendLink, WalkEnds, Walking
  <2>4. UNCHANGED <<attached, pads, links, task, nodes, peer, refused, requests, phase>>
    BY <2>3 DEF vars, pipelineVars, walkVars, mirrorVars, history
  <2>5. Announced' = Announced /\ Connected' = Connected
    BY <2>4 DEF Announced, Connected
  <2>6. TendedOK'
    BY <2>2, <2>4, <2>5 DEF FollowOK, TendedOK
  <2>7. \A q \in DOMAIN peer' : q \in DOMAIN peer /\ Keeps(q)
    BY <2>4 DEF Keeps
  <2>8. \A q \in DOMAIN peer' : q.dir = "src" /\ nodes[q.of].shown /\ peer'[q] # NoPad => Linkage(q)
    BY <2>2, <2>4, <2>5, LinkageStays
  <2> QED  BY <2>2, <2>4, <2>5, <2>6, <2>7, <2>8, FollowStays
<1> QED  BY <1>2, <1>3 DEF Next

\* do_bin_add_post, do_bin_remove_pre, do_pad_link_post and the others: when
\* one thread changes the pipeline after the first topology, and adds and
\* removes its bins empty, the mirror has at rest exactly the elements of the
\* pipeline, each once, and no pad or link that is not there, attempts at a
\* link excepted.
THEOREM OrderlyChangesAreFollowed ==
  ASSUME Orderly, OneThread
  PROVE  Spec => [](requests <= 1 => MirrorFollows)
<1>1. Init => SoundOK /\ SnapInv /\ FollowInv
  <2>1. Init => FollowInv
    BY DEF Init, FollowInv
  <2> QED  BY <2>1, SoundInit, SnapInit DEF SnapInv
<1>2. SoundOK /\ SnapInv /\ FollowInv /\ [Next]_vars => (SoundOK /\ SnapInv /\ FollowInv)'
  <2>1. SoundOK /\ [Next]_vars => SoundOK'
    BY SoundStep
  <2>2. SoundOK /\ SoundOK' /\ SnapInv /\ [Next]_vars => SnapInv'
    BY SnapStep
  <2> QED  BY <2>1, <2>2, FollowStep
<1>3. SoundOK /\ SnapInv /\ FollowInv => (requests <= 1 => MirrorFollows)
  <2> SUFFICES ASSUME SoundOK, SnapInv, FollowInv, requests <= 1, AtRest
               PROVE  /\ ShownOnce /\ ShownElements = TrueElements
                      /\ ShownPads \subseteq TruePads
                      /\ ShownLinks \subseteq TrueLinks \cup RefusedLinks
    BY DEF MirrorFollows
  <2>1. requests > 0 /\ phase = "idle" /\ \A t \in Threads : task[t] = Nothing
    BY DEF AtRest
  <2>2. FollowOK
    <3>1. CASE changes = 0
      BY <2>1, <3>1, SnapIsFollow DEF SnapInv
    <3>2. CASE changes # 0
      BY <3>2 DEF FollowInv
    <3> QED  BY <3>1, <3>2
  <2> QED  BY <2>1, <2>2, FollowIsFaithful
<1> QED  BY <1>1, <1>2, <1>3, PTL DEF Spec

=============================================================================
