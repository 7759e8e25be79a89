---------------------------- MODULE DrawingProofs ----------------------------
(***************************************************************************)
(* The wake-ups of the drawing and what it shows, for every pipeline and   *)
(* every bound, however deep the loops are nested.                         *)
(***************************************************************************)
EXTENDS Drawing, ListFacts

One(condition) == IF condition THEN 1 ELSE 0

\* The wake-ups that are posted, the one that is being handled, and the one the
\* reader thread still has to emit.
Due == posted + One(gui = "called") + One(reader = "emit")

\* Each of them has its model.  The page of the beginning is made without one,
\* but before the first connection nobody posts: no frame comes, there is no
\* bin to go into, and nothing above the root.
QueueOK ==
  /\ IsSequence(queue) /\ IsSequence(mirrors) /\ posted \in Nat
  /\ connected => mirrors # <<>>
  /\ mirrors = <<>> => posted = 0 /\ reader = "idle" /\ current = RootModel
  /\ mirrors # <<>> => Len(queue) >= Due

LEMMA QueueInit == Init => QueueOK
BY EmptyIsSequence DEF Init, QueueOK

LEMMA NothingShown == mirrors = <<>> /\ current = RootModel => MirrorOf(current).shown = {}
BY DEF MirrorOf, NoMirror

\* The reader thread.
LEMMA ReaderKeepsQueue == ASSUME QueueOK, Reader PROVE QueueOK'
<1> USE DEF QueueOK, Due, One
<1>1. Len(queue) \in Nat
  BY LenIsNatural
<1>2. CASE ProcessFrame
  <2>1. IsSequence(mirrors') /\ mirrors' # <<>>
    BY <1>2, ExceptIsSequence DEF ProcessFrame
  <2> QED  BY <1>1, <1>2, <2>1 DEF ProcessFrame, loopVars, guiVars
<1>3. CASE ClientDisconnected
  <2>1. IsSequence(mirrors') /\ mirrors' # <<>>
    BY <1>3, ExceptIsSequence DEF ClientDisconnected
  <2> QED  BY <1>1, <1>3, <2>1 DEF ClientDisconnected, loopVars, guiVars
<1>4. CASE Quit
  BY <1>1, <1>4 DEF Quit, guiVars
<1>5. CASE Push
  <2>1. IsSequence(queue') /\ Len(queue') = Len(queue) + 1
    BY <1>5, AppendIsSequence DEF Push
  <2> QED  BY <1>1, <1>5, <2>1 DEF Push, guiVars
<1>6. CASE Emit
  BY <1>1, <1>6 DEF Emit, guiVars
<1> QED  BY <1>2, <1>3, <1>4, <1>5, <1>6 DEF Reader

\* The handler of a wake-up, and the loops it runs in.
LEMMA LoopKeepsQueue == ASSUME QueueOK, Loop PROVE QueueOK'
<1> USE DEF QueueOK, Due, One
<1>1. Len(queue) \in Nat
  BY LenIsNatural
<1>2. CASE WakeUp
  BY <1>1, <1>2 DEF WakeUp, Iterates, readerVars
<1>3. CASE Take
  <2>1. CASE queue = <<>>
    BY <1>1, <1>3, <2>1 DEF Take, readerVars
  <2>2. CASE queue # <<>>
    <3>1. IsSequence(queue') /\ Len(queue') = Len(queue) - 1
      BY <1>3, <2>2, TailIsSequence DEF Take
    <3> QED  BY <1>1, <1>3, <2>2, <3>1 DEF Take, readerVars
  <2> QED  BY <2>1, <2>2
<1>4. CASE Convert
  BY <1>1, <1>4 DEF Convert, readerVars, loopVars
<1>5. CASE Draw
  BY <1>1, <1>5 DEF Draw, readerVars
<1>6. CASE FreeGraph
  BY <1>1, <1>6 DEF FreeGraph, readerVars
<1> QED  BY <1>2, <1>3, <1>4, <1>5, <1>6 DEF Loop

\* What the user looks at changes only after there was a connection.
LEMMA UserKeepsQueue == ASSUME QueueOK, User PROVE QueueOK'
<1> USE DEF QueueOK, Due, One
<1>1. Len(queue) \in Nat
  BY LenIsNatural
<1>2. ASSUME NEW x, Show(x), mirrors # <<>> PROVE QueueOK'
  <2>1. IsSequence(queue') /\ Len(queue') = Len(queue) + 1
    BY <1>2, AppendIsSequence DEF Show
  <2> QED  BY <1>1, <1>2, <2>1 DEF Show, Clicks, readerVars
<1>3. CASE ModelDown
  <2>1. mirrors # <<>>
    BY <1>3, NothingShown DEF ModelDown, Chosen
  <2> QED  BY <1>2, <1>3, <2>1 DEF ModelDown
<1>4. CASE ModelUp
  <2>1. mirrors # <<>>
    BY <1>4 DEF ModelUp
  <2> QED  BY <1>2, <1>4, <2>1 DEF ModelUp
<1>5. CASE Connect
  <2>1. IsSequence(mirrors') /\ mirrors' # <<>>
    BY <1>5, AppendIsSequence DEF Connect
  <2>2. UNCHANGED <<queue, posted, reader, current>> /\ gui = "idle" /\ gui' = gui /\ reader = "idle"
    BY <1>5 DEF Connect, Clicks, Iterates
  <2> QED  BY <1>1, <2>1, <2>2
<1>6. CASE Close
  BY <1>1, <1>6 DEF Close, Clicks, readerVars
<1> QED  BY <1>3, <1>4, <1>5, <1>6 DEF User

LEMMA QueueStep == QueueOK /\ [Next]_vars => QueueOK'
<1> SUFFICES ASSUME QueueOK, [Next]_vars PROVE QueueOK'
  OBVIOUS
<1>1. CASE PadUnlink \/ BinRemove
  BY <1>1 DEF PadUnlink, BinRemove, Changes, QueueOK, Due, One, loopVars, guiVars
<1>2. CASE UNCHANGED vars
  BY <1>2 DEF vars, QueueOK, Due, One, readerVars, loopVars, guiVars
<1> QED  BY <1>1, <1>2, ReaderKeepsQueue, LoopKeepsQueue, UserKeepsQueue DEF Next

\* GraphModule::update_model pushes before it posts, in whichever thread: the
\* handler of a wake-up always finds a model, and the drawing is not replaced
\* by a blank page.
THEOREM WakeUpsHaveModels == Spec => []ModelBeforeWakeUp
<1>1. QueueOK => ModelBeforeWakeUp
  <2> SUFFICES ASSUME QueueOK PROVE ModelBeforeWakeUp
    OBVIOUS
  <2>1. Len(queue) \in Nat
    BY LenIsNatural DEF QueueOK
  <2> QED  BY <2>1 DEF QueueOK, Due, One, ModelBeforeWakeUp
<1> QED  BY <1>1, QueueInit, QueueStep, PTL DEF Spec

\* A window that was closed with nothing under way: nothing is, and no loop goes
\* on, so that no handler runs any more.
QuietOK ==
  closed /\ ~behind => posted = 0 /\ reader = "idle" /\ gui = "idle" /\ ~running /\ ~again

LEMMA QuietInit == Init => QuietOK
BY DEF Init, QuietOK

LEMMA QuietStep == QueueOK /\ QuietOK /\ [Next]_vars => QuietOK'
<1> SUFFICES ASSUME QueueOK, QuietOK, [Next]_vars PROVE QuietOK'
  OBVIOUS
<1>1. posted \in Nat
  BY DEF QueueOK
<1> USE DEF QuietOK
<1>2. CASE ProcessFrame \/ ClientDisconnected
  BY <1>2 DEF ProcessFrame, ClientDisconnected, loopVars, guiVars
<1>3. CASE Quit \/ Push \/ Emit
  BY <1>3 DEF Quit, Push, Emit, guiVars
<1>4. CASE WakeUp
  BY <1>4 DEF WakeUp, Iterates, readerVars
<1>5. CASE Take \/ Convert \/ Draw
  BY <1>5 DEF Take, Convert, Draw, readerVars, loopVars
<1>6. CASE FreeGraph
  BY <1>6 DEF FreeGraph, readerVars
<1>7. CASE ModelDown \/ ModelUp \/ Connect
  <2>1. ~closed /\ closed' = closed
    BY <1>7 DEF ModelDown, ModelUp, Connect, Show, Clicks
  <2> QED  BY <2>1
<1>8. CASE Close
  <2>1. CASE posted > 0 \/ reader # "idle"
    BY <1>8, <2>1 DEF Close
  <2>2. CASE posted = 0 /\ reader = "idle"
    BY <1>8, <2>2 DEF Close, Clicks, Iterates, readerVars
  <2> QED  BY <1>1, <2>1, <2>2
<1>9. CASE PadUnlink \/ BinRemove
  BY <1>9 DEF PadUnlink, BinRemove, Changes, loopVars, guiVars
<1>10. CASE UNCHANGED vars
  BY <1>10 DEF vars, readerVars, loopVars, guiVars
<1> QED  BY <1>2, <1>3, <1>4, <1>5, <1>6, <1>7, <1>8, <1>9, <1>10 DEF Next, Reader, Loop, User

\* The delete event: without a model to draw at that time or later, the loops
\* end with the window, however deep they are nested and whatever quits were
\* forgotten before.
THEOREM WindowEndsTheLoops == Spec => []LingersOnlyOnUpdate
<1>1. QuietOK => LingersOnlyOnUpdate
  BY DEF QuietOK, LingersOnlyOnUpdate, Rest
<1> QED  BY <1>1, QueueInit, QueueStep, QuietInit, QuietStep, PTL DEF Spec

-----------------------------------------------------------------------------
\* The pipeline and what the server tells of it.

\* The place of an element in the order of the server.
Place(e) == CHOOSE i \in DOMAIN Order : Order[i] = e

LEMMA OrderFacts ==
  /\ DOMAIN Order = 1..Len(Order) /\ Len(Order) \in Nat
  /\ \A e \in Elements : Place(e) \in 1..Len(Order) /\ Order[Place(e)] = e
  /\ \A e \in Elements : Parent[e] \in {Root} \cup Elements
  /\ \A e \in Elements : Parent[e] \in Elements => Place(Parent[e]) < Place(e)
  /\ Root \notin Elements /\ Bins \subseteq Elements \cup {Root}
<1>1. DOMAIN Order = 1..Len(Order) /\ Len(Order) \in Nat
  BY OrderAssumption
<1>2. \A e \in Elements : Place(e) \in 1..Len(Order) /\ Order[Place(e)] = e
  <2>1. \A e \in Elements : \E i \in DOMAIN Order : Order[i] = e
    BY DEF Elements, ToSet
  <2> QED  BY <1>1, <2>1 DEF Place
<1>3. \A i, j \in DOMAIN Order : Order[i] = Order[j] => i = j
  BY OrderAssumption DEF IsInjective
<1>4. ASSUME NEW e \in Elements
      PROVE  Parent[e] \in {Root} \cup Elements /\ (Parent[e] \in Elements => Place(Parent[e]) < Place(e))
  <2> DEFINE i == Place(e)
  <2>1. i \in DOMAIN Order /\ Order[i] = e
    BY <1>1, <1>2
  <2> HIDE DEF i
  <2>2. Parent[e] \in {Root} \cup {Order[j] : j \in 1..(i - 1)}
    BY <2>1, OrderAssumption
  <2>3. CASE Parent[e] = Root
    BY <2>3, OrderAssumption
  <2>4. CASE Parent[e] # Root
    <3>1. PICK j \in 1..(i - 1) : Parent[e] = Order[j]
      BY <2>2, <2>4
    <3>2. j \in DOMAIN Order /\ j < i
      BY <1>1, <2>1, <3>1
    <3>3. Parent[e] \in Elements
      BY <3>1, <3>2 DEF Elements, ToSet
    <3>4. Place(Parent[e]) = j
      BY <1>1, <1>2, <1>3, <3>1, <3>2, <3>3
    <3> QED  BY <3>2, <3>3, <3>4 DEF i
  <2> QED  BY <2>3, <2>4
<1>5. Bins \subseteq Elements \cup {Root}
  BY <1>4 DEF Bins
<1> QED  BY <1>1, <1>2, <1>4, <1>5, OrderAssumption

LEMMA PadFacts ==
  ASSUME NEW p \in AllPads
  PROVE  /\ p.of \in Elements /\ p.dir \in {"src", "sink"} /\ p.inner \in BOOLEAN
         /\ p.inner => p.of \in Bins
         /\ p = [of |-> p.of, dir |-> p.dir, inner |-> p.inner]
<1>1. CASE p \in Pads
  BY <1>1 DEF Pads
<1>2. CASE p \in [of : Bins \ {Root}, dir : {"src", "sink"}, inner : {TRUE}]
  BY <1>2, OrderFacts
<1> QED  BY <1>1, <1>2 DEF AllPads

\* What is linked behind a ghost pad is in its bin, so that the walk from ghost
\* pad to ghost pad ends.
LEMMA BehindIsDeeper ==
  ASSUME NEW links \in SUBSET Links, NEW p \in AllPads, ~p.inner, NEW q \in Peers(links, Internal(p))
  PROVE  q \in AllPads /\ Place(p.of) < Place(q.of)
<1> DEFINE i == Internal(p)
<1>1. i.of = p.of /\ i.inner
  <2>1. p = [of |-> p.of, dir |-> p.dir, inner |-> FALSE]
    BY PadFacts
  <2> QED  BY <2>1 DEF Internal
<1>2. q \in AllPads /\ (<<i, q>> \in Links \/ <<q, i>> \in Links)
  BY DEF Peers
<1>3. Level(i) = Level(q) /\ i.of # q.of
  BY <1>2 DEF Links
<1> HIDE DEF i
<1>4. Level(i) = p.of /\ q.of # p.of
  BY <1>1, <1>3 DEF Level
<1>5. q.of \in Elements /\ p.of \in Elements /\ Parent[q.of] = p.of
  BY <1>2, <1>3, <1>4, PadFacts DEF Level
<1>6. Place(p.of) < Place(q.of)
  BY <1>5, OrderFacts
<1> QED  BY <1>2, <1>6

\* send_link, step by step: what is behind the ghost pad a link ends at, and the
\* report that comes of it.
BehindPad(links, p) == {q \in Peers(links, Internal(p)) : IsGhost(p)}
Onward(links, l) == <<l[2], CHOOSE q \in BehindPad(links, l[2]) : TRUE>>

LEMMA SendLinkIs ==
  ASSUME NEW links \in SUBSET Links
  PROVE  /\ \A l \in AllPads \X AllPads :
              SendLink(links)[l] = IF l[1].inner THEN <<>>
                                   ELSE IF l[2].inner THEN <<<<l[1], Internal(l[2])>>>>
                                   ELSE IF BehindPad(links, l[2]) = {} THEN <<l>>
                                   ELSE Append(SendLink(links)[Onward(links, l)], l)
         /\ \A l \in AllPads \X AllPads : ~l[2].inner /\ BehindPad(links, l[2]) # {} =>
              Onward(links, l) \in AllPads \X AllPads /\ Place(l[2].of) < Place(Onward(links, l)[2].of)
<1> DEFINE Pairs == AllPads \X AllPads
           Behind(l) == {q \in Peers(links, Internal(l[2])) : IsGhost(l[2])}
           On(l) == <<l[2], CHOOSE q \in Behind(l) : TRUE>>
           Body(f, l) == IF l[1].inner THEN <<>>
                         ELSE IF l[2].inner THEN <<<<l[1], Internal(l[2])>>>>
                         ELSE IF Behind(l) = {} THEN <<l>>
                         ELSE Append(f[On(l)], l)
           Goes(l) == ~l[2].inner /\ Behind(l) # {}
           Deep(n) == {l \in Pairs : Len(Order) - Place(l[2].of) < n}
           Made(f, n) == f = [l \in Deep(n) |-> Body(f, l)]
           report == CHOOSE f : f = [l \in AllPads \X AllPads |-> Body(f, l)]
<1>1. ASSUME NEW l \in Pairs, Goes(l)
      PROVE  On(l) \in Pairs /\ Place(l[2].of) < Place(On(l)[2].of)
  <2> DEFINE q == CHOOSE q \in Behind(l) : TRUE
  <2>1. l[2] \in AllPads /\ ~l[2].inner
    BY <1>1
  <2>2. q \in Behind(l)
    BY <1>1
  <2>3. q \in Peers(links, Internal(l[2]))
    BY <2>2
  <2> HIDE DEF q
  <2>4. q \in AllPads /\ Place(l[2].of) < Place(q.of)
    BY <2>1, <2>3, BehindIsDeeper
  <2>5. On(l) = <<l[2], q>>
    BY DEF q
  <2> HIDE DEF On
  <2> QED  BY <2>1, <2>4, <2>5
<1>2. \A l \in Pairs : Place(l[2].of) \in 1..Len(Order)
  BY OrderFacts, PadFacts
<1>3. Len(Order) \in Nat
  BY OrderFacts
<1>4. ASSUME NEW f, NEW g, NEW l, ~Goes(l) \/ f[On(l)] = g[On(l)] PROVE Body(f, l) = Body(g, l)
  BY <1>4
<1> HIDE DEF Body, Goes
<1>5. ASSUME NEW n \in Nat, \E f : Made(f, n) PROVE \E f : Made(f, n + 1)
  <2>1. PICK f : Made(f, n)
    BY <1>5
  <2> DEFINE g == [l \in Deep(n + 1) |-> Body(f, l)]
  <2>2. \A l \in Deep(n) : l \in Deep(n + 1) /\ f[l] = Body(f, l)
    BY <1>2, <1>3, <2>1
  <2>3. \A l \in Deep(n) : g[l] = f[l]
    BY <2>2
  <2>4. \A l \in Deep(n + 1) : Goes(l) => On(l) \in Deep(n)
    <3> SUFFICES ASSUME NEW l \in Pairs, Len(Order) - Place(l[2].of) < n + 1, Goes(l)
                 PROVE  On(l) \in Deep(n)
      OBVIOUS
    <3>1. On(l) \in Pairs /\ Place(l[2].of) < Place(On(l)[2].of)
      BY <1>1
    <3> HIDE DEF On
    <3>2. Len(Order) - Place(On(l)[2].of) < n
      BY <1>2, <1>3, <3>1
    <3> QED  BY <3>1, <3>2
  <2> HIDE DEF Deep, On
  <2>5. \A l \in Deep(n + 1) : g[l] = Body(g, l)
    <3> SUFFICES ASSUME NEW l \in Deep(n + 1) PROVE Body(f, l) = Body(g, l)
      OBVIOUS
    <3>1. ~Goes(l) \/ f[On(l)] = g[On(l)]
      BY <2>3, <2>4
    <3> HIDE DEF g
    <3> QED  BY <1>4, <3>1
  <2>6. Made(g, n + 1)
    BY <2>5
  <2> QED  BY <2>6
<1>6. \E f : Made(f, Len(Order))
  <2> DEFINE T == {n \in Nat : \E f : Made(f, n)}
  <2>1. 0 \in T
    <3>1. \A l \in Pairs : l \notin Deep(0)
      BY <1>2, <1>3
    <3>2. Deep(0) = {}
      BY <3>1
    <3>3. Made([l \in {} |-> 0], 0)
      BY <3>2
    <3> HIDE DEF Made
    <3> QED  BY <3>3
  <2>2. \A n \in Nat : n \in T => n + 1 \in T
    <3> HIDE DEF Made
    <3> QED  BY <1>5
  <2>3. Nat \subseteq T
    <3> HIDE DEF T
    <3> QED  BY <2>1, <2>2, SetInduction
  <2> HIDE DEF Made
  <2> QED  BY <1>3, <2>3
<1>7. Deep(Len(Order)) = Pairs
  BY <1>2, <1>3
<1>8. report = [l \in Pairs |-> Body(report, l)]
  <2>1. PICK f : Made(f, Len(Order))
    BY <1>6
  <2>2. f = [l \in AllPads \X AllPads |-> Body(f, l)]
    BY <1>7, <2>1
  <2> QED  BY <2>2
<1>9. SendLink(links) = report
  BY DEF SendLink, Body
<1>10. \A l \in Pairs : Behind(l) = BehindPad(links, l[2]) /\ On(l) = Onward(links, l)
  BY DEF BehindPad, Onward
<1>11. \A l \in Pairs : Goes(l) <=> ~l[2].inner /\ BehindPad(links, l[2]) # {}
  BY <1>10 DEF Goes
<1>12. ASSUME NEW l \in Pairs
       PROVE  SendLink(links)[l] = IF l[1].inner THEN <<>>
                                   ELSE IF l[2].inner THEN <<<<l[1], Internal(l[2])>>>>
                                   ELSE IF BehindPad(links, l[2]) = {} THEN <<l>>
                                   ELSE Append(SendLink(links)[Onward(links, l)], l)
  <2> HIDE DEF report, On, Behind
  <2>1. report[l] = Body(report, l)
    <3> HIDE DEF Body
    <3> QED  BY <1>8
  <2> QED  BY <1>9, <1>10, <2>1 DEF Body
<1>13. ASSUME NEW l \in Pairs, ~l[2].inner, BehindPad(links, l[2]) # {}
       PROVE  Onward(links, l) \in Pairs /\ Place(l[2].of) < Place(Onward(links, l)[2].of)
  <2> HIDE DEF On, Behind
  <2> QED  BY <1>1, <1>10, <1>11, <1>13
<1> QED  BY <1>12, <1>13

LEMMA SendLinkIsSequence ==
  ASSUME NEW links \in SUBSET Links, NEW link \in AllPads \X AllPads
  PROVE  IsSequence(SendLink(links)[link])
<1> DEFINE Pairs == AllPads \X AllPads
           report == SendLink(links)
           Deep(n) == {l \in Pairs : Len(Order) - Place(l[2].of) < n}
           T == {n \in Nat : \A l \in Deep(n) : IsSequence(report[l])}
<1>1. \A l \in Pairs : Place(l[2].of) \in 1..Len(Order)
  BY OrderFacts, PadFacts
<1>2. Len(Order) \in Nat
  BY OrderFacts
<1>3. 0 \in T
  <2>1. \A l \in Pairs : l \notin Deep(0)
    BY <1>1, <1>2
  <2> QED  BY <2>1
<1>4. ASSUME NEW n \in Nat, \A l \in Deep(n) : IsSequence(report[l]), NEW l \in Deep(n + 1)
      PROVE  IsSequence(report[l])
  <2>1. l \in Pairs /\ Len(Order) - Place(l[2].of) < n + 1
    OBVIOUS
  <2>2. report[l] = IF l[1].inner THEN <<>>
                    ELSE IF l[2].inner THEN <<<<l[1], Internal(l[2])>>>>
                    ELSE IF BehindPad(links, l[2]) = {} THEN <<l>>
                    ELSE Append(report[Onward(links, l)], l)
    BY <2>1, SendLinkIs
  <2>3. ASSUME ~l[2].inner, BehindPad(links, l[2]) # {} PROVE IsSequence(report[Onward(links, l)])
    <3>1. Onward(links, l) \in Pairs /\ Place(l[2].of) < Place(Onward(links, l)[2].of)
      BY <2>1, <2>3, SendLinkIs
    <3>2. Onward(links, l) \in Deep(n)
      BY <1>1, <1>2, <2>1, <3>1
    <3> QED  BY <1>4, <3>2
  <2>4. \A x : IsSequence(<<x>>)
    <3> TAKE x
    <3>1. <<x>> \in Seq({x})
      OBVIOUS
    <3> QED  BY <3>1 DEF IsSequence
  <2> HIDE DEF report
  <2> QED  BY <2>2, <2>3, <2>4, EmptyIsSequence, AppendIsSequence
<1>5. Nat \subseteq T
  <2>1. \A n \in Nat : n \in T => n + 1 \in T
    BY <1>4
  <2> HIDE DEF T
  <2> QED  BY <1>3, <2>1, SetInduction
<1>6. Len(Order) + 1 \in T
  BY <1>2, <1>5
<1>7. link \in Deep(Len(Order) + 1)
  BY <1>1, <1>2
<1> QED  BY <1>6, <1>7

LEMMA LinksAreFinite == IsFiniteSet(AllPads \X AllPads)
<1> DEFINE Names == Elements \X ({"src", "sink"} \X BOOLEAN)
           f == [n \in Names |-> [of |-> n[1], dir |-> n[2][1], inner |-> n[2][2]]]
<1>1. IsFiniteSet(Elements)
  <2>1. IsFiniteSet(1..Len(Order)) /\ DOMAIN Order = 1..Len(Order)
    BY OrderFacts, FS_Interval
  <2>2. \A e \in Elements : \E i \in 1..Len(Order) : Order[i] = e
    BY <2>1 DEF Elements, ToSet
  <2> QED  BY <2>1, <2>2, ImageIsFinite
<1>2. IsFiniteSet({"src", "sink"}) /\ IsFiniteSet(BOOLEAN)
  <2>1. \A x, y : IsFiniteSet({x, y})
    <3> TAKE x, y
    <3>1. IsFiniteSet({x})
      BY FS_Singleton
    <3>2. {x, y} = {x} \cup {y}
      OBVIOUS
    <3> QED  BY <3>1, <3>2, FS_AddElement
  <2>2. IsFiniteSet({TRUE, FALSE})
    BY <2>1, Zenon
  <2>3. BOOLEAN = {TRUE, FALSE}
    OBVIOUS
  <2> QED  BY <2>1, <2>2, <2>3, Zenon
<1>3. IsFiniteSet(Names)
  BY <1>1, <1>2, ProductIsFinite
<1>4. \A p \in AllPads : \E n \in Names : f[n] = p
  <2> TAKE p \in AllPads
  <2>1. <<p.of, <<p.dir, p.inner>>>> \in Names
    BY PadFacts
  <2>2. p = [of |-> p.of, dir |-> p.dir, inner |-> p.inner]
    BY PadFacts
  <2> QED  BY <2>1, <2>2
<1>5. IsFiniteSet(AllPads)
  <2>1. DOMAIN f = Names
    OBVIOUS
  <2> HIDE DEF f, Names
  <2> QED  BY <1>3, <1>4, <2>1, ImageIsFinite
<1> QED  BY <1>5, ProductIsFinite

LEMMA LinkFramesIsSequence ==
  ASSUME NEW links \in SUBSET Links, NEW what, NEW l \in AllPads \X AllPads
  PROVE  IsSequence(LinkFrames(links, what, l))
<1> DEFINE s == SendLink(links)[l]
           F(i) == [what |-> what, src |-> s[i][1], sink |-> s[i][2]]
<1>1. IsSequence(s)
  BY SendLinkIsSequence
<1>2. LinkFrames(links, what, l) = [i \in DOMAIN s |-> F(i)]
  BY DEF LinkFrames
<1>3. DOMAIN s = 1..Len(s) /\ Len(s) \in Nat
  BY <1>1 DEF IsSequence
<1> HIDE DEF s
<1>4. [i \in DOMAIN s |-> F(i)] \in Seq({F(i) : i \in DOMAIN s})
  BY <1>3
<1> QED  BY <1>2, <1>4 DEF IsSequence

LEMMA TopologyIsSequence ==
  ASSUME NEW E, NEW links \in SUBSET Links
  PROVE  IsSequence(EntireTopology(E, links))
<1> DEFINE Report(e) == IF e \notin E THEN <<>>
                        ELSE <<[what |-> "added", of |-> e], [what |-> "pad", pad |-> PadOf(e, "src")],
                               [what |-> "pad", pad |-> PadOf(e, "sink")]>>
           To(e) == Peers(links, PadOf(e, "src"))
           Collect(e) == IF e \notin E \/ To(e) = {} THEN <<>>
                         ELSE LinkFrames(links, "linked", <<PadOf(e, "src"), CHOOSE q \in To(e) : TRUE>>)
           r == [i \in DOMAIN Order |-> Report(Order[i])]
           c == [i \in DOMAIN Order |-> Collect(Order[i])]
<1>1. EntireTopology(E, links) = FlattenSeq(r) \o FlattenSeq(c)
  BY DEF EntireTopology
<1>2. DOMAIN Order = 1..Len(Order) /\ Len(Order) \in Nat
  BY OrderFacts
<1>3. IsSequence(r) /\ Len(r) = Len(Order) /\ IsSequence(c) /\ Len(c) = Len(Order)
  BY <1>2, ListIsSequence
<1>4. \A e : IsSequence(Report(e))
  <2> TAKE e
  <2>1. \A x, y, z : IsSequence(<<x, y, z>>)
    <3> TAKE x, y, z
    <3>1. <<x, y, z>> \in Seq({x, y, z})
      OBVIOUS
    <3> QED  BY <3>1 DEF IsSequence
  <2> QED  BY <2>1, EmptyIsSequence
<1>5. ASSUME NEW e \in Elements PROVE IsSequence(Collect(e))
  <2>1. CASE To(e) = {}
    BY <2>1, EmptyIsSequence
  <2>2. CASE To(e) # {}
    <3> DEFINE q == CHOOSE q \in To(e) : TRUE
    <3>1. q \in To(e)
      BY <2>2
    <3>2. q \in AllPads
      BY <3>1 DEF Peers
    <3>3. PadOf(e, "src") \in AllPads
      BY DEF PadOf, AllPads, Pads
    <3> HIDE DEF q
    <3>4. IsSequence(LinkFrames(links, "linked", <<PadOf(e, "src"), q>>))
      BY <3>2, <3>3, LinkFramesIsSequence
    <3> QED  BY <3>4, EmptyIsSequence DEF q
  <2> QED  BY <2>1, <2>2
<1> HIDE DEF Report, Collect
<1>6. \A i \in 1..Len(Order) : Order[i] \in Elements
  BY <1>2 DEF Elements, ToSet
<1>7. \A i \in 1..Len(Order) : IsSequence(r[i]) /\ IsSequence(c[i])
  BY <1>2, <1>4, <1>5, <1>6
<1> HIDE DEF r, c
<1> QED  BY <1>1, <1>3, <1>7, FlattenIsSequence, ConcatIsSequence

-----------------------------------------------------------------------------
\* The models of the debugger.

LEMMA FoldOfNothing == FoldLeft(Process, NoMirror, <<>>) = NoMirror
<1> DEFINE Made(f) == f = [s \in SUBSET DOMAIN <<>> |->
             IF s = {} THEN NoMirror ELSE LET x == Max(s) IN Process(f[s \ {x}], <<>>[x])]
           iter == CHOOSE f : Made(f)
<1>1. DOMAIN <<>> = {}
  OBVIOUS
<1>2. FoldLeft(Process, NoMirror, <<>>) = iter[DOMAIN <<>>]
  BY DEF FoldLeft, MapThenFoldSet
<1>3. Made([s \in SUBSET DOMAIN <<>> |-> NoMirror])
  BY <1>1
<1>4. Made(iter)
  BY <1>3
<1>5. iter[{}] = NoMirror
  <2> HIDE DEF iter
  <2> QED  BY <1>1, <1>4
<1> QED  BY <1>1, <1>2, <1>5

\* Nothing is drawn of a root that was cleaned, or of which nothing is known.
LEMMA NothingOfTheRoot ==
  /\ ToDotData(NoMirror, Root) = BlankPage
  /\ \A m : ToDotData(CleanRoot(m), Root) = BlankPage
<1>1. ASSUME NEW m, m.shown \cap Children(Root) = {}, \A p \in DOMAIN m.peer : p.of # Root
      PROVE  ToDotData(m, Root) = BlankPage
  <2>1. PadsOf(m, Root) = {} /\ DumpTopPads(m, Root) = [nodes |-> {}, edges |-> {}]
    BY <1>1 DEF PadsOf, DumpTopPads, EdgesFrom
  <2>2. DumpElement(m, Root) = [nodes |-> {}, edges |-> {}]
    BY <1>1 DEF DumpElement, EdgesFrom
  <2> QED  BY <1>1, <2>1, <2>2 DEF ToDotData, BlankPage
<1>2. NoMirror.shown = {} /\ DOMAIN NoMirror.peer = {}
  BY DEF NoMirror
<1>3. ASSUME NEW m PROVE ToDotData(CleanRoot(m), Root) = BlankPage
  <2>1. CleanRoot(m).shown \cap Children(Root) = {}
    BY DEF CleanRoot
  <2>2. \A p \in DOMAIN CleanRoot(m).peer : p.of # Root
    BY DEF CleanRoot, Restrict
  <2> QED  BY <1>1, <2>1, <2>2
<1> QED  BY <1>1, <1>2, <1>3

-----------------------------------------------------------------------------
\* What is sent is a list.
FramesOK == joined \subseteq Links /\ IsSequence(frames)

LEMMA FramesInit == Init => FramesOK
BY EmptyIsSequence DEF Init, FramesOK

\* What the application does adds to what is on its way.
LEMMA ChangesAdd ==
  ASSUME FramesOK, PadUnlink \/ BinRemove
  PROVE  FramesOK' /\ (frames # <<>> => frames' # <<>>)
<1>1. Links \subseteq AllPads \X AllPads
  BY DEF Links
<1>2. ASSUME NEW sent, IsSequence(sent), Changes(sent)
      PROVE  IsSequence(frames') /\ (frames # <<>> => frames' # <<>>)
  <2>1. frames' = frames \o sent /\ IsSequence(frames)
    BY <1>2 DEF Changes, FramesOK
  <2>2. IsSequence(frames') /\ Len(frames') = Len(frames) + Len(sent) /\ Len(frames) \in Nat /\ Len(sent) \in Nat
    BY <1>2, <2>1, ConcatIsSequence
  <2>3. frames # <<>> => Len(frames) # 0
    BY <2>1 DEF IsSequence
  <2> QED  BY <2>2, <2>3
<1>3. CASE PadUnlink
  <2>1. PICK l \in joined : Changes(LinkFrames(joined, "unlinked", l)) /\ joined' = joined \ {l}
    BY <1>3 DEF PadUnlink
  <2>2. IsSequence(LinkFrames(joined, "unlinked", l))
    BY <1>1, LinkFramesIsSequence DEF FramesOK
  <2> QED  BY <1>2, <2>1, <2>2 DEF FramesOK
<1>4. CASE BinRemove
  <2> DEFINE Own(e) == {l \in joined : e \in {l[1].of, l[2].of} /\ Level(l[1]) = Parent[e]}
             Undone(e) == [i \in DOMAIN SetToSeq(Own(e)) |->
                             LinkFrames(joined, "unlinked", SetToSeq(Own(e))[i])]
             Sent(e) == <<[what |-> "removed", of |-> e]>> \o FlattenSeq(Undone(e))
  <2>1. PICK e \in exists : Changes(Sent(e)) /\ joined' \subseteq joined
    BY <1>4 DEF BinRemove
  <2> DEFINE own == Own(e)
             u == Undone(e)
  <2>2. own \subseteq joined /\ IsFiniteSet(own)
    <3>1. own \subseteq AllPads \X AllPads
      BY <1>1 DEF FramesOK
    <3> HIDE DEF own
    <3> QED  BY <3>1, LinksAreFinite, FS_Subset DEF own
  <2> HIDE DEF own
  <2> DEFINE n == Cardinality(own)
             seq == SetToSeq(own)
  <2>3. n \in Nat /\ seq \in [1..n -> own]
    BY <2>2, SetToSeqItems
  <2> HIDE DEF n, seq
  <2> DEFINE v == [i \in DOMAIN seq |-> LinkFrames(joined, "unlinked", seq[i])]
  <2>4. u = v
    BY DEF own, seq
  <2>5. IsSequence(v) /\ Len(v) = n
    BY <2>3, ListIsSequence
  <2>6. \A i \in 1..n : IsSequence(v[i])
    <3> TAKE i \in 1..n
    <3>1. seq[i] \in AllPads \X AllPads /\ i \in DOMAIN seq
      BY <1>1, <2>2, <2>3 DEF FramesOK
    <3>2. IsSequence(LinkFrames(joined, "unlinked", seq[i]))
      BY <3>1, LinkFramesIsSequence DEF FramesOK
    <3> QED  BY <3>1, <3>2
  <2> HIDE DEF v, u
  <2>7. IsSequence(FlattenSeq(u))
    BY <2>4, <2>5, <2>6, FlattenIsSequence
  <2>8. IsSequence(<<[what |-> "removed", of |-> e]>>)
    <3>1. \A x : IsSequence(<<x>>)
      <4> TAKE x
      <4>1. <<x>> \in Seq({x})
        OBVIOUS
      <4> QED  BY <4>1 DEF IsSequence
    <3> QED  BY <3>1
  <2>9. IsSequence(Sent(e))
    BY <2>7, <2>8, ConcatIsSequence DEF u
  <2> HIDE DEF Sent
  <2> QED  BY <1>2, <2>1, <2>9 DEF FramesOK
<1> QED  BY <1>3, <1>4

\* A new connection has frames to come, unless there is nothing to be told: then
\* nothing is known.
LEMMA ConnectSends ==
  ASSUME FramesOK, Connect
  PROVE  /\ FramesOK'
         /\ \E m : mirrors' = Append(mirrors, m) /\ (frames' = <<>> => m = NoMirror)
<1> DEFINE all == EntireTopology(exists, joined)
           n == IF Len(all) > MaxFrames THEN Len(all) - MaxFrames ELSE 0
           m == FoldLeft(Process, NoMirror, SubSeq(all, 1, n))
<1>1. mirrors' = Append(mirrors, m) /\ frames' = SubSeq(all, n + 1, Len(all)) /\ joined' = joined
  BY DEF Connect, Clicks, pipelineVars
<1>2. IsSequence(all)
  BY TopologyIsSequence DEF FramesOK
<1> HIDE DEF all, m
<1>3. PICK S : all \in Seq(S)
  BY <1>2 DEF IsSequence
<1>4. Len(all) \in Nat /\ n \in 0..Len(all) /\ MaxFrames \in Nat \ {0}
  BY <1>3, DrawingBounds
<1>5. n = Len(all) => Len(all) = 0
  BY <1>4
<1> HIDE DEF n
<1>6. SubSeq(all, n + 1, Len(all)) \in Seq(S) /\ Len(SubSeq(all, n + 1, Len(all))) = Len(all) - n
  <2>1. \A i \in (n + 1)..Len(all) : all[i] \in S
    BY <1>3, <1>4, ElementOfSeq
  <2> QED  BY <1>3, <1>4, <2>1, SubSeqProperties
<1>7. ASSUME frames' = <<>> PROVE m = NoMirror
  <2>1. Len(all) = 0 /\ n = 0
    BY <1>1, <1>4, <1>5, <1>6, <1>7
  <2>2. all = <<>>
    BY <1>3, <2>1
  <2>3. SubSeq(all, 1, n) = <<>>
    BY <2>1, SubSeqEmpty
  <2>4. m = FoldLeft(Process, NoMirror, <<>>)
    BY <2>3 DEF m
  <2> QED  BY <2>4, FoldOfNothing
<1> QED  BY <1>1, <1>6, <1>7 DEF FramesOK, IsSequence

LEMMA FramesStep == FramesOK /\ [Next]_vars => FramesOK'
<1> SUFFICES ASSUME FramesOK, [Next]_vars PROVE FramesOK'
  OBVIOUS
<1>1. CASE ProcessFrame
  <2>1. joined' = joined /\ frames # <<>> /\ frames' = Tail(frames)
    BY <1>1 DEF ProcessFrame, pipelineVars
  <2> QED  BY <2>1, TailIsSequence DEF FramesOK
<1>2. CASE ClientDisconnected
  BY <1>2, EmptyIsSequence DEF ClientDisconnected, pipelineVars, FramesOK
<1>3. CASE Quit \/ Push \/ Emit
  BY <1>3 DEF Quit, Push, Emit, pipelineVars, FramesOK
<1>4. CASE Loop
  BY <1>4 DEF Loop, WakeUp, Take, Convert, Draw, FreeGraph, pipelineVars, readerVars, FramesOK
<1>5. CASE ModelDown \/ ModelUp \/ Close
  BY <1>5 DEF ModelDown, ModelUp, Close, Show, Clicks, pipelineVars, readerVars, FramesOK
<1>6. CASE Connect
  BY <1>6, ConnectSends
<1>7. CASE PadUnlink \/ BinRemove
  BY <1>7, ChangesAdd
<1>8. CASE UNCHANGED vars
  BY <1>8 DEF vars, pipelineVars, readerVars, FramesOK
<1> QED  BY <1>1, <1>2, <1>3, <1>4, <1>5, <1>6, <1>7, <1>8 DEF Next, Reader, User

-----------------------------------------------------------------------------
\* What is drawn, and what is still to be.

\* A bin that is current has its models.
CurrentOK == current = RootModel \/ (current.bin # Root /\ current.no \in 1..Len(mirrors))

\* Where the current model is, on its way from whoever read it to the screen.
OnItsWay ==
  IF reader \in {"quit", "push"} THEN item = current
  ELSE IF queue # <<>> THEN queue[Len(queue)] = current
  ELSE IF gui = "converting" THEN taken = current
  ELSE page = ToDotData(MirrorOf(current), current.bin) \/ (connected /\ frames # <<>>)

NewestOK ==
  /\ CurrentOK /\ reader \in {"idle", "quit", "push", "emit"}
  /\ again => posted > 0
  /\ Len(queue) <= Due
  /\ closed \/ running \/ gui # "idle" \/ posted > 0 \/ reader # "idle"
  /\ mirrors = <<>> => queue = <<>> /\ gui # "converting" /\ page = BlankPage /\ ~connected
  /\ mirrors # <<>> /\ ~connected => ToDotData(Latest, Root) = BlankPage
  /\ ~closed /\ ~astray /\ mirrors # <<>> => OnItsWay

LEMMA NewestInit == Init => NewestOK
BY DEF Init, NewestOK, CurrentOK, Due, One

LEMMA MirrorOfRoot == mirrors # <<>> => MirrorOf(RootModel) = Latest
BY DEF MirrorOf, RootModel

\* The reader thread.
LEMMA ReaderKeepsNewest == ASSUME QueueOK, NewestOK, Reader PROVE NewestOK'
<1>1. Len(queue) \in Nat /\ Len(mirrors) \in Nat /\ posted \in Nat
  BY LenIsNatural DEF QueueOK
<1>2. CASE ProcessFrame
  <2>1. IsSequence(mirrors') /\ mirrors' # <<>> /\ Len(mirrors') = Len(mirrors)
    BY <1>2, ExceptIsSequence DEF ProcessFrame, QueueOK
  <2>2. CurrentOK' /\ Due' = Due
    BY <1>2, <2>1 DEF ProcessFrame, loopVars, guiVars, CurrentOK, Due, One, NewestOK
  <2>3. UNCHANGED <<queue, posted, running, gui, again, closed>> /\ reader' = "quit" /\ item' = current' /\ connected'
    BY <1>2 DEF ProcessFrame, loopVars, guiVars
  <2>4. OnItsWay'
    BY <2>3 DEF OnItsWay
  <2> QED  BY <2>1, <2>2, <2>3, <2>4 DEF NewestOK
<1>3. CASE ClientDisconnected
  <2>1. IsSequence(mirrors') /\ mirrors' # <<>> /\ Len(mirrors') = Len(mirrors)
    BY <1>3, ExceptIsSequence DEF ClientDisconnected, QueueOK
  <2>2. CurrentOK' /\ Due' = Due
    BY <1>3, <2>1 DEF ClientDisconnected, loopVars, guiVars, CurrentOK, Due, One, NewestOK
  <2>3. /\ UNCHANGED <<queue, posted, running, gui, again, closed>>
        /\ reader' = "quit" /\ item' = RootModel /\ (~astray' => current' = RootModel)
    BY <1>3 DEF ClientDisconnected, loopVars, guiVars
  <2>4. ~astray' => OnItsWay'
    BY <2>3 DEF OnItsWay
  <2>5. ToDotData(Latest', Root) = BlankPage
    <3>1. Latest' = CleanRoot(mirrors[Len(mirrors)])
      <4>1. mirrors # <<>> /\ mirrors' = [mirrors EXCEPT ![Len(mirrors)] = CleanRoot(@)]
        BY <1>3 DEF ClientDisconnected, QueueOK
      <4>2. Len(mirrors) \in DOMAIN mirrors
        BY <4>1 DEF QueueOK, IsSequence
      <4> QED  BY <2>1, <4>1, <4>2 DEF Latest
    <3> QED  BY <3>1, NothingOfTheRoot
  <2> QED  BY <2>1, <2>2, <2>3, <2>4, <2>5 DEF NewestOK
<1>4. CASE Quit
  <2>1. /\ UNCHANGED <<mirrors, current, queue, posted, gui, again, closed, connected, page, astray, item>>
        /\ reader = "quit" /\ reader' = "push"
    BY <1>4 DEF Quit, guiVars
  <2>2. CurrentOK' /\ Due' = Due /\ Latest' = Latest
    BY <2>1 DEF NewestOK, CurrentOK, Due, One, Latest
  <2>3. OnItsWay => OnItsWay'
    BY <2>1 DEF OnItsWay
  <2> QED  BY <2>1, <2>2, <2>3 DEF NewestOK
<1>5. CASE Push
  <2>1. /\ UNCHANGED <<mirrors, current, posted, gui, again, closed, running, connected, page, astray>>
        /\ reader = "push" /\ reader' = "emit" /\ queue' = Append(queue, item)
    BY <1>5 DEF Push, guiVars
  <2>2. CurrentOK' /\ Due' = Due + 1 /\ Latest' = Latest
    BY <1>1, <2>1 DEF NewestOK, CurrentOK, Due, One, Latest
  <2>3. IsSequence(queue') /\ Len(queue') = Len(queue) + 1 /\ queue' # <<>> /\ queue'[Len(queue')] = item
    <3>1. PICK S : queue \in Seq(S)
      BY DEF QueueOK, IsSequence
    <3>2. queue \in Seq(S \cup {item})
      BY <3>1
    <3> QED  BY <2>1, <3>2, AppendProperties, AppendIsSequence DEF QueueOK
  <2>4. OnItsWay => OnItsWay'
    BY <2>1, <2>3 DEF OnItsWay
  <2>5. mirrors # <<>>
    BY <2>1 DEF QueueOK
  <2>6. Len(queue') <= Due'
    BY <1>1, <2>2, <2>3 DEF NewestOK, Due, One
  <2> QED  BY <2>1, <2>2, <2>4, <2>5, <2>6 DEF NewestOK
<1>6. CASE Emit
  <2>1. /\ UNCHANGED <<mirrors, current, queue, gui, again, closed, running, connected, page, astray, taken, frames>>
        /\ reader = "emit" /\ reader' = "idle" /\ posted' = posted + 1
    BY <1>6 DEF Emit, guiVars
  <2>2. CurrentOK' /\ Due' = Due /\ Latest' = Latest
    BY <1>1, <2>1 DEF NewestOK, CurrentOK, Due, One, Latest
  <2>3. OnItsWay => OnItsWay'
    BY <2>1 DEF OnItsWay, MirrorOf, Latest
  <2> QED  BY <1>1, <2>1, <2>2, <2>3 DEF NewestOK
<1> QED  BY <1>2, <1>3, <1>4, <1>5, <1>6 DEF Reader

\* The handler of a wake-up, and the loops it runs in.  While nothing waits to be
\* drawn, the loop goes on that shows the page.
LEMMA LoopKeepsNewest == ASSUME QueueOK, NewestOK, Loop PROVE NewestOK'
<1>1. Len(queue) \in Nat /\ Len(mirrors) \in Nat /\ posted \in Nat
  BY LenIsNatural DEF QueueOK
<1>2. /\ UNCHANGED <<mirrors, current, closed, connected, astray, reader, item, frames>>
      /\ CurrentOK' /\ Latest' = Latest /\ MirrorOf(current)' = MirrorOf(current)
  BY DEF Loop, WakeUp, Take, Convert, Draw, FreeGraph, readerVars, NewestOK, CurrentOK, Latest, MirrorOf
<1>3. CASE WakeUp
  <2>1. UNCHANGED <<queue, page, taken>> /\ gui = "idle" /\ gui' = "called" /\ posted > 0 /\ posted' = posted - 1 /\ ~again'
    BY <1>3 DEF WakeUp, Iterates
  <2>2. Due' = Due
    BY <1>1, <1>2, <2>1 DEF Due, One
  <2>3. OnItsWay => OnItsWay'
    BY <1>2, <2>1 DEF OnItsWay
  <2> QED  BY <1>2, <2>1, <2>2, <2>3 DEF NewestOK
<1>4. CASE Take
  <2>1. UNCHANGED <<again, posted, running>> /\ gui = "called"
    BY <1>4 DEF Take
  <2>2. CASE queue = <<>>
    <3>1. page' = BlankPage /\ gui' = "drawing" /\ queue' = queue /\ taken' = taken
      BY <1>4, <2>2 DEF Take
    <3>2. mirrors = <<>>
      BY <1>1, <2>1, <2>2 DEF QueueOK, Due, One
    <3>3. Len(queue') <= Due'
      BY <1>1, <1>2, <2>1, <2>2, <3>1 DEF Due, One
    <3> QED  BY <1>2, <2>1, <2>2, <3>1, <3>2, <3>3 DEF NewestOK
  <2>3. CASE queue # <<>>
    <3>1. taken' = Head(queue) /\ queue' = Tail(queue) /\ gui' = "converting" /\ page' = page
      BY <1>4, <2>3 DEF Take
    <3>2. mirrors # <<>>
      BY <2>3 DEF NewestOK
    <3>3. PICK S : queue \in Seq(S)
      BY DEF QueueOK, IsSequence
    <3>4. Len(queue') = Len(queue) - 1 /\ queue' \in Seq(S) /\ Len(queue) > 0
      BY <2>3, <3>1, <3>3
    <3>5. queue' # <<>> => queue'[Len(queue')] = queue[Len(queue)]
      BY <2>3, <3>1, <3>3, <3>4
    <3>6. queue' = <<>> => taken' = queue[Len(queue)]
      BY <2>3, <3>1, <3>3, <3>4
    <3>7. OnItsWay => OnItsWay'
      BY <1>2, <2>3, <3>1, <3>5, <3>6 DEF OnItsWay
    <3>8. Len(queue') <= Due'
      BY <1>1, <1>2, <2>1, <3>1, <3>4 DEF NewestOK, Due, One
    <3> QED  BY <1>2, <2>1, <3>1, <3>2, <3>7, <3>8 DEF NewestOK
  <2> QED  BY <2>2, <2>3
<1>5. CASE Convert
  <2>1. /\ UNCHANGED <<again, posted, running, queue>> /\ gui = "converting" /\ gui' = "drawing"
        /\ page' = ToDotData(MirrorOf(taken), taken.bin)
    BY <1>5 DEF Convert, loopVars
  <2>2. mirrors # <<>>
    BY <2>1 DEF NewestOK
  <2>3. Due' = Due
    BY <1>2, <2>1 DEF Due, One
  <2>4. OnItsWay => OnItsWay'
    BY <1>2, <2>1 DEF OnItsWay
  <2> QED  BY <1>2, <2>1, <2>2, <2>3, <2>4 DEF NewestOK
<1>6. CASE Draw
  <2>1. UNCHANGED <<again, posted, queue, page, taken>> /\ gui = "drawing" /\ gui' = "idle" /\ running'
    BY <1>6 DEF Draw
  <2>2. Due' = Due
    BY <1>2, <2>1 DEF Due, One
  <2>3. OnItsWay => OnItsWay'
    BY <1>2, <2>1 DEF OnItsWay
  <2> QED  BY <1>2, <2>1, <2>2, <2>3 DEF NewestOK
<1>7. CASE FreeGraph
  <2>1. /\ UNCHANGED <<again, posted, queue, taken, gui>> /\ gui = "idle" /\ ~running /\ ~running'
        /\ page' = BlankPage
    BY <1>7 DEF FreeGraph
  <2>2. Due' = Due
    BY <1>2, <2>1 DEF Due, One
  <2>3. ~closed /\ mirrors # <<>> /\ queue = <<>> => reader \in {"quit", "push"}
    <3> SUFFICES ASSUME ~closed, mirrors # <<>>, queue = <<>> PROVE reader \in {"quit", "push"}
      OBVIOUS
    <3>1. 0 >= Due
      BY DEF QueueOK
    <3>2. posted = 0 /\ reader # "emit"
      BY <1>1, <3>1 DEF Due, One
    <3>3. reader # "idle"
      BY <2>1, <3>2 DEF NewestOK
    <3>4. reader \in {"idle", "quit", "push", "emit"}
      BY DEF NewestOK
    <3> QED  BY <3>2, <3>3, <3>4
  <2>4. ~closed /\ mirrors # <<>> /\ OnItsWay => OnItsWay'
    BY <1>2, <2>1, <2>3 DEF OnItsWay
  <2> QED  BY <1>2, <2>1, <2>2, <2>4 DEF NewestOK
<1> QED  BY <1>3, <1>4, <1>5, <1>6, <1>7 DEF Loop

\* What the user does.
LEMMA UserKeepsNewest == ASSUME QueueOK, FramesOK, NewestOK, User PROVE NewestOK'
<1>1. Len(queue) \in Nat /\ Len(mirrors) \in Nat /\ posted \in Nat
  BY LenIsNatural DEF QueueOK
<1>2. ASSUME NEW x, Show(x), mirrors # <<>>, CurrentOK' PROVE NewestOK'
  <2>1. /\ UNCHANGED <<mirrors, reader, item, connected, frames, closed, gui, page>>
        /\ gui = "idle" /\ current' = x /\ queue' = Append(queue, x) /\ posted' = posted + 1
        /\ astray' = (reader \in {"quit", "push"})
    BY <1>2 DEF Show, Clicks, Iterates, readerVars
  <2>2. Len(queue') = Len(queue) + 1 /\ queue' # <<>> /\ queue'[Len(queue')] = x
    <3>1. PICK S : queue \in Seq(S)
      BY DEF QueueOK, IsSequence
    <3>2. queue \in Seq(S \cup {x})
      BY <3>1
    <3> QED  BY <2>1, <3>2, AppendProperties
  <2>3. Due' = Due + 1 /\ Latest' = Latest
    BY <1>1, <2>1 DEF Due, One, Latest
  <2>4. ~astray' => OnItsWay'
    BY <2>1, <2>2 DEF OnItsWay
  <2>5. Len(queue') <= Due'
    BY <1>1, <2>2, <2>3 DEF NewestOK, Due, One
  <2> QED  BY <1>1, <1>2, <2>1, <2>3, <2>4, <2>5 DEF NewestOK
<1>3. CASE ModelDown
  <2>1. mirrors # <<>>
    BY <1>3, NothingShown DEF ModelDown, Chosen, QueueOK
  <2>2. PICK b \in Children(current.bin) :
             Show([bin |-> b, no |-> IF current = RootModel THEN Len(mirrors) ELSE current.no])
    BY <1>3 DEF ModelDown, Chosen
  <2>3. mirrors' = mirrors /\ Len(mirrors) # 0
    BY <2>1, <2>2 DEF Show, readerVars, QueueOK, IsSequence
  <2>4. b # Root
    BY OrderFacts DEF Children
  <2>5. CurrentOK'
    BY <1>1, <2>2, <2>3, <2>4 DEF Show, CurrentOK, NewestOK
  <2> QED  BY <1>2, <2>1, <2>2, <2>5
<1>4. CASE ModelUp
  <2>1. mirrors # <<>> /\ current # RootModel
    BY <1>4 DEF ModelUp, QueueOK
  <2> DEFINE b == Parent[current.bin]
  <2>2. Show([bin |-> b, no |-> IF b = Root THEN 0 ELSE current.no])
    BY <1>4 DEF ModelUp
  <2>3. mirrors' = mirrors
    BY <2>2 DEF Show, readerVars
  <2>4. CurrentOK'
    BY <2>1, <2>2, <2>3 DEF Show, CurrentOK, NewestOK, RootModel
  <2> QED  BY <1>2, <2>1, <2>2, <2>4
<1>5. CASE Connect
  <2>1. /\ UNCHANGED <<reader, item, current, running, queue, posted, closed, astray, gui, page, taken>>
        /\ reader = "idle" /\ gui = "idle" /\ connected' /\ ~connected /\ (again' => posted > 0)
    BY <1>5 DEF Connect, Clicks, Iterates
  <2>2. PICK m : mirrors' = Append(mirrors, m) /\ (frames' = <<>> => m = NoMirror)
    BY <1>5, ConnectSends
  <2>3. /\ IsSequence(mirrors') /\ mirrors' # <<>> /\ Len(mirrors') = Len(mirrors) + 1
        /\ mirrors'[Len(mirrors')] = m /\ \A i \in 1..Len(mirrors) : mirrors'[i] = mirrors[i]
    <3>1. PICK S : mirrors \in Seq(S)
      BY DEF QueueOK, IsSequence
    <3>2. mirrors \in Seq(S \cup {m})
      BY <3>1
    <3> QED  BY <2>2, <3>2, AppendProperties, AppendIsSequence DEF QueueOK
  <2>4. CurrentOK' /\ Due' = Due
    BY <1>1, <2>1, <2>3 DEF CurrentOK, NewestOK, Due, One
  <2>5. ASSUME ~astray, ~closed PROVE OnItsWay'
    <3>1. CASE queue # <<>> /\ mirrors # <<>>
      BY <2>1, <2>5, <3>1 DEF OnItsWay, NewestOK
    <3>2. CASE queue # <<>> /\ mirrors = <<>>
      BY <3>2 DEF NewestOK
    <3>3. CASE queue = <<>> /\ frames' # <<>>
      BY <2>1, <3>3 DEF OnItsWay
    <3>4. CASE queue = <<>> /\ frames' = <<>> /\ current = RootModel
      <4>1. MirrorOf(current)' = NoMirror
        BY <2>1, <2>2, <2>3, <3>4 DEF MirrorOf, Latest, RootModel
      <4>2. page = BlankPage
        <5>1. CASE mirrors = <<>>
          BY <5>1 DEF NewestOK
        <5>2. CASE mirrors # <<>>
          <6>1. page = ToDotData(MirrorOf(current), current.bin)
            BY <2>1, <2>5, <3>4, <5>2 DEF NewestOK, OnItsWay
          <6>2. MirrorOf(current) = Latest /\ current.bin = Root
            BY <3>4, <5>2, MirrorOfRoot DEF RootModel
          <6> QED  BY <2>1, <5>2, <6>1, <6>2 DEF NewestOK
        <5> QED  BY <5>1, <5>2
      <4>3. page' = ToDotData(MirrorOf(current)', current'.bin)
        BY <2>1, <3>4, <4>1, <4>2, NothingOfTheRoot DEF RootModel
      <4> QED  BY <2>1, <3>4, <4>3 DEF OnItsWay
    <3>5. CASE queue = <<>> /\ frames' = <<>> /\ current # RootModel
      <4>1. mirrors # <<>> /\ current.bin # Root /\ current.no \in 1..Len(mirrors)
        BY <3>5 DEF NewestOK, CurrentOK, QueueOK
      <4>2. MirrorOf(current)' = MirrorOf(current)
        BY <2>1, <2>3, <4>1 DEF MirrorOf
      <4>3. page = ToDotData(MirrorOf(current), current.bin)
        BY <2>1, <2>5, <3>5, <4>1 DEF NewestOK, OnItsWay
      <4> QED  BY <2>1, <3>5, <4>2, <4>3 DEF OnItsWay
    <3> QED  BY <3>1, <3>2, <3>3, <3>4, <3>5
  <2> QED  BY <2>1, <2>3, <2>4, <2>5 DEF NewestOK
<1>6. CASE Close
  <2>1. /\ UNCHANGED <<mirrors, reader, connected, current, queue, posted, gui, page>>
        /\ closed' /\ (again' => posted > 0)
    BY <1>6 DEF Close, Clicks, readerVars
  <2>2. CurrentOK' /\ Due' = Due /\ Latest' = Latest
    BY <2>1 DEF CurrentOK, NewestOK, Due, One, Latest
  <2> QED  BY <2>1, <2>2 DEF NewestOK
<1> QED  BY <1>3, <1>4, <1>5, <1>6 DEF User

LEMMA NewestStep == QueueOK /\ FramesOK /\ NewestOK /\ [Next]_vars => NewestOK'
<1> SUFFICES ASSUME QueueOK, FramesOK, NewestOK, [Next]_vars PROVE NewestOK'
  OBVIOUS
<1>1. CASE PadUnlink \/ BinRemove
  <2>1. /\ UNCHANGED <<connected, mirrors, reader, item, loopVars, guiVars, current, closed, astray>>
        /\ (frames # <<>> => frames' # <<>>)
    BY <1>1, ChangesAdd DEF PadUnlink, BinRemove, Changes
  <2>2. CurrentOK' /\ Due' = Due /\ Latest' = Latest /\ MirrorOf(current)' = MirrorOf(current)
    BY <2>1 DEF NewestOK, CurrentOK, Due, One, Latest, MirrorOf, loopVars, guiVars
  <2>3. OnItsWay => OnItsWay'
    BY <2>1, <2>2 DEF OnItsWay, loopVars, guiVars
  <2> QED  BY <2>1, <2>2, <2>3 DEF NewestOK, loopVars, guiVars
<1>2. CASE UNCHANGED vars
  BY <1>2 DEF vars, readerVars, loopVars, guiVars, NewestOK, CurrentOK, OnItsWay, Due, One, Latest, MirrorOf
<1> QED  BY <1>1, <1>2, ReaderKeepsNewest, LoopKeepsNewest, UserKeepsNewest DEF Next

\* GraphModule::update_model, update_model_, free_graph and the loop: whatever
\* quits were lost and however deep the loops are, once nothing is under way a
\* loop runs and shows the current bin as it is known.
THEOREM NewestStays == Spec => []NewestIsShown
<1>1. QueueOK /\ NewestOK => NewestIsShown
  <2> SUFFICES ASSUME QueueOK, NewestOK, Rest, ~closed
               PROVE  /\ running /\ queue = <<>>
                      /\ mirrors # <<>> /\ ~astray => page = ToDotData(MirrorOf(current), current.bin)
    BY DEF NewestIsShown
  <2>1. reader = "idle" /\ frames = <<>> /\ posted = 0 /\ gui = "idle" /\ ~again
    BY DEF Rest
  <2>2. running /\ Len(queue) <= 0
    BY <2>1 DEF NewestOK, Due, One
  <2>3. queue = <<>>
    BY <2>2 DEF QueueOK, IsSequence
  <2> QED  BY <2>1, <2>2, <2>3 DEF NewestOK, OnItsWay
<1> QED  BY <1>1, QueueInit, QueueStep, FramesInit, FramesStep, NewestInit, NewestStep, PTL DEF Spec

-----------------------------------------------------------------------------
\* What is known of the pipeline, frame by frame.

\* What is in an element, as the server and the debugger walk up from it.
LEMMA AboveFacts ==
  /\ Above[Root] = {Root}
  /\ \A e \in Elements : Above[e] = {e} \cup Above[Parent[e]]
<1> DEFINE X == Elements \cup {Root}
           Y == SUBSET X
           Fit(f) == f = [e \in X |-> {e} \cup (IF e = Root THEN {} ELSE f[Parent[e]])]
           base == [x \in X |-> {x}]
           step == [z \in X \X Y |-> {z[1]} \cup z[2]]
           rank == [x \in X |-> IF x = Root THEN 0 ELSE Place(x)]
           B == {Root}
           N == Len(Order)
<1>1. base \in [X -> Y] /\ step \in [X \X Y -> Y]
  OBVIOUS
<1>2. N \in Nat /\ rank \in [X -> 0..N] /\ B \in SUBSET X
  BY OrderFacts
<1>3. \A x \in X \ B : Parent[x] \in X /\ rank[Parent[x]] < rank[x]
  BY OrderFacts
<1>4. Chained(X, Y, N, rank, Parent, B, base, step)
  BY <1>1, <1>2, <1>3 DEF Chained
<1> HIDE DEF base, step, Y, X, N, B, rank
<1>5. PICK f \in [X -> Y] : \A x \in X : f[x] = IF x \in B THEN base[x] ELSE step[<<x, f[Parent[x]]>>]
  BY <1>4, ChainRecursion
<1>6. \A x \in X : f[x] = {x} \cup (IF x = Root THEN {} ELSE f[Parent[x]])
  BY <1>3, <1>5 DEF base, step, B
<1>7. Fit(f)
  BY <1>6
<1>8. Above = CHOOSE g : Fit(g)
  BY DEF Above, X
<1>9. Fit(Above)
  BY <1>7, <1>8
<1> QED  BY <1>9, OrderFacts DEF X

\* With an element goes what is in it: what is left is a tree.
Tree(E) == E \subseteq Elements /\ \A e \in E : Parent[e] \in E \cup {Root}

LEMMA WithoutIsTree ==
  ASSUME NEW E, Tree(E), NEW e \in E
  PROVE  Tree({d \in E : e \notin Above[d]})
<1>1. e # Root /\ E \subseteq Elements
  BY OrderFacts DEF Tree
<1> QED  BY <1>1, AboveFacts DEF Tree

\* Where the debugger looks for a pad.
LEMMA PlaceIs ==
  ASSUME NEW m
  PROVE  \E place : /\ \A p : Located(m, p) = [p EXCEPT !.of = place[p.of]]
                    /\ place[Root] = Root
                    /\ \A e \in Elements : place[e] = IF place[Parent[e]] = Parent[e] /\ e \in m.shown
                                                      THEN e ELSE place[Parent[e]]
<1> DEFINE X == Elements \cup {Root}
           Fit(f) == f = [e \in X |-> IF e = Root THEN Root
                                      ELSE IF f[Parent[e]] = Parent[e] /\ e \in m.shown THEN e
                                      ELSE f[Parent[e]]]
           base == [x \in X |-> x]
           step == [z \in X \X X |-> IF z[2] = Parent[z[1]] /\ z[1] \in m.shown THEN z[1] ELSE z[2]]
           rank == [x \in X |-> IF x = Root THEN 0 ELSE Place(x)]
           B == {Root}
           N == Len(Order)
           place == CHOOSE f : Fit(f)
<1>1. base \in [X -> X] /\ step \in [X \X X -> X]
  OBVIOUS
<1>2. N \in Nat /\ rank \in [X -> 0..N] /\ B \in SUBSET X
  BY OrderFacts
<1>3. \A x \in X \ B : Parent[x] \in X /\ rank[Parent[x]] < rank[x]
  BY OrderFacts
<1>4. Chained(X, X, N, rank, Parent, B, base, step)
  BY <1>1, <1>2, <1>3 DEF Chained
<1>5. \A p : Located(m, p) = [p EXCEPT !.of = place[p.of]]
  BY DEF Located
<1> HIDE DEF base, step, X, N, B, rank
<1>6. PICK f \in [X -> X] : \A x \in X : f[x] = IF x \in B THEN base[x] ELSE step[<<x, f[Parent[x]]>>]
  BY <1>4, ChainRecursion
<1>7. \A x \in X : f[x] = IF x = Root THEN Root
                          ELSE IF f[Parent[x]] = Parent[x] /\ x \in m.shown THEN x ELSE f[Parent[x]]
  BY <1>3, <1>6 DEF base, step, B
<1>8. Fit(f)
  BY <1>7
<1>9. Fit(place)
  BY <1>8
<1> HIDE DEF place
<1>10. place[Root] = Root
  BY <1>9 DEF X
<1>11. \A e \in Elements :
         place[e] = IF place[Parent[e]] = Parent[e] /\ e \in m.shown THEN e ELSE place[Parent[e]]
  BY <1>9, OrderFacts DEF X
<1> QED  BY <1>5, <1>10, <1>11

\* A pad is found where it is, if all around it is known.
LEMMA LocatedIs ==
  ASSUME NEW m, NEW p \in Pads, NEW C, Tree(C), p.of \in C, C \subseteq m.shown
  PROVE  Located(m, p) = p
<1>1. PICK place : /\ \A q : Located(m, q) = [q EXCEPT !.of = place[q.of]]
                   /\ place[Root] = Root
                   /\ \A e \in Elements : place[e] = IF place[Parent[e]] = Parent[e] /\ e \in m.shown
                                                     THEN e ELSE place[Parent[e]]
  BY PlaceIs
<1> DEFINE T == {n \in Nat : \A e \in C : Place(e) <= n => place[e] = e}
<1>2. C \subseteq Elements /\ \A e \in C : Parent[e] \in C \cup {Root}
  BY DEF Tree
<1>3. 0 \in T
  BY <1>2, OrderFacts
<1>4. ASSUME NEW n \in Nat, n \in T PROVE n + 1 \in T
  <2> SUFFICES ASSUME NEW e \in C, Place(e) <= n + 1 PROVE place[e] = e
    OBVIOUS
  <2>1. place[Parent[e]] = Parent[e]
    <3>1. CASE Parent[e] = Root
      BY <1>1, <3>1
    <3>2. CASE Parent[e] # Root
      <4>1. Parent[e] \in C /\ Parent[e] \in Elements /\ e \in Elements
        BY <1>2, <3>2
      <4>2. Place(Parent[e]) < Place(e) /\ Place(Parent[e]) \in Nat /\ Place(e) \in Nat
        BY <4>1, OrderFacts
      <4>3. Place(Parent[e]) <= n
        BY <4>2
      <4> QED  BY <1>4, <4>1, <4>3
    <3> QED  BY <3>1, <3>2
  <2> QED  BY <1>1, <1>2, <2>1
<1>5. Nat \subseteq T
  <2> HIDE DEF T
  <2> QED  BY <1>3, <1>4, SetInduction
<1>6. Place(p.of) \in Nat
  BY <1>2, OrderFacts
<1>7. place[p.of] = p.of
  BY <1>5, <1>6
<1>8. p = [of |-> p.of, dir |-> p.dir, inner |-> p.inner]
  BY DEF Pads
<1> QED  BY <1>1, <1>7, <1>8

\* The frames that are handled at once are handled one after the other.
LEMMA FoldSteps ==
  ASSUME NEW s, IsSequence(s)
  PROVE  \E v : /\ v[0] = NoMirror /\ FoldLeft(Process, NoMirror, s) = v[Len(s)]
                /\ \A j \in Nat : j + 1 <= Len(s) => v[j + 1] = Process(v[j], s[j + 1])
<1> DEFINE Body(f, t) == IF t = {} THEN NoMirror ELSE LET x == Max(t) IN Process(f[t \ {x}], s[x])
           Made(f, n) == f = [t \in SUBSET (1..n) |-> Body(f, t)]
           T == {n \in Nat : \E f : Made(f, n)}
           iter == CHOOSE f : f = [t \in SUBSET DOMAIN s |-> Body(f, t)]
<1>1. Len(s) \in Nat /\ DOMAIN s = 1..Len(s)
  BY LenIsNatural DEF IsSequence
<1>2. ASSUME NEW n \in Nat, NEW t \in SUBSET (1..(n + 1)), t # {}
      PROVE  Max(t) \in t /\ t \ {Max(t)} \in SUBSET (1..n)
  <2>1. \E x \in t : \A y \in t : x >= y
    <3>1. n + 1 \in Nat
      OBVIOUS
    <3> QED  BY <3>1, <1>2, GreatestExists
  <2>2. Max(t) \in t /\ \A y \in t : Max(t) >= y
    BY <2>1 DEF Max
  <2> DEFINE x == Max(t)
  <2>3. x \in t /\ \A y \in t : x >= y
    BY <2>2
  <2> HIDE DEF x
  <2>4. \A y \in t \ {x} : y \in 1..n
    BY <2>3
  <2>5. x \in t /\ t \ {x} \in SUBSET (1..n)
    BY <2>3, <2>4
  <2> QED  BY <2>5 DEF x
<1>3. 0 \in T
  <2>1. SUBSET (1..0) = {{}}
    OBVIOUS
  <2>2. Made([t \in SUBSET (1..0) |-> NoMirror], 0)
    BY <2>1
  <2> HIDE DEF Made
  <2> QED  BY <2>2
<1>4. ASSUME NEW n \in Nat, NEW f, Made(f, n) PROVE \E g : Made(g, n + 1)
  <2> DEFINE g == [t \in SUBSET (1..(n + 1)) |-> Body(f, t)]
  <2>1. \A t \in SUBSET (1..n) : g[t] = f[t]
    <3>1. \A t \in SUBSET (1..n) : f[t] = Body(f, t)
      BY <1>4
    <3>2. \A t \in SUBSET (1..n) : t \in SUBSET (1..(n + 1))
      OBVIOUS
    <3> HIDE DEF Body
    <3> QED  BY <3>1, <3>2
  <2>2. ASSUME NEW t \in SUBSET (1..(n + 1)) PROVE Body(g, t) = Body(f, t)
    <3>1. CASE t = {}
      BY <3>1
    <3>2. CASE t # {}
      <4>1. g[t \ {Max(t)}] = f[t \ {Max(t)}]
        BY <1>2, <2>1, <3>2
      <4> HIDE DEF g
      <4> QED  BY <3>2, <4>1
    <3> QED  BY <3>1, <3>2
  <2>3. Made(g, n + 1)
    <3> HIDE DEF Body
    <3> QED  BY <2>2
  <2> HIDE DEF Made, g
  <2> QED  BY <2>3
<1>5. Nat \subseteq T
  <2>1. \A n \in Nat : n \in T => n + 1 \in T
    <3> HIDE DEF Made
    <3> QED  BY <1>4
  <2> HIDE DEF T
  <2> QED  BY <1>3, <2>1, SetInduction
<1>6. iter = [t \in SUBSET (1..Len(s)) |-> Body(iter, t)]
  <2>1. PICK f : Made(f, Len(s))
    BY <1>1, <1>5
  <2> HIDE DEF Body
  <2>2. f = [t \in SUBSET DOMAIN s |-> Body(f, t)]
    BY <1>1, <2>1
  <2> QED  BY <1>1, <2>2
<1>7. FoldLeft(Process, NoMirror, s) = iter[1..Len(s)]
  BY <1>1 DEF FoldLeft, MapThenFoldSet
<1> HIDE DEF iter
<1> DEFINE v == [j \in 0..Len(s) |-> iter[1..j]]
<1>8. v[0] = NoMirror
  <2>1. 1..0 = {} /\ {} \in SUBSET (1..Len(s))
    OBVIOUS
  <2>2. v[0] = iter[{}]
    BY <1>1, <2>1
  <2>3. iter[{}] = Body(iter, {})
    <3> HIDE DEF Body
    <3> QED  BY <1>6, <2>1
  <2> QED  BY <2>2, <2>3
<1>9. ASSUME NEW j \in Nat, j + 1 <= Len(s) PROVE v[j + 1] = Process(v[j], s[j + 1])
  <2> DEFINE t == 1..(j + 1)
  <2>1. t \in SUBSET (1..Len(s)) /\ t # {} /\ t \in SUBSET (1..(j + 1)) /\ j + 1 \in t
    BY <1>1, <1>9
  <2>2. Max(t) = j + 1
    <3>1. \A x \in t : x <= j + 1
      OBVIOUS
    <3>2. \E x \in t : \A y \in t : x >= y
      BY <2>1, <3>1
    <3>3. Max(t) \in t /\ \A y \in t : Max(t) >= y
      BY <3>2 DEF Max
    <3> QED  BY <2>1, <3>1, <3>3
  <2>3. t \ {j + 1} = 1..j
    OBVIOUS
  <2>4. v[j + 1] = iter[t] /\ v[j] = iter[1..j]
    BY <1>1, <1>9
  <2>5. iter[t] = Body(iter, t)
    <3> HIDE DEF Body, t
    <3> QED  BY <1>6, <2>1
  <2> HIDE DEF t, v
  <2> QED  BY <2>1, <2>2, <2>3, <2>4, <2>5
<1>10. v[Len(s)] = iter[1..Len(s)]
  BY <1>1
<1> HIDE DEF v
<1> QED  BY <1>7, <1>8, <1>9, <1>10

\* The models of a connection: elements, and pads of elements.
MirrorOK(m) ==
  m = [shown |-> m.shown, peer |-> m.peer] /\ m.shown \subseteq Elements /\ DOMAIN m.peer \subseteq Pads

Framed(f) ==
  \/ f.what \in {"added", "removed"} /\ f.of \in Elements
  \/ f.what = "pad" /\ f.pad \in Pads
  \/ f.what \in {"linked", "unlinked"}

\* When frame i comes, after those behind frame k, all around its pad is known.
Founded(m, s, k, i) ==
  /\ \A j \in (k + 1)..(i - 1) : s[j].what # "removed"
  /\ \E C \in SUBSET Elements :
       /\ Tree(C) /\ s[i].pad.of \in C
       /\ \A c \in C : \/ c \in m.shown
                       \/ \E j \in (k + 1)..(i - 1) : s[j] = [what |-> "added", of |-> c]

\* The frames behind frame k can be handled.
Ready(m, s, k) ==
  \A i \in (k + 1)..Len(s) : Framed(s[i]) /\ (s[i].what = "pad" => Founded(m, s, k, i))

LEMMA FoundedNext ==
  ASSUME NEW m, NEW n, NEW s, NEW k \in Nat, NEW i \in Nat, k + 1 < i, Founded(m, s, k, i),
         \A c \in Elements : c \in m.shown \/ s[k + 1] = [what |-> "added", of |-> c] => c \in n.shown
  PROVE  Founded(n, s, k + 1, i)
<1>1. \A j \in (k + 2)..(i - 1) : s[j].what # "removed"
  BY DEF Founded
<1>2. PICK C \in SUBSET Elements :
        /\ Tree(C) /\ s[i].pad.of \in C
        /\ \A c \in C : c \in m.shown \/ \E j \in (k + 1)..(i - 1) : s[j] = [what |-> "added", of |-> c]
  BY DEF Founded
<1>3. ASSUME NEW c \in C PROVE c \in n.shown \/ \E j \in (k + 2)..(i - 1) : s[j] = [what |-> "added", of |-> c]
  <2>1. CASE c \in m.shown
    BY <2>1
  <2>2. CASE \E j \in (k + 1)..(i - 1) : s[j] = [what |-> "added", of |-> c]
    <3>1. PICK j \in (k + 1)..(i - 1) : s[j] = [what |-> "added", of |-> c]
      BY <2>2
    <3>2. j = k + 1 \/ j \in (k + 2)..(i - 1)
      OBVIOUS
    <3> QED  BY <3>1, <3>2
  <2> QED  BY <1>2, <2>1, <2>2
<1>4. k + 1 + 1 = k + 2
  OBVIOUS
<1> QED  BY <1>1, <1>2, <1>3, <1>4 DEF Founded

\* What Controller::process makes of the models.
LEMMA ProcessKeeps ==
  ASSUME NEW m, MirrorOK(m), NEW f, Framed(f), f.what = "pad" => Located(m, f.pad) = f.pad
  PROVE  /\ MirrorOK(Process(m, f))
         /\ f.what = "added" => Process(m, f).shown = m.shown \cup {f.of}
         /\ f.what \notin {"added", "removed"} => Process(m, f).shown = m.shown
<1> DEFINE S == m.shown
           P == m.peer
<1>1. m = [shown |-> S, peer |-> P] /\ S \subseteq Elements /\ DOMAIN P \subseteq Pads
  BY DEF MirrorOK
<1> HIDE DEF S, P
<1>2. ASSUME NEW T, NEW Q, T \subseteq Elements, DOMAIN Q \subseteq Pads
      PROVE  MirrorOK([shown |-> T, peer |-> Q])
  BY <1>2 DEF MirrorOK
<1>3. CASE f.what = "added"
  <2>1. Process(m, f) = [shown |-> S \cup {f.of}, peer |-> P]
    BY <1>1, <1>3 DEF Process
  <2>2. f.of \in Elements
    BY <1>3 DEF Framed
  <2> QED  BY <1>1, <1>2, <1>3, <2>1, <2>2
<1>4. CASE f.what = "removed"
  <2>1. Process(m, f) = [shown |-> S \ {f.of}, peer |-> P]
    BY <1>1, <1>4 DEF Process
  <2> QED  BY <1>1, <1>2, <1>4, <2>1
<1>5. CASE f.what = "pad"
  <2> DEFINE Q == [p \in DOMAIN P \cup {f.pad} |-> IF p \in DOMAIN P THEN P[p] ELSE NoPad]
  <2>1. Process(m, f) = [shown |-> S, peer |-> Q]
    BY <1>1, <1>5 DEF Process
  <2>2. f.pad \in Pads
    BY <1>5 DEF Framed
  <2>3. DOMAIN Q \subseteq Pads
    BY <1>1, <2>2
  <2> HIDE DEF Q
  <2> QED  BY <1>1, <1>2, <1>5, <2>1, <2>3
<1>6. CASE f.what = "linked"
  <2>1. Process(m, f) = AddLink(m, Located(m, f.src), Located(m, f.sink))
    BY <1>6 DEF Process
  <2>2. ASSUME NEW s, NEW k
        PROVE  \E Q : AddLink(m, s, k) = [shown |-> S, peer |-> Q] /\ DOMAIN Q = DOMAIN P
    <3>1. AddLink(m, s, k) \in {m, [shown |-> S, peer |-> [[P EXCEPT ![s] = k] EXCEPT ![k] = s]],
                                [shown |-> S, peer |-> [P EXCEPT ![s] = k]]}
      BY <1>1 DEF AddLink
    <3>2. DOMAIN [P EXCEPT ![s] = k] = DOMAIN P /\ DOMAIN [[P EXCEPT ![s] = k] EXCEPT ![k] = s] = DOMAIN P
      OBVIOUS
    <3> QED  BY <1>1, <3>1, <3>2
  <2>3. PICK Q : Process(m, f) = [shown |-> S, peer |-> Q] /\ DOMAIN Q = DOMAIN P
    BY <2>1, <2>2
  <2>4. MirrorOK([shown |-> S, peer |-> Q])
    BY <1>1, <1>2, <2>3
  <2> QED  BY <1>6, <2>3, <2>4 DEF S
<1>7. CASE f.what = "unlinked"
  <2>1. Process(m, f) = RemoveLink(m, Located(m, f.src), Located(m, f.sink))
    BY <1>7 DEF Process
  <2>2. ASSUME NEW s, NEW k
        PROVE  \E Q : RemoveLink(m, s, k) = [shown |-> S, peer |-> Q] /\ DOMAIN Q = DOMAIN P
    <3>1. RemoveLink(m, s, k) = [shown |-> S, peer |-> [p \in DOMAIN P |-> IF p \in {s, k} THEN NoPad ELSE P[p]]]
      BY <1>1 DEF RemoveLink
    <3> DEFINE Q == [p \in DOMAIN P |-> IF p \in {s, k} THEN NoPad ELSE P[p]]
    <3>2. RemoveLink(m, s, k) = [shown |-> S, peer |-> Q] /\ DOMAIN Q = DOMAIN P
      BY <3>1
    <3> HIDE DEF Q
    <3> QED  BY <3>2
  <2>3. PICK Q : Process(m, f) = [shown |-> S, peer |-> Q] /\ DOMAIN Q = DOMAIN P
    BY <2>1, <2>2
  <2>4. MirrorOK([shown |-> S, peer |-> Q])
    BY <1>1, <1>2, <2>3
  <2> QED  BY <1>7, <2>3, <2>4 DEF S
<1> QED  BY <1>3, <1>4, <1>5, <1>6, <1>7 DEF Framed

LEMMA ReadyNext ==
  ASSUME NEW m, MirrorOK(m), NEW s, IsSequence(s), NEW k \in Nat, k + 1 <= Len(s), Ready(m, s, k)
  PROVE  MirrorOK(Process(m, s[k + 1])) /\ Ready(Process(m, s[k + 1]), s, k + 1)
<1> DEFINE f == s[k + 1]
           n == Process(m, f)
<1>1. Len(s) \in Nat /\ k + 1 \in (k + 1)..Len(s)
  BY LenIsNatural
<1>2. Framed(f) /\ (f.what = "pad" => Founded(m, s, k, k + 1))
  BY <1>1 DEF Ready
<1>3. f.what = "pad" => Located(m, f.pad) = f.pad
  <2> SUFFICES ASSUME f.what = "pad" PROVE Located(m, f.pad) = f.pad
    OBVIOUS
  <2>1. PICK C \in SUBSET Elements :
          /\ Tree(C) /\ f.pad.of \in C
          /\ \A c \in C : c \in m.shown \/ \E j \in (k + 1)..(k + 1 - 1) : s[j] = [what |-> "added", of |-> c]
    BY <1>2 DEF Founded
  <2>2. C \subseteq m.shown
    <3>1. (k + 1)..(k + 1 - 1) = {}
      OBVIOUS
    <3> QED  BY <2>1, <3>1
  <2>3. f.pad \in Pads
    BY <1>2 DEF Framed
  <2> HIDE DEF f
  <2> QED  BY <2>1, <2>2, <2>3, LocatedIs
<1> HIDE DEF f
<1>4. /\ MirrorOK(n) /\ (f.what = "added" => n.shown = m.shown \cup {f.of})
      /\ (f.what \notin {"added", "removed"} => n.shown = m.shown)
  BY <1>2, <1>3, ProcessKeeps
<1> HIDE DEF n
<1>5. ASSUME NEW i \in (k + 2)..Len(s)
      PROVE  Framed(s[i]) /\ (s[i].what = "pad" => Founded(n, s, k + 1, i))
  <2>1. i \in (k + 1)..Len(s) /\ i \in Nat /\ k + 1 < i /\ k + 1 \in (k + 1)..(i - 1)
    BY <1>1
  <2>2. Framed(s[i]) /\ (s[i].what = "pad" => Founded(m, s, k, i))
    BY <2>1 DEF Ready
  <2>3. ASSUME s[i].what = "pad" PROVE Founded(n, s, k + 1, i)
    <3>1. Founded(m, s, k, i)
      BY <2>2, <2>3
    <3>2. f.what # "removed"
      BY <2>1, <3>1 DEF Founded, f
    <3>3. \A c : f = [what |-> "added", of |-> c] => f.what = "added" /\ f.of = c
      OBVIOUS
    <3>4. \A c \in Elements : c \in m.shown \/ f = [what |-> "added", of |-> c] => c \in n.shown
      BY <1>4, <3>2, <3>3
    <3> QED  BY <2>1, <3>1, <3>4, FoundedNext DEF f
  <2> QED  BY <2>2, <2>3
<1>6. k + 1 + 1 = k + 2
  OBVIOUS
<1>7. Ready(n, s, k + 1)
  BY <1>5, <1>6 DEF Ready
<1> QED  BY <1>4, <1>7 DEF n, f

\* The frames that are left.
LEMMA ReadyShift ==
  ASSUME NEW m, NEW s, NEW t, NEW k \in Nat, IsSequence(s), Ready(m, s, k), Len(t) = Len(s) - k, k <= Len(s),
         \A i \in 1..Len(t) : t[i] = s[k + i]
  PROVE  Ready(m, t, 0)
<1>1. Len(s) \in Nat
  BY LenIsNatural
<1> SUFFICES ASSUME NEW i \in 1..Len(t) PROVE Framed(t[i]) /\ (t[i].what = "pad" => Founded(m, t, 0, i))
  BY DEF Ready
<1>2. k + i \in (k + 1)..Len(s) /\ t[i] = s[k + i]
  BY <1>1
<1>3. Framed(t[i]) /\ (t[i].what = "pad" => Founded(m, s, k, k + i))
  BY <1>2 DEF Ready
<1>4. ASSUME Founded(m, s, k, k + i) PROVE Founded(m, t, 0, i)
  <2>1. \A j \in 1..(i - 1) : k + j \in (k + 1)..(k + i - 1) /\ t[j] = s[k + j]
    BY <1>1
  <2>2. \A j \in (k + 1)..(k + i - 1) : j - k \in 1..(i - 1) /\ t[j - k] = s[j]
    BY <1>1
  <2>3. \A j \in 1..(i - 1) : t[j].what # "removed"
    <3>1. \A j \in (k + 1)..(k + i - 1) : s[j].what # "removed"
      BY <1>4 DEF Founded
    <3> QED  BY <2>1, <3>1
  <2>4. PICK C \in SUBSET Elements :
          /\ Tree(C) /\ s[k + i].pad.of \in C
          /\ \A c \in C : c \in m.shown \/ \E j \in (k + 1)..(k + i - 1) : s[j] = [what |-> "added", of |-> c]
    <3> DEFINE e == k + i
    <3>1. Founded(m, s, k, e)
      BY <1>4
    <3> HIDE DEF e
    <3>2. \E C \in SUBSET Elements :
            /\ Tree(C) /\ s[e].pad.of \in C
            /\ \A c \in C : c \in m.shown \/ \E j \in (k + 1)..(e - 1) : s[j] = [what |-> "added", of |-> c]
      BY ONLY <3>1 DEF Founded
    <3> QED  BY ONLY <3>2 DEF e
  <2>5. \A c \in C : c \in m.shown \/ \E j \in 1..(i - 1) : t[j] = [what |-> "added", of |-> c]
    BY <2>2, <2>4
  <2>6. 0 + 1 = 1
    OBVIOUS
  <2>7. Tree(C) /\ t[i].pad.of \in C
    BY <1>2, <2>4
  <2>8. /\ \A j \in (0 + 1)..(i - 1) : t[j].what # "removed"
        /\ \A c \in C : c \in m.shown \/ \E j \in (0 + 1)..(i - 1) : t[j] = [what |-> "added", of |-> c]
    BY ONLY <2>3, <2>5, <2>6
  <2> QED  BY <2>7, <2>8 DEF Founded
<1> QED  BY <1>3, <1>4

\* What comes after the topology tells of no pad.
LEMMA ReadyConcat ==
  ASSUME NEW m, NEW s, NEW t, IsSequence(s), IsSequence(t), Ready(m, s, 0),
         \A i \in 1..Len(t) : Framed(t[i]) /\ t[i].what # "pad"
  PROVE  Ready(m, s \o t, 0)
<1> DEFINE u == s \o t
<1>1. /\ \A i \in 1..Len(s) : i \in 1..Len(u) /\ u[i] = s[i]
      /\ \A i \in 1..Len(t) : Len(s) + i \in 1..Len(u) /\ u[Len(s) + i] = t[i]
      /\ \A i \in 1..Len(u) : i \in 1..Len(s) \/ \E j \in 1..Len(t) : i = Len(s) + j
  <2>1. IsSequence(s) /\ IsSequence(t)
    OBVIOUS
  <2> QED  BY ONLY <2>1, ConcatParts
<1>2. Len(s) \in Nat
  BY LenIsNatural
<1> HIDE DEF u
<1> SUFFICES ASSUME NEW i \in 1..Len(u) PROVE Framed(u[i]) /\ (u[i].what = "pad" => Founded(m, u, 0, i))
  BY DEF Ready, u
<1>3. CASE i \in 1..Len(s)
  <2>1. u[i] = s[i] /\ Framed(s[i]) /\ (s[i].what = "pad" => Founded(m, s, 0, i))
    BY <1>1, <1>3 DEF Ready
  <2>2. \A j \in (0 + 1)..(i - 1) : u[j] = s[j]
    BY <1>1, <1>2, <1>3
  <2>3. Founded(m, s, 0, i) => Founded(m, u, 0, i)
    BY <2>1, <2>2 DEF Founded
  <2> QED  BY <2>1, <2>3
<1>4. CASE \E j \in 1..Len(t) : i = Len(s) + j
  BY <1>1, <1>4
<1> QED  BY <1>1, <1>3, <1>4

LEMMA LinkFramesItems ==
  ASSUME NEW links \in SUBSET Links, NEW what \in {"linked", "unlinked"}, NEW l \in AllPads \X AllPads
  PROVE  \A i \in 1..Len(LinkFrames(links, what, l)) :
           /\ Framed(LinkFrames(links, what, l)[i]) /\ LinkFrames(links, what, l)[i].what # "pad"
           /\ LinkFrames(links, what, l)[i].what # "removed"
<1> DEFINE s == SendLink(links)[l]
           F(i) == [what |-> what, src |-> s[i][1], sink |-> s[i][2]]
           t == [i \in DOMAIN s |-> F(i)]
<1>1. IsSequence(s)
  BY SendLinkIsSequence
<1>2. LinkFrames(links, what, l) = t
  BY DEF LinkFrames
<1>3. DOMAIN s = 1..Len(s) /\ Len(s) \in Nat
  BY <1>1 DEF IsSequence
<1> HIDE DEF s
<1>4. t \in Seq({F(i) : i \in DOMAIN s}) /\ Len(t) = Len(s)
  BY <1>3
<1>5. \A i \in 1..Len(t) : t[i].what = what
  BY <1>3, <1>4
<1> HIDE DEF t
<1>6. \A x : x.what = what => Framed(x) /\ x.what # "pad" /\ x.what # "removed"
  BY DEF Framed
<1> QED  BY <1>2, <1>5, <1>6

\* The first n elements were told of, with their pads.
Told(s, E, n) ==
  /\ Ready(NoMirror, s, 0) /\ \A i \in 1..Len(s) : s[i].what # "removed"
  /\ \A j \in 1..n : Order[j] \in E => \E i \in 1..Len(s) : s[i] = [what |-> "added", of |-> Order[j]]

LEMMA FirstAreTree ==
  ASSUME NEW E, Tree(E), NEW n \in 0..Len(Order)
  PROVE  Tree({Order[j] : j \in 1..n} \cap E)
<1> DEFINE C == {Order[j] : j \in 1..n} \cap E
<1>1. Len(Order) \in Nat /\ DOMAIN Order = 1..Len(Order)
  BY OrderFacts
<1> SUFFICES ASSUME NEW c \in C PROVE Parent[c] \in C \cup {Root}
  BY DEF Tree
<1>2. PICK i \in 1..n : c = Order[i]
  OBVIOUS
<1>3. i \in DOMAIN Order
  BY <1>1, <1>2
<1>4. Parent[c] \in {Root} \cup {Order[j] : j \in 1..(i - 1)}
  BY <1>2, <1>3, OrderAssumption
<1>5. \A j \in 1..(i - 1) : j \in 1..n
  BY <1>1, <1>2
<1>6. Parent[c] \in E \cup {Root}
  BY DEF Tree
<1> QED  BY <1>4, <1>5, <1>6

LEMMA ToldNext ==
  ASSUME NEW E, Tree(E), NEW n \in Nat, n + 1 <= Len(Order), NEW a, IsSequence(a), Told(a, E, n),
         Order[n + 1] \in E
  PROVE  Told(a \o <<[what |-> "added", of |-> Order[n + 1]], [what |-> "pad", pad |-> PadOf(Order[n + 1], "src")],
                     [what |-> "pad", pad |-> PadOf(Order[n + 1], "sink")]>>, E, n + 1)
<1> DEFINE e == Order[n + 1]
           x == [what |-> "added", of |-> e]
           y(d) == [what |-> "pad", pad |-> PadOf(e, d)]
           b == <<x, y("src"), y("sink")>>
           u == a \o b
           C == {Order[j] : j \in 1..(n + 1)} \cap E
<1>1. Len(a) \in Nat /\ Len(Order) \in Nat
  BY LenIsNatural, OrderFacts
<1>2. E \subseteq Elements /\ e \in Elements
  BY DEF Tree
<1>3. IsSequence(b) /\ Len(b) = 3 /\ b[1] = x /\ b[2] = y("src") /\ b[3] = y("sink")
  <2>1. b \in Seq({x, y("src"), y("sink")})
    OBVIOUS
  <2>2. IsSequence(b)
    BY <2>1 DEF IsSequence
  <2> QED  BY <2>2
<1>4. Tree(C) /\ C \in SUBSET Elements /\ e \in C
  <2>1. n + 1 \in 0..Len(Order)
    BY <1>1
  <2>2. Tree(C)
    BY <2>1, FirstAreTree
  <2> QED  BY <1>2, <2>2
<1>5. /\ \A i \in 1..Len(a) : i \in 1..Len(u) /\ u[i] = a[i]
      /\ \A i \in 1..Len(b) : Len(a) + i \in 1..Len(u) /\ u[Len(a) + i] = b[i]
      /\ \A i \in 1..Len(u) : i \in 1..Len(a) \/ \E j \in 1..Len(b) : i = Len(a) + j
  <2> HIDE DEF b, x, y
  <2>1. IsSequence(a) /\ IsSequence(b)
    BY <1>3
  <2>2. \A i \in 1..Len(a) : i \in 1..Len(u) /\ u[i] = a[i]
    BY ONLY <2>1, ConcatParts
  <2>3. \A i \in 1..Len(b) : Len(a) + i \in 1..Len(u) /\ u[Len(a) + i] = b[i]
    BY ONLY <2>1, ConcatParts
  <2>4. \A i \in 1..Len(u) : i \in 1..Len(a) \/ \E j \in 1..Len(b) : i = Len(a) + j
    BY ONLY <2>1, ConcatParts
  <2> QED  BY <2>2, <2>3, <2>4
<1>6. \A d \in {"src", "sink"} : y(d).what = "pad" /\ y(d).pad \in Pads /\ y(d).pad.of = e
  BY <1>2 DEF PadOf, Pads
<1>7. \A j \in 1..n : Order[j] \in E => \E i \in 1..Len(a) : a[i] = [what |-> "added", of |-> Order[j]]
  BY DEF Told
<1>8. u[Len(a) + 1] = x /\ u[Len(a) + 2] = y("src") /\ u[Len(a) + 3] = y("sink")
  BY <1>3, <1>5
<1>9. Len(a) + 1 \in 1..Len(u)
  BY <1>3, <1>5
<1>10. x.what = "added" /\ x.of = e
  OBVIOUS
<1> HIDE DEF u, b, y, C, x
<1>11. \A i \in 1..Len(u) : \/ i \in 1..Len(a) /\ u[i] = a[i]
                            \/ i = Len(a) + 1 /\ u[i] = x
                            \/ i \in {Len(a) + 2, Len(a) + 3} /\ \E d \in {"src", "sink"} : u[i] = y(d)
  <2> SUFFICES ASSUME NEW i \in 1..Len(u), i \notin 1..Len(a)
               PROVE  \/ i = Len(a) + 1 /\ u[i] = x
                      \/ i \in {Len(a) + 2, Len(a) + 3} /\ \E d \in {"src", "sink"} : u[i] = y(d)
    BY <1>5
  <2>1. PICK j \in 1..3 : i = Len(a) + j
    BY <1>3, <1>5
  <2>2. j = 1 \/ j = 2 \/ j = 3
    BY <2>1
  <2> QED  BY ONLY <1>8, <2>1, <2>2
<1>12. \A i \in 1..Len(u) : u[i].what # "removed"
  <2>1. \A i \in 1..Len(a) : a[i].what # "removed"
    BY DEF Told
  <2> QED  BY <1>6, <1>10, <1>11, <2>1
<1>13. \A j \in 1..(n + 1) : Order[j] \in E => \E i \in 1..Len(u) : u[i] = [what |-> "added", of |-> Order[j]]
  <2> SUFFICES ASSUME NEW j \in 1..(n + 1), Order[j] \in E
               PROVE  \E i \in 1..Len(u) : u[i] = [what |-> "added", of |-> Order[j]]
    OBVIOUS
  <2>1. CASE j = n + 1
    BY <1>8, <1>9, <2>1 DEF x
  <2>2. CASE j \in 1..n
    BY <1>5, <1>7, <2>2
  <2> QED  BY <2>1, <2>2
<1>14. ASSUME NEW i \in {Len(a) + 2, Len(a) + 3}, i \in 1..Len(u), u[i].pad.of = e
       PROVE  Founded(NoMirror, u, 0, i)
  <2>1. \A j \in 1..(i - 1) : j \in 1..Len(u)
    BY <1>1, <1>14
  <2>2. ASSUME NEW c \in C PROVE \E j \in 1..(i - 1) : u[j] = [what |-> "added", of |-> c]
    <3>1. PICK k \in 1..(n + 1) : c = Order[k] /\ c \in E
      BY DEF C
    <3>2. CASE k = n + 1
      <4>1. Len(a) + 1 \in 1..(i - 1)
        BY <1>1, <1>14
      <4> QED  BY <1>8, <3>1, <3>2, <4>1 DEF x
    <3>3. CASE k \in 1..n
      <4>1. PICK j \in 1..Len(a) : a[j] = [what |-> "added", of |-> c]
        BY <1>7, <3>1, <3>3
      <4>2. j \in 1..(i - 1) /\ u[j] = a[j]
        BY <1>1, <1>5, <1>14
      <4> QED  BY <4>1, <4>2
    <3> QED  BY <3>1, <3>2, <3>3
  <2>3. 0 + 1 = 1
    OBVIOUS
  <2>4. \A j \in 1..(i - 1) : u[j].what # "removed"
    BY <1>12, <2>1
  <2>5. \A c \in C : c \in NoMirror.shown \/ \E j \in 1..(i - 1) : u[j] = [what |-> "added", of |-> c]
    BY <2>2
  <2> HIDE DEF e
  <2> QED  BY <1>4, <1>14, <2>3, <2>4, <2>5 DEF Founded
<1>15. ASSUME NEW i \in 1..Len(a), u[i] = a[i]
       PROVE  Framed(u[i]) /\ (u[i].what = "pad" => Founded(NoMirror, u, 0, i))
  <2>1. Framed(a[i]) /\ (a[i].what = "pad" => Founded(NoMirror, a, 0, i))
    BY DEF Told, Ready
  <2>2. \A j \in (0 + 1)..(i - 1) : u[j] = a[j]
    BY <1>1, <1>5
  <2>3. Founded(NoMirror, a, 0, i) => Founded(NoMirror, u, 0, i)
    BY <1>15, <2>2 DEF Founded
  <2> QED  BY <1>15, <2>1, <2>3
<1>16. Ready(NoMirror, u, 0)
  <2> SUFFICES ASSUME NEW i \in 1..Len(u)
               PROVE  Framed(u[i]) /\ (u[i].what = "pad" => Founded(NoMirror, u, 0, i))
    BY DEF Ready
  <2>1. CASE i \in 1..Len(a) /\ u[i] = a[i]
    BY <1>15, <2>1
  <2>2. CASE i = Len(a) + 1 /\ u[i] = x
    BY <1>2, <1>10, <2>2 DEF Framed
  <2>3. CASE i \in {Len(a) + 2, Len(a) + 3} /\ \E d \in {"src", "sink"} : u[i] = y(d)
    <3>1. u[i].what = "pad" /\ u[i].pad \in Pads /\ u[i].pad.of = e
      BY <1>6, <2>3
    <3>2. Framed(u[i])
      BY <3>1 DEF Framed
    <3>3. Founded(NoMirror, u, 0, i)
      BY <1>14, <2>3, <3>1
    <3> QED  BY <3>2, <3>3
  <2> QED  BY <1>11, <2>1, <2>2, <2>3
<1>17. Told(u, E, n + 1)
  BY <1>12, <1>13, <1>16 DEF Told
<1> QED  BY <1>17 DEF u, b, x, y

\* send_entire_topology: a pad comes after its element and all that is around it.
LEMMA TopologyIsReady ==
  ASSUME NEW E, Tree(E), NEW links \in SUBSET Links
  PROVE  Ready(NoMirror, EntireTopology(E, links), 0)
<1> DEFINE Report(e) == IF e \notin E THEN <<>>
                        ELSE <<[what |-> "added", of |-> e], [what |-> "pad", pad |-> PadOf(e, "src")],
                               [what |-> "pad", pad |-> PadOf(e, "sink")]>>
           To(e) == Peers(links, PadOf(e, "src"))
           Collect(e) == IF e \notin E \/ To(e) = {} THEN <<>>
                         ELSE LinkFrames(links, "linked", <<PadOf(e, "src"), CHOOSE q \in To(e) : TRUE>>)
           r == [i \in DOMAIN Order |-> Report(Order[i])]
           c == [i \in DOMAIN Order |-> Collect(Order[i])]
           Link(x) == Framed(x) /\ x.what # "pad"
<1>1. EntireTopology(E, links) = FlattenSeq(r) \o FlattenSeq(c)
  BY DEF EntireTopology
<1>2. DOMAIN Order = 1..Len(Order) /\ Len(Order) \in Nat
  BY OrderFacts
<1>3. IsSequence(r) /\ Len(r) = Len(Order) /\ IsSequence(c) /\ Len(c) = Len(Order)
  BY <1>2, ListIsSequence
<1>4. \A e : IsSequence(Report(e))
  <2> TAKE e
  <2>1. \A x, y, z : IsSequence(<<x, y, z>>)
    <3> TAKE x, y, z
    <3>1. <<x, y, z>> \in Seq({x, y, z})
      OBVIOUS
    <3> QED  BY <3>1 DEF IsSequence
  <2> QED  BY <2>1, EmptyIsSequence
<1>5. ASSUME NEW e \in Elements
      PROVE  IsSequence(Collect(e)) /\ \A i \in 1..Len(Collect(e)) : Link(Collect(e)[i])
  <2>1. CASE e \notin E \/ To(e) = {}
    <3>1. Collect(e) = <<>>
      BY <2>1
    <3> HIDE DEF Collect
    <3> QED  BY <3>1, EmptyIsSequence
  <2>2. CASE ~(e \notin E \/ To(e) = {})
    <3> DEFINE q == CHOOSE q \in To(e) : TRUE
               s == LinkFrames(links, "linked", <<PadOf(e, "src"), q>>)
    <3>1. q \in To(e)
      BY <2>2
    <3>2. q \in AllPads
      BY <3>1 DEF Peers
    <3>3. PadOf(e, "src") \in AllPads
      BY DEF PadOf, AllPads, Pads
    <3>4. Collect(e) = s
      BY <2>2
    <3> HIDE DEF q, Collect
    <3>5. <<PadOf(e, "src"), q>> \in AllPads \X AllPads
      BY <3>2, <3>3
    <3>6. IsSequence(s)
      BY <3>5, LinkFramesIsSequence
    <3>7. \A i \in 1..Len(s) : Link(s[i])
      BY <3>5, LinkFramesItems
    <3> HIDE DEF s
    <3> QED  BY <3>4, <3>6, <3>7
  <2> QED  BY <2>1, <2>2
<1>6. \A i \in 1..Len(Order) : Order[i] \in Elements
  BY <1>2 DEF Elements, ToSet
<1>7. \A i \in 1..Len(Order) : r[i] = Report(Order[i]) /\ c[i] = Collect(Order[i])
  BY <1>2
<1> HIDE DEF r, c, Collect, Link
<1>8. \A i \in 1..Len(c) : IsSequence(c[i]) /\ \A j \in 1..Len(c[i]) : Link(c[i][j])
  BY <1>3, <1>5, <1>6, <1>7
<1>9. IsSequence(FlattenSeq(c)) /\ \A i \in 1..Len(FlattenSeq(c)) : Link(FlattenSeq(c)[i])
  BY <1>3, <1>8, FlattenIsSequence, FlattenItems
<1>10. \A i \in 1..Len(r) : IsSequence(r[i])
  <2> HIDE DEF Report
  <2> QED  BY <1>3, <1>4, <1>7
<1>11. PICK f : /\ f[0] = <<>> /\ FlattenSeq(r) = f[Len(r)]
                /\ \A n \in Nat : n + 1 <= Len(r) => f[n + 1] = f[n] \o r[n + 1]
                /\ \A n \in 0..Len(r) : IsSequence(f[n])
  BY <1>3, <1>10, FlattenSteps
<1> DEFINE T == {n \in Nat : n <= Len(r) => Told(f[n], E, n)}
<1>12. 0 \in T
  <2>1. Len(f[0]) = 0 /\ 1..0 = {} /\ 0 + 1 = 1
    BY <1>11
  <2>2. Told(f[0], E, 0)
    BY <2>1 DEF Told, Ready
  <2> QED  BY <2>2
<1>13. ASSUME NEW n \in Nat, n \in T, n + 1 <= Len(r) PROVE Told(f[n + 1], E, n + 1)
  <2>1. n \in 0..Len(r) /\ n + 1 \in 1..Len(Order) /\ Told(f[n], E, n)
    BY <1>2, <1>3, <1>13
  <2> DEFINE a == f[n]
  <2>2. f[n + 1] = a \o Report(Order[n + 1]) /\ IsSequence(a) /\ Told(a, E, n)
    BY <1>7, <1>11, <1>13, <2>1
  <2> HIDE DEF a
  <2>3. CASE Order[n + 1] \in E
    <3>1. n + 1 <= Len(Order)
      BY <1>3, <1>13
    <3> QED  BY <2>2, <2>3, <3>1, ToldNext
  <2>4. CASE Order[n + 1] \notin E
    <3>1. a \o <<>> = a
      BY <2>2, ConcatEmptySeq DEF IsSequence
    <3>2. f[n + 1] = a
      BY <2>2, <2>4, <3>1
    <3>3. \A j \in 1..(n + 1) : j \in 1..n \/ j = n + 1
      OBVIOUS
    <3>4. Told(a, E, n + 1)
      BY <2>2, <2>4, <3>3 DEF Told
    <3> QED  BY <3>2, <3>4
  <2> QED  BY <2>3, <2>4
<1>14. Nat \subseteq T
  <2>1. \A n \in Nat : n \in T => n + 1 \in T
    BY <1>13
  <2> HIDE DEF T
  <2> QED  BY <1>12, <2>1, SetInduction
<1>15. Told(FlattenSeq(r), E, Len(r)) /\ IsSequence(FlattenSeq(r))
  <2>1. Len(r) \in Nat /\ Len(r) \in 0..Len(r)
    BY <1>2, <1>3
  <2> QED  BY <1>11, <1>14, <2>1
<1>16. Ready(NoMirror, FlattenSeq(r), 0)
  BY <1>15 DEF Told
<1> QED  BY <1>1, <1>9, <1>15, <1>16, ReadyConcat DEF Link

-----------------------------------------------------------------------------
\* The pipeline is a tree, what is known of it are elements and pads, and the
\* frames on their way can be handled.
MirrorsOK ==
  /\ Tree(exists)
  /\ Len(mirrors) <= MaxConnections /\ \A i \in 1..Len(mirrors) : MirrorOK(mirrors[i])
  /\ connected => Ready(Latest, frames, 0)

LEMMA MirrorsInit == Init => MirrorsOK
<1> SUFFICES ASSUME Init PROVE MirrorsOK
  OBVIOUS
<1>1. Tree(Elements)
  BY OrderFacts DEF Tree
<1> QED  BY <1>1, DrawingBounds DEF Init, MirrorsOK

\* A connection begins with part of its topology handled.
LEMMA ConnectReads ==
  ASSUME FramesOK, MirrorsOK, Connect
  PROVE  \E m : mirrors' = Append(mirrors, m) /\ MirrorOK(m) /\ Ready(m, frames', 0)
<1> DEFINE all == EntireTopology(exists, joined)
           n == IF Len(all) > MaxFrames THEN Len(all) - MaxFrames ELSE 0
           s == SubSeq(all, 1, n)
           t == SubSeq(all, n + 1, Len(all))
           m == FoldLeft(Process, NoMirror, s)
<1>1. mirrors' = Append(mirrors, m) /\ frames' = t
  BY DEF Connect
<1>2. IsSequence(all) /\ Ready(NoMirror, all, 0)
  BY TopologyIsSequence, TopologyIsReady DEF FramesOK, MirrorsOK
<1> HIDE DEF all, m
<1>3. PICK S : all \in Seq(S)
  BY <1>2 DEF IsSequence
<1>4. Len(all) \in Nat /\ n \in 0..Len(all)
  BY <1>3, DrawingBounds
<1> HIDE DEF n
<1>5. \A i \in 1..Len(all) : all[i] \in S
  BY <1>3, ElementOfSeq
<1>6. s \in Seq(S) /\ Len(s) = n /\ \A i \in 1..n : s[i] = all[i]
  <2>1. \A i \in 1..n : all[i] \in S
    BY <1>4, <1>5
  <2> QED  BY <1>3, <1>4, <2>1, SubSeqProperties
<1>7. t \in Seq(S) /\ Len(t) = Len(all) - n /\ \A i \in 1..Len(t) : t[i] = all[n + i]
  <2>1. \A i \in (n + 1)..Len(all) : all[i] \in S
    BY <1>4, <1>5
  <2> QED  BY <1>3, <1>4, <2>1, SubSeqProperties
<1>8. IsSequence(s)
  BY <1>6 DEF IsSequence
<1> HIDE DEF s, t
<1>9. PICK v : /\ v[0] = NoMirror /\ m = v[n]
               /\ \A j \in Nat : j + 1 <= n => v[j + 1] = Process(v[j], s[j + 1])
  BY <1>6, <1>8, FoldSteps DEF m
<1> DEFINE T == {j \in Nat : j <= n => MirrorOK(v[j]) /\ Ready(v[j], all, j)}
<1>10. 0 \in T
  <2>1. MirrorOK(NoMirror)
    BY DEF MirrorOK, NoMirror
  <2> QED  BY <1>2, <1>9, <2>1
<1>11. ASSUME NEW j \in Nat, j \in T, j + 1 <= n PROVE MirrorOK(v[j + 1]) /\ Ready(v[j + 1], all, j + 1)
  <2>1. MirrorOK(v[j]) /\ Ready(v[j], all, j) /\ j + 1 <= Len(all) /\ j + 1 \in 1..n
    BY <1>4, <1>11
  <2>2. v[j + 1] = Process(v[j], all[j + 1])
    BY <1>6, <1>9, <1>11, <2>1
  <2> QED  BY <1>2, <2>1, <2>2, ReadyNext
<1>12. Nat \subseteq T
  <2>1. \A j \in Nat : j \in T => j + 1 \in T
    BY <1>11
  <2> HIDE DEF T
  <2> QED  BY <1>10, <2>1, SetInduction
<1>13. MirrorOK(m) /\ Ready(m, all, n)
  BY <1>4, <1>9, <1>12
<1>14. Ready(m, t, 0)
  BY <1>2, <1>4, <1>7, <1>13, ReadyShift
<1> QED  BY <1>1, <1>13, <1>14

\* What the application changes is told after the topology.
LEMMA ChangesAreReady ==
  ASSUME FramesOK, MirrorsOK, PadUnlink \/ BinRemove
  PROVE  MirrorsOK'
<1>1. Links \subseteq AllPads \X AllPads
  BY DEF Links
<1> DEFINE Late(s) == IsSequence(s) /\ \A i \in 1..Len(s) : Framed(s[i]) /\ s[i].what # "pad"
<1>2. ASSUME NEW sent, Late(sent), Changes(sent), Tree(exists)' PROVE MirrorsOK'
  <2>1. frames' = frames \o sent /\ mirrors' = mirrors /\ connected' = connected /\ connected
    BY <1>2 DEF Changes
  <2>2. Ready(Latest, frames \o sent, 0)
    <3> DEFINE l == Latest
    <3>1. Ready(l, frames, 0) /\ IsSequence(frames)
      BY <2>1 DEF MirrorsOK, FramesOK
    <3> HIDE DEF l
    <3>2. Ready(l, frames \o sent, 0)
      BY <1>2, <3>1, ReadyConcat
    <3> QED  BY <3>2 DEF l
  <2>3. Latest' = Latest
    BY <2>1 DEF Latest
  <2> QED  BY <1>2, <2>1, <2>2, <2>3 DEF MirrorsOK
<1>3. ASSUME NEW l \in joined PROVE Late(LinkFrames(joined, "unlinked", l))
  <2>1. l \in AllPads \X AllPads /\ joined \in SUBSET Links
    BY <1>1 DEF FramesOK
  <2> DEFINE s == LinkFrames(joined, "unlinked", l)
  <2>2. IsSequence(s)
    BY <2>1, LinkFramesIsSequence
  <2>3. \A i \in 1..Len(s) : Framed(s[i]) /\ s[i].what # "pad"
    BY <2>1, LinkFramesItems
  <2> QED  BY <2>2, <2>3
<1>4. CASE PadUnlink
  <2>1. PICK l \in joined : Changes(LinkFrames(joined, "unlinked", l)) /\ exists' = exists
    BY <1>4 DEF PadUnlink
  <2>2. Tree(exists)'
    BY <2>1 DEF MirrorsOK, Tree
  <2> HIDE DEF Late
  <2> QED  BY <1>2, <1>3, <2>1, <2>2
<1>5. CASE BinRemove
  <2> DEFINE Own(e) == {l \in joined : e \in {l[1].of, l[2].of} /\ Level(l[1]) = Parent[e]}
             Undone(e) == [i \in DOMAIN SetToSeq(Own(e)) |->
                             LinkFrames(joined, "unlinked", SetToSeq(Own(e))[i])]
             Sent(e) == <<[what |-> "removed", of |-> e]>> \o FlattenSeq(Undone(e))
  <2>1. PICK e \in exists : Changes(Sent(e)) /\ exists' = {d \in exists : e \notin Above[d]}
    BY <1>5 DEF BinRemove
  <2> DEFINE own == Own(e)
             u == Undone(e)
             x == [what |-> "removed", of |-> e]
  <2>2. own \subseteq joined /\ IsFiniteSet(own)
    <3>1. own \subseteq AllPads \X AllPads
      BY <1>1 DEF FramesOK
    <3> HIDE DEF own
    <3> QED  BY <3>1, LinksAreFinite, FS_Subset DEF own
  <2> HIDE DEF own
  <2> DEFINE n == Cardinality(own)
             seq == SetToSeq(own)
  <2>3. n \in Nat /\ seq \in [1..n -> own]
    BY <2>2, SetToSeqItems
  <2> HIDE DEF n, seq
  <2> DEFINE v == [i \in DOMAIN seq |-> LinkFrames(joined, "unlinked", seq[i])]
  <2>4. u = v
    BY DEF own, seq
  <2>5. IsSequence(v) /\ Len(v) = n
    BY <2>3, ListIsSequence
  <2>6. \A i \in 1..n : Late(v[i])
    <3> TAKE i \in 1..n
    <3>1. seq[i] \in joined /\ v[i] = LinkFrames(joined, "unlinked", seq[i])
      BY <2>2, <2>3
    <3> HIDE DEF Late, v
    <3> QED  BY <1>3, <3>1
  <2> HIDE DEF v, u
  <2> DEFINE w == FlattenSeq(u)
  <2>7. Late(w)
    <3>1. IsSequence(u) /\ \A i \in 1..Len(u) : IsSequence(u[i])
      BY <2>4, <2>5, <2>6
    <3>2. IsSequence(w)
      BY <3>1, FlattenIsSequence
    <3>3. \A i \in 1..Len(w) : \E k \in 1..Len(u) : \E j \in 1..Len(u[k]) : w[i] = u[k][j]
      BY <3>1, FlattenItems
    <3>4. \A k \in 1..Len(u) : \A j \in 1..Len(u[k]) : Framed(u[k][j]) /\ u[k][j].what # "pad"
      BY <2>4, <2>5, <2>6
    <3> HIDE DEF w
    <3> QED  BY <3>2, <3>3, <3>4
  <2> HIDE DEF w
  <2>8. Late(<<x>> \o w)
    <3> DEFINE b == <<x>>
    <3>1. b \in Seq({x}) /\ Len(b) = 1 /\ b[1] = x
      OBVIOUS
    <3>2. Framed(x) /\ x.what # "pad"
      BY DEF Framed, Tree, MirrorsOK
    <3> HIDE DEF b, x
    <3>3. IsSequence(b)
      BY <3>1 DEF IsSequence
    <3>4. /\ IsSequence(b \o w) /\ Len(b) \in Nat
          /\ \A i \in 1..Len(b) : (b \o w)[i] = b[i]
          /\ \A i \in 1..Len(w) : (b \o w)[Len(b) + i] = w[i]
          /\ \A i \in 1..Len(b \o w) : i \in 1..Len(b) \/ \E j \in 1..Len(w) : i = Len(b) + j
      BY <2>7, <3>3, ConcatParts, ConcatIsSequence
    <3>5. \A i \in 1..Len(b) : b[i] = x
      BY <3>1
    <3>6. Late(b \o w)
      BY <2>7, <3>2, <3>4, <3>5, ZenonT(40)
    <3> HIDE DEF Late
    <3> QED  BY <3>6 DEF b
  <2>9. Late(Sent(e))
    <3> HIDE DEF Late
    <3> QED  BY <2>8 DEF w, u, x
  <2>10. Tree(exists)'
    <3>1. Tree({d \in exists : e \notin Above[d]})
      BY WithoutIsTree DEF MirrorsOK
    <3> QED  BY <2>1, <3>1 DEF Tree
  <2> HIDE DEF Sent, Late
  <2> QED  BY <1>2, <2>1, <2>9, <2>10
<1> QED  BY <1>4, <1>5

LEMMA CleanRootKeeps == ASSUME NEW m, MirrorOK(m) PROVE MirrorOK(CleanRoot(m))
<1>1. DOMAIN Restrict(m.peer, {p \in DOMAIN m.peer : p.of # Root}) \subseteq Pads
  BY DEF MirrorOK, Restrict
<1> QED  BY <1>1 DEF MirrorOK, CleanRoot

LEMMA MirrorsStep == QueueOK /\ FramesOK /\ MirrorsOK /\ [Next]_vars => MirrorsOK'
<1> SUFFICES ASSUME QueueOK, FramesOK, MirrorsOK, [Next]_vars PROVE MirrorsOK'
  OBVIOUS
<1>1. Len(mirrors) \in Nat
  BY LenIsNatural DEF QueueOK
<1>2. ASSUME UNCHANGED <<exists, mirrors, connected, frames>> PROVE MirrorsOK'
  BY <1>2 DEF MirrorsOK, Latest, Tree
<1>3. CASE ProcessFrame
  <2> DEFINE m == mirrors[Len(mirrors)]
             n == Process(m, frames[1])
  <2>1. /\ exists' = exists /\ connected /\ frames # <<>> /\ frames' = Tail(frames)
        /\ mirrors' = [mirrors EXCEPT ![Len(mirrors)] = Process(@, Head(frames))]
    BY <1>3 DEF ProcessFrame, pipelineVars
  <2>2. mirrors # <<>> /\ IsSequence(mirrors)
    BY <2>1 DEF QueueOK
  <2>3. DOMAIN mirrors = 1..Len(mirrors) /\ Len(mirrors) \in 1..Len(mirrors)
    BY <2>2 DEF IsSequence
  <2>4. MirrorOK(m) /\ Ready(m, frames, 0)
    BY <2>1, <2>3 DEF MirrorsOK, Latest
  <2>5. /\ IsSequence(frames) /\ Len(frames) \in Nat /\ 0 + 1 <= Len(frames) /\ Head(frames) = frames[1]
        /\ Len(frames') = Len(frames) - 1 /\ \A i \in 1..Len(frames') : frames'[i] = frames[1 + i]
    <3>1. PICK S : frames \in Seq(S)
      BY DEF FramesOK, IsSequence
    <3> QED  BY <2>1, <3>1 DEF FramesOK
  <2>6. mirrors' = [mirrors EXCEPT ![Len(mirrors)] = n]
    BY <2>1, <2>5
  <2> HIDE DEF m
  <2>7. MirrorOK(n) /\ Ready(n, frames, 1)
    <3>1. 0 + 1 = 1 /\ 0 \in Nat
      OBVIOUS
    <3> QED  BY <2>4, <2>5, <3>1, ReadyNext
  <2> HIDE DEF n
  <2>8. Len(mirrors') = Len(mirrors) /\ \A i \in 1..Len(mirrors) : mirrors'[i] = IF i = Len(mirrors) THEN n ELSE mirrors[i]
    BY <2>2, <2>3, <2>6, ExceptIsSequence
  <2>9. Ready(n, frames', 0)
    <3>1. 1 \in Nat /\ 1 <= Len(frames)
      BY <2>5
    <3> DEFINE t == frames'
    <3>2. Len(t) = Len(frames) - 1 /\ \A i \in 1..Len(t) : t[i] = frames[1 + i]
      BY <2>5
    <3> HIDE DEF t
    <3>3. Ready(n, t, 0)
      BY <2>5, <2>7, <3>1, <3>2, ReadyShift
    <3> QED  BY <3>3 DEF t
  <2>10. Latest' = n
    BY <2>3, <2>8 DEF Latest
  <2>11. Tree(exists)'
    BY <2>1 DEF MirrorsOK, Tree
  <2>12. \A i \in 1..Len(mirrors') : MirrorOK(mirrors'[i])
    BY <2>7, <2>8 DEF MirrorsOK
  <2>13. Len(mirrors') <= MaxConnections
    BY <2>8 DEF MirrorsOK
  <2> QED  BY <2>9, <2>10, <2>11, <2>12, <2>13 DEF MirrorsOK
<1>4. CASE ClientDisconnected
  <2> DEFINE n == CleanRoot(mirrors[Len(mirrors)])
  <2>1. exists' = exists /\ ~connected' /\ connected /\ mirrors' = [mirrors EXCEPT ![Len(mirrors)] = n]
    BY <1>4 DEF ClientDisconnected, pipelineVars
  <2>2. mirrors # <<>> /\ IsSequence(mirrors)
    BY <2>1 DEF QueueOK
  <2>3. DOMAIN mirrors = 1..Len(mirrors) /\ Len(mirrors) \in 1..Len(mirrors)
    BY <2>2 DEF IsSequence
  <2>4. MirrorOK(n)
    BY <2>3, CleanRootKeeps DEF MirrorsOK
  <2> HIDE DEF n
  <2>5. Len(mirrors') = Len(mirrors) /\ \A i \in 1..Len(mirrors) : mirrors'[i] = IF i = Len(mirrors) THEN n ELSE mirrors[i]
    BY <2>1, <2>2, <2>3, ExceptIsSequence
  <2>6. \A i \in 1..Len(mirrors') : MirrorOK(mirrors'[i])
    BY <2>4, <2>5 DEF MirrorsOK
  <2>7. Tree(exists)'
    BY <2>1 DEF MirrorsOK, Tree
  <2>8. Len(mirrors') <= MaxConnections
    BY <2>5 DEF MirrorsOK
  <2> QED  BY <2>1, <2>6, <2>7, <2>8 DEF MirrorsOK
<1>5. CASE Quit \/ Push \/ Emit
  BY <1>2, <1>5 DEF Quit, Push, Emit, pipelineVars
<1>6. CASE Loop
  BY <1>2, <1>6 DEF Loop, WakeUp, Take, Convert, Draw, FreeGraph, pipelineVars, readerVars
<1>7. CASE ModelDown \/ ModelUp \/ Close
  BY <1>2, <1>7 DEF ModelDown, ModelUp, Close, Show, Clicks, pipelineVars, readerVars
<1>8. CASE Connect
  <2>1. exists' = exists /\ Len(mirrors) < MaxConnections
    BY <1>8 DEF Connect, Clicks, pipelineVars
  <2>2. PICK m : mirrors' = Append(mirrors, m) /\ MirrorOK(m) /\ Ready(m, frames', 0)
    BY <1>8, ConnectReads
  <2>3. /\ Len(mirrors') = Len(mirrors) + 1 /\ mirrors'[Len(mirrors')] = m
        /\ \A i \in 1..Len(mirrors) : mirrors'[i] = mirrors[i]
    <3>1. PICK S : mirrors \in Seq(S)
      BY DEF QueueOK, IsSequence
    <3>2. mirrors \in Seq(S \cup {m})
      BY <3>1
    <3> QED  BY <2>2, <3>2, AppendProperties
  <2>4. Latest' = m
    BY <2>3 DEF Latest
  <2>5. \A i \in 1..Len(mirrors') : MirrorOK(mirrors'[i])
    <3>1. \A i \in 1..Len(mirrors') : i \in 1..Len(mirrors) \/ i = Len(mirrors')
      BY <1>1, <2>3
    <3> QED  BY <2>2, <2>3, <3>1 DEF MirrorsOK
  <2>6. Tree(exists)'
    BY <2>1 DEF MirrorsOK, Tree
  <2>7. Len(mirrors') <= MaxConnections
    BY <1>1, <2>1, <2>3, DrawingBounds
  <2> QED  BY <2>2, <2>4, <2>5, <2>6, <2>7 DEF MirrorsOK
<1>9. CASE PadUnlink \/ BinRemove
  BY <1>9, ChangesAreReady
<1>10. CASE UNCHANGED vars
  BY <1>2, <1>10 DEF vars, pipelineVars, readerVars
<1> QED  BY <1>3, <1>4, <1>5, <1>6, <1>7, <1>8, <1>9, <1>10 DEF Next, Reader, User

-----------------------------------------------------------------------------
\* The models that can be drawn: the root, and bins of a connection there was.
Known == {x \in Model : (x.bin = Root <=> x.no = 0) /\ x.no <= Len(mirrors)}

ControlOK ==
  /\ connected \in BOOLEAN /\ running \in BOOLEAN /\ again \in BOOLEAN /\ closed \in BOOLEAN
  /\ reader \in {"idle", "quit", "push", "emit"} /\ gui \in {"idle", "called", "converting", "drawing"}
  /\ depth \in Nat /\ (running => depth > 0)
  /\ current \in Known /\ queue \in Seq(Known)
  /\ item \in Known \cup {NoModel} /\ (item = NoModel <=> reader \in {"idle", "emit"})
  /\ taken \in Known \cup {NoModel} /\ (taken # NoModel <=> gui = "converting")
  /\ page.clusters \subseteq Elements /\ page.nodes \subseteq Pads

\* A list of some is a list of more.
LEMMA ListOfLarger == ASSUME NEW S, NEW T, S \subseteq T, NEW s \in Seq(S) PROVE s \in Seq(T)
OBVIOUS

LEMMA KnownFacts ==
  ASSUME QueueOK
  PROVE  RootModel \in Known /\ NoModel \notin Known /\ Known \subseteq Model
<1>1. Len(mirrors) \in Nat
  BY LenIsNatural DEF QueueOK
<1> QED  BY <1>1, DrawingBounds DEF Known, Model, RootModel, NoModel, Bins

LEMMA ControlInit == Init => ControlOK
<1> SUFFICES ASSUME Init PROVE ControlOK
  OBVIOUS
<1>1. RootModel \in Known /\ NoModel \notin Known
  BY QueueInit, KnownFacts
<1>2. <<>> \in Seq(Known)
  OBVIOUS
<1> QED  BY <1>1, <1>2 DEF Init, ControlOK, BlankPage

\* What is known of a bin is what a page is made of.
LEMMA PageIsOf ==
  ASSUME QueueOK, MirrorsOK, NEW x \in Known
  PROVE  /\ ToDotData(MirrorOf(x), x.bin).clusters \subseteq Elements
         /\ ToDotData(MirrorOf(x), x.bin).nodes \subseteq Pads
<1> DEFINE m == MirrorOf(x)
           b == x.bin
<1>1. MirrorOK(m)
  <2>1. CASE mirrors = <<>>
    BY <2>1 DEF MirrorOf, MirrorOK, NoMirror
  <2>2. CASE mirrors # <<>>
    <3>1. Len(mirrors) \in 1..Len(mirrors)
      BY <2>2 DEF QueueOK, IsSequence
    <3>2. x.bin # Root => x.no \in 1..Len(mirrors)
      BY <3>1, DrawingBounds DEF Known, Model
    <3> QED  BY <2>2, <3>1, <3>2 DEF MirrorOf, MirrorsOK, Latest
  <2> QED  BY <2>1, <2>2
<1> HIDE DEF m, b
<1>2. \A e : PadsOf(m, e) \subseteq Pads
  BY <1>1 DEF MirrorOK, PadsOf
<1>3. DumpTopPads(m, b).nodes \subseteq Pads
  BY <1>2 DEF DumpTopPads
<1>4. DumpElement(m, b).nodes \subseteq Pads
  BY <1>2 DEF DumpElement
<1>5. ToDotData(m, b).clusters \subseteq Elements /\ ToDotData(m, b).nodes \subseteq Pads
  BY <1>3, <1>4 DEF ToDotData, Children
<1> QED  BY <1>5 DEF m, b

LEMMA ReaderKeepsControl == ASSUME QueueOK, ControlOK, Reader PROVE ControlOK'
<1>1. RootModel \in Known /\ NoModel \notin Known
  BY KnownFacts
<1>2. Known' = Known
  <2>1. mirrors' = mirrors \/ \E x : mirrors' = [mirrors EXCEPT ![Len(mirrors)] = x]
    BY DEF Reader, ProcessFrame, ClientDisconnected, Quit, Push, Emit
  <2>2. Len(mirrors') = Len(mirrors)
    BY <2>1, ExceptIsSequence DEF QueueOK
  <2> QED  BY <2>2 DEF Known
<1>3. CASE ProcessFrame
  <2>1. UNCHANGED <<connected, running, again, closed, gui, depth, current, queue, taken, page>>
    BY <1>3 DEF ProcessFrame, loopVars, guiVars
  <2>2. reader' = "quit" /\ item' = current
    BY <1>3 DEF ProcessFrame
  <2> QED  BY <1>1, <1>2, <2>1, <2>2 DEF ControlOK
<1>4. CASE ClientDisconnected
  <2>1. UNCHANGED <<running, again, closed, gui, depth, current, queue, taken, page>>
    BY <1>4 DEF ClientDisconnected, loopVars, guiVars
  <2>2. reader' = "quit" /\ item' = RootModel /\ connected' = FALSE
    BY <1>4 DEF ClientDisconnected
  <2> QED  BY <1>1, <1>2, <2>1, <2>2 DEF ControlOK
<1>5. CASE Quit
  BY <1>2, <1>5 DEF Quit, guiVars, ControlOK
<1>6. CASE Push
  <2>1. UNCHANGED <<connected, running, again, closed, gui, depth, current, taken, page>>
    BY <1>6 DEF Push, guiVars
  <2>2. reader = "push" /\ reader' = "emit" /\ item' = NoModel /\ queue' = Append(queue, item)
    BY <1>6 DEF Push
  <2>3. item \in Known /\ queue \in Seq(Known)
    BY <2>2 DEF ControlOK
  <2>4. queue' \in Seq(Known)
    BY <2>2, <2>3
  <2> QED  BY <1>2, <2>1, <2>2, <2>4 DEF ControlOK
<1>7. CASE Emit
  BY <1>2, <1>7 DEF Emit, guiVars, ControlOK
<1> QED  BY <1>3, <1>4, <1>5, <1>6, <1>7 DEF Reader

LEMMA LoopKeepsControl == ASSUME QueueOK, MirrorsOK, ControlOK, Loop PROVE ControlOK'
<1>1. RootModel \in Known /\ NoModel \notin Known
  BY KnownFacts
<1>2. Known' = Known /\ UNCHANGED <<connected, closed, reader, item, current>>
  BY DEF Loop, WakeUp, Take, Convert, Draw, FreeGraph, readerVars, Known
<1>3. CASE WakeUp
  BY <1>2, <1>3 DEF WakeUp, Iterates, ControlOK
<1>4. CASE Take
  <2>1. UNCHANGED <<running, depth, again>> /\ gui = "called"
    BY <1>4 DEF Take
  <2>2. CASE queue = <<>>
    <3>1. page' = BlankPage /\ gui' = "drawing" /\ queue' = queue /\ taken' = taken
      BY <1>4, <2>2 DEF Take
    <3> QED  BY <1>2, <2>1, <3>1 DEF ControlOK, BlankPage
  <2>3. CASE queue # <<>>
    <3>1. taken' = Head(queue) /\ queue' = Tail(queue) /\ gui' = "converting" /\ page' = page
      BY <1>4, <2>3 DEF Take
    <3>2. Head(queue) \in Known /\ Tail(queue) \in Seq(Known)
      BY <2>3, HeadTailProperties DEF ControlOK
    <3> QED  BY <1>1, <1>2, <2>1, <3>1, <3>2 DEF ControlOK
  <2> QED  BY <2>2, <2>3
<1>5. CASE Convert
  <2>1. /\ UNCHANGED <<running, depth, again, queue>> /\ gui = "converting" /\ gui' = "drawing"
        /\ taken' = NoModel /\ page' = ToDotData(MirrorOf(taken), taken.bin)
    BY <1>5 DEF Convert, loopVars
  <2>2. taken \in Known
    BY <2>1 DEF ControlOK
  <2>3. page'.clusters \subseteq Elements /\ page'.nodes \subseteq Pads
    BY <2>1, <2>2, PageIsOf
  <2> QED  BY <1>2, <2>1, <2>3 DEF ControlOK
<1>6. CASE Draw
  BY <1>2, <1>6 DEF Draw, ControlOK
<1>7. CASE FreeGraph
  <2>1. /\ UNCHANGED <<queue, gui, taken, again>> /\ depth > 0 /\ depth' = depth - 1
        /\ running' = FALSE /\ page' = BlankPage
    BY <1>7 DEF FreeGraph
  <2>2. depth' \in Nat
    BY <2>1 DEF ControlOK
  <2>3. page'.clusters \subseteq Elements /\ page'.nodes \subseteq Pads
    BY <2>1 DEF BlankPage
  <2> QED  BY <1>2, <2>1, <2>2, <2>3 DEF ControlOK
<1> QED  BY <1>3, <1>4, <1>5, <1>6, <1>7 DEF Loop

LEMMA AgainIsBoolean == ASSUME Clicks PROVE again' \in BOOLEAN
<1>1. again' = FALSE \/ again' = (posted > 0)
  BY DEF Clicks
<1>2. (posted > 0) \in BOOLEAN
  OBVIOUS
<1> QED  BY <1>1, <1>2, Zenon

LEMMA UserKeepsControl == ASSUME QueueOK, MirrorsOK, ControlOK, User PROVE ControlOK'
<1>1. RootModel \in Known /\ NoModel \notin Known /\ Len(mirrors) \in Nat
  BY KnownFacts, LenIsNatural DEF QueueOK
<1>2. ASSUME NEW x \in Known, Show(x) PROVE ControlOK'
  <2>1. /\ UNCHANGED <<mirrors, reader, item, connected, closed, gui, depth, taken, page>>
        /\ current' = x /\ queue' = Append(queue, x) /\ running' = FALSE /\ again' \in BOOLEAN
    BY <1>2, AgainIsBoolean DEF Show, Clicks, readerVars
  <2>2. queue' \in Seq(Known)
    BY <2>1 DEF ControlOK
  <2>3. Known' = Known
    BY <2>1 DEF Known
  <2> QED  BY <2>1, <2>2, <2>3 DEF ControlOK
<1>3. current \in Known /\ current.bin \in Bins /\ current.no \in 0..Len(mirrors)
  BY <1>1 DEF ControlOK, Known, Model
<1>4. current # RootModel => current.bin # Root /\ current.no # 0
  <2>1. current = [bin |-> current.bin, no |-> current.no] /\ (current.bin = Root <=> current.no = 0)
    BY <1>3 DEF Known, Model
  <2> QED  BY <2>1 DEF RootModel
<1>5. ASSUME NEW b \in Bins, NEW n \in 0..Len(mirrors), b = Root <=> n = 0, Len(mirrors) <= MaxConnections
      PROVE  [bin |-> b, no |-> n] \in Known
  BY <1>1, <1>5, DrawingBounds DEF Known, Model
<1>6. MaxConnections \in Nat
  BY DrawingBounds
<1>7. CASE ModelDown
  <2>1. mirrors # <<>>
    BY <1>7, NothingShown DEF ModelDown, Chosen, QueueOK
  <2> DEFINE n == IF current = RootModel THEN Len(mirrors) ELSE current.no
  <2>2. PICK b \in Children(current.bin) \cap Bins : Show([bin |-> b, no |-> n])
    BY <1>7 DEF ModelDown, Chosen
  <2>3. b # Root
    BY OrderFacts DEF Children
  <2>4. n \in 1..Len(mirrors)
    <3>1. Len(mirrors) # 0
      BY <2>1 DEF QueueOK, IsSequence
    <3> QED  BY <1>1, <1>3, <1>4, <3>1
  <2> HIDE DEF n
  <2>5. [bin |-> b, no |-> n] \in Model
    <3>1. n \in 0..MaxConnections
      BY <1>1, <1>6, <2>4 DEF MirrorsOK
    <3> QED  BY <2>2, <3>1 DEF Model
  <2>6. [bin |-> b, no |-> n] \in Known
    BY <2>3, <2>4, <2>5 DEF Known
  <2> QED  BY <1>2, <2>2, <2>6
<1>8. CASE ModelUp
  <2> DEFINE b == Parent[current.bin]
             n == IF b = Root THEN 0 ELSE current.no
  <2>1. current # RootModel /\ Show([bin |-> b, no |-> n])
    BY <1>8 DEF ModelUp
  <2>2. current.bin \in Elements
    BY <1>3, <1>4, <2>1, OrderFacts
  <2>3. b \in Bins
    BY <2>2 DEF Bins
  <2>4. n \in 0..Len(mirrors) /\ (b = Root <=> n = 0) /\ n \in 0..MaxConnections
    BY <1>1, <1>3, <1>4, <1>6, <2>1 DEF Known, Model
  <2> HIDE DEF b, n
  <2>5. [bin |-> b, no |-> n] \in Known
    BY <1>1, <2>3, <2>4 DEF Known, Model
  <2> QED  BY <1>2, <2>1, <2>5
<1>9. CASE Connect
  <2>1. /\ UNCHANGED <<reader, item, current, running, queue, closed, gui, depth, taken, page>>
        /\ connected' = TRUE /\ again' \in BOOLEAN
    BY <1>9, AgainIsBoolean DEF Connect, Clicks
  <2>2. Known \subseteq Known'
    <3>1. PICK m : mirrors' = Append(mirrors, m)
      BY <1>9 DEF Connect
    <3>2. Len(mirrors') = Len(mirrors) + 1
      BY <3>1, AppendIsSequence DEF QueueOK
    <3>3. \A x \in Model : x.no \in Int
      BY <1>6 DEF Model
    <3> QED  BY <1>1, <3>2, <3>3 DEF Known
  <2>3. queue' \in Seq(Known')
    <3>1. queue \in Seq(Known)
      BY DEF ControlOK
    <3> QED  BY <2>1, <2>2, <3>1, ListOfLarger
  <2> QED  BY <2>1, <2>2, <2>3 DEF ControlOK
<1>10. CASE Close
  <2>1. /\ UNCHANGED <<mirrors, reader, item, connected, current, queue, gui, depth, taken, page>>
        /\ closed' = TRUE /\ running' = FALSE /\ again' \in BOOLEAN
    BY <1>10, AgainIsBoolean DEF Close, Clicks, readerVars
  <2>2. Known' = Known
    BY <2>1 DEF Known
  <2> QED  BY <2>1, <2>2 DEF ControlOK
<1> QED  BY <1>7, <1>8, <1>9, <1>10 DEF User

LEMMA ControlStep == QueueOK /\ MirrorsOK /\ ControlOK /\ [Next]_vars => ControlOK'
<1> SUFFICES ASSUME QueueOK, MirrorsOK, ControlOK, [Next]_vars PROVE ControlOK'
  OBVIOUS
<1>1. CASE PadUnlink \/ BinRemove
  <2>1. UNCHANGED <<connected, mirrors, reader, item, loopVars, guiVars, current, closed>>
    BY <1>1 DEF PadUnlink, BinRemove, Changes
  <2>2. Known' = Known
    BY <2>1 DEF Known
  <2> QED  BY <2>1, <2>2 DEF loopVars, guiVars, ControlOK
<1>2. CASE UNCHANGED vars
  BY <1>2 DEF vars, readerVars, loopVars, guiVars, ControlOK, Known
<1> QED  BY <1>1, <1>2, ReaderKeepsControl, LoopKeepsControl, UserKeepsControl DEF Next

\* Controller::process and the converter: what is known and drawn are elements of
\* the pipeline and their pads.  A pad is never put down to the root, since the
\* server tells of all that is around it before it.
THEOREM TypeCorrect == Spec => []TypeOK
<1>1. QueueOK /\ FramesOK /\ MirrorsOK /\ ControlOK => TypeOK
  <2> SUFFICES ASSUME QueueOK, FramesOK, MirrorsOK, ControlOK PROVE TypeOK
    OBVIOUS
  <2>1. Known \subseteq Model /\ NoModel \notin Known
    BY KnownFacts
  <2>2. queue \in Seq(Model) /\ current \in Model /\ (current.bin = Root <=> current.no = 0)
    <3>1. queue \in Seq(Known)
      BY DEF ControlOK
    <3>2. queue \in Seq(Model)
      BY <2>1, <3>1, ListOfLarger
    <3> QED  BY <3>2 DEF ControlOK, Known
  <2>3. item \in Model \cup {NoModel} /\ taken \in Model \cup {NoModel}
    BY <2>1 DEF ControlOK
  <2> QED  BY <2>2, <2>3 DEF TypeOK, QueueOK, FramesOK, MirrorsOK, ControlOK, Tree
<1> QED  BY <1>1, QueueInit, QueueStep, FramesInit, FramesStep, MirrorsInit, MirrorsStep,
            ControlInit, ControlStep, PTL DEF Spec

(***************************************************************************)
(* PictureIsTrue.  The models that the frames on their way lead to agree   *)
(* with the pipeline: their peers are its links, but for the hidden ones.  *)
(* A link is reported with what is behind it, so what follows goes along a *)
(* chain of ghost pads, from the outermost bin inwards.                    *)
(***************************************************************************)

LEMMA InternalFacts ==
  ASSUME NEW p \in AllPads
  PROVE  /\ Internal(p).of = p.of /\ Internal(p).inner = ~p.inner
         /\ Internal(p).dir = (IF p.dir = "src" THEN "sink" ELSE "src")
         /\ Internal(Internal(p)) = p
<1>1. p = [of |-> p.of, dir |-> p.dir, inner |-> p.inner] /\ p.dir \in {"src", "sink"} /\ p.inner \in BOOLEAN
  BY PadFacts
<1>2. CASE p.dir = "src"
  BY <1>1, <1>2 DEF Internal
<1>3. CASE p.dir = "sink"
  BY <1>1, <1>3 DEF Internal
<1> QED  BY <1>1, <1>2, <1>3

LEMMA PadIsKnown ==
  ASSUME NEW p \in AllPads, ~p.inner
  PROVE  p \in Pads /\ p = PadOf(p.of, p.dir)
<1>1. p = [of |-> p.of, dir |-> p.dir, inner |-> p.inner] /\ p.of \in Elements
      /\ p.dir \in {"src", "sink"} /\ p.inner = FALSE
  BY PadFacts
<1> QED  BY <1>1 DEF Pads, PadOf

LEMMA LinkFacts ==
  ASSUME NEW l \in Links
  PROVE  /\ l = <<l[1], l[2]>> /\ l[1] \in AllPads /\ l[2] \in AllPads
         /\ l[1].dir = "src" /\ l[2].dir = "sink" /\ Level(l[1]) = Level(l[2]) /\ l[1].of # l[2].of
         /\ l[1].of \in Elements /\ l[2].of \in Elements
         /\ l[1].inner \in BOOLEAN /\ l[2].inner \in BOOLEAN
         /\ l[1].inner => ~l[2].inner /\ Parent[l[2].of] = l[1].of
         /\ l[2].inner => ~l[1].inner /\ Parent[l[1].of] = l[2].of
<1>1. /\ l = <<l[1], l[2]>> /\ l[1] \in AllPads /\ l[2] \in AllPads
      /\ l[1].dir = "src" /\ l[2].dir = "sink" /\ Level(l[1]) = Level(l[2]) /\ l[1].of # l[2].of
  BY DEF Links
<1>2. /\ l[1].of \in Elements /\ l[2].of \in Elements
      /\ l[1].inner \in BOOLEAN /\ l[2].inner \in BOOLEAN
  BY <1>1, PadFacts
<1>3. l[1].inner => ~l[2].inner /\ Parent[l[2].of] = l[1].of
  BY <1>1 DEF Level
<1>4. l[2].inner => ~l[1].inner /\ Parent[l[1].of] = l[2].of
  BY <1>1 DEF Level
<1> QED  BY <1>1, <1>2, <1>3, <1>4

\* How a link is drawn tells which it is.
LEMMA DrawnFacts ==
  ASSUME NEW l \in Links
  PROVE  /\ Drawn(l)[1] \in Pads /\ Drawn(l)[2] \in Pads /\ Drawn(l) = <<Drawn(l)[1], Drawn(l)[2]>>
         /\ Drawn(l)[1].of = l[1].of /\ Drawn(l)[2].of = l[2].of
         /\ ~l[1].inner => Drawn(l)[1] = l[1] /\ Drawn(l)[1].dir = "src"
         /\ l[1].inner => Drawn(l)[1] = Internal(l[1]) /\ l[1] = Internal(Drawn(l)[1])
                          /\ Drawn(l)[1].dir = "sink" /\ IsGhost(Drawn(l)[1])
         /\ ~l[2].inner => Drawn(l)[2] = l[2] /\ Drawn(l)[2].dir = "sink"
         /\ l[2].inner => Drawn(l)[2] = Internal(l[2]) /\ l[2] = Internal(Drawn(l)[2])
                          /\ Drawn(l)[2].dir = "src" /\ IsGhost(Drawn(l)[2])
<1>1. l[1] \in AllPads /\ l[2] \in AllPads /\ l[1].dir = "src" /\ l[2].dir = "sink"
      /\ l[1].inner \in BOOLEAN /\ l[2].inner \in BOOLEAN
  BY LinkFacts
<1>2. ASSUME NEW p \in AllPads, p.inner
      PROVE  /\ Internal(p) \in Pads /\ Internal(p).of = p.of /\ p = Internal(Internal(p)) /\ IsGhost(Internal(p))
             /\ p.dir = "src" => Internal(p).dir = "sink"
             /\ p.dir = "sink" => Internal(p).dir = "src"
  <2>1. p.of \in Elements /\ p.of \in Bins /\ p.dir \in {"src", "sink"}
    BY <1>2, PadFacts
  <2>2. /\ Internal(p).of = p.of /\ Internal(p).inner = ~p.inner
        /\ Internal(p).dir = (IF p.dir = "src" THEN "sink" ELSE "src")
        /\ Internal(Internal(p)) = p
    BY InternalFacts
  <2>3. p = [of |-> p.of, dir |-> p.dir, inner |-> TRUE]
    BY <1>2, PadFacts
  <2>4. Internal(p) = [of |-> p.of, dir |-> IF p.dir = "src" THEN "sink" ELSE "src", inner |-> FALSE]
    <3>1. \E b \in BOOLEAN : b = ~p.inner /\ Internal(p) = [p EXCEPT !.dir = IF p.dir = "src" THEN "sink" ELSE "src", !.inner = b]
      BY DEF Internal
    <3>2. Internal(p) = [p EXCEPT !.dir = IF p.dir = "src" THEN "sink" ELSE "src", !.inner = FALSE]
      BY <1>2, <3>1
    <3> QED  BY <2>3, <3>2
  <2>5. Internal(p) \in Pads
    BY <2>1, <2>4 DEF Pads
  <2> QED  BY <1>2, <2>1, <2>2, <2>5 DEF IsGhost
<1>3. Drawn(l) = <<Drawn(l)[1], Drawn(l)[2]>> /\ Drawn(l)[1] = (IF l[1].inner THEN Internal(l[1]) ELSE l[1])
      /\ Drawn(l)[2] = (IF l[2].inner THEN Internal(l[2]) ELSE l[2])
  BY DEF Drawn
<1>4. /\ ~l[1].inner => Drawn(l)[1] \in Pads /\ Drawn(l)[1] = l[1] /\ Drawn(l)[1].dir = "src"
      /\ ~l[2].inner => Drawn(l)[2] \in Pads /\ Drawn(l)[2] = l[2] /\ Drawn(l)[2].dir = "sink"
  BY <1>1, <1>3, PadIsKnown
<1>5. l[1].inner => /\ Drawn(l)[1] \in Pads /\ Drawn(l)[1] = Internal(l[1]) /\ l[1] = Internal(Drawn(l)[1])
                    /\ Drawn(l)[1].of = l[1].of /\ Drawn(l)[1].dir = "sink" /\ IsGhost(Drawn(l)[1])
  BY <1>1, <1>2, <1>3
<1>6. l[2].inner => /\ Drawn(l)[2] \in Pads /\ Drawn(l)[2] = Internal(l[2]) /\ l[2] = Internal(Drawn(l)[2])
                    /\ Drawn(l)[2].of = l[2].of /\ Drawn(l)[2].dir = "src" /\ IsGhost(Drawn(l)[2])
  BY <1>1, <1>2, <1>3
<1> QED  BY <1>1, <1>3, <1>4, <1>5, <1>6

LEMMA DrawnIsOne ==
  ASSUME NEW l \in Links, NEW k \in Links
  PROVE  /\ Drawn(l)[1] = Drawn(k)[1] => l[1] = k[1]
         /\ Drawn(l)[2] = Drawn(k)[2] => l[2] = k[2]
         /\ Drawn(l) = Drawn(k) => l = k
<1>1. Drawn(l)[1] = Drawn(k)[1] => l[1] = k[1]
  <2>1. l[1].inner \in BOOLEAN /\ k[1].inner \in BOOLEAN
    BY LinkFacts
  <2>2. (~l[1].inner => Drawn(l)[1] = l[1] /\ Drawn(l)[1].dir = "src")
         /\ (l[1].inner => l[1] = Internal(Drawn(l)[1]) /\ Drawn(l)[1].dir = "sink")
    BY DrawnFacts
  <2>3. (~k[1].inner => Drawn(k)[1] = k[1] /\ Drawn(k)[1].dir = "src")
         /\ (k[1].inner => k[1] = Internal(Drawn(k)[1]) /\ Drawn(k)[1].dir = "sink")
    BY DrawnFacts
  <2> QED  BY <2>1, <2>2, <2>3
<1>2. Drawn(l)[2] = Drawn(k)[2] => l[2] = k[2]
  <2>1. l[2].inner \in BOOLEAN /\ k[2].inner \in BOOLEAN
    BY LinkFacts
  <2>2. (~l[2].inner => Drawn(l)[2] = l[2] /\ Drawn(l)[2].dir = "sink")
         /\ (l[2].inner => l[2] = Internal(Drawn(l)[2]) /\ Drawn(l)[2].dir = "src")
    BY DrawnFacts
  <2>3. (~k[2].inner => Drawn(k)[2] = k[2] /\ Drawn(k)[2].dir = "sink")
         /\ (k[2].inner => k[2] = Internal(Drawn(k)[2]) /\ Drawn(k)[2].dir = "src")
    BY DrawnFacts
  <2> QED  BY <2>1, <2>2, <2>3
<1>3. l = <<l[1], l[2]>> /\ k = <<k[1], k[2]>>
  BY LinkFacts
<1> QED  BY <1>1, <1>2, <1>3

\* The links, of which no two are at the same pad.
Matching(links) ==
  /\ links \subseteq Links
  /\ \A l, k \in links : l[1] = k[1] \/ l[2] = k[2] => l = k

\* The report of a link and of what is behind it, even if the link itself comes
\* from an internal pad.
Chain(links, l) == SendLink(links)[<<Drawn(l)[1], l[2]>>]
Behind(links, l, k) == k \in links /\ ~l[2].inner /\ IsGhost(l[2]) /\ k[1] = Internal(l[2])

LEMMA BehindFacts ==
  ASSUME NEW links, Matching(links), NEW l \in links, NEW k, Behind(links, l, k)
  PROVE  /\ l \in Links /\ k \in Links /\ k[1].inner /\ ~k[2].inner /\ k[1].of = l[2].of
         /\ Parent[k[2].of] = l[2].of /\ Place(l[2].of) < Place(k[2].of)
         /\ Drawn(k) = <<l[2], k[2]>> /\ Drawn(l)[2] = l[2]
<1>1. l \in Links /\ k \in Links /\ ~l[2].inner /\ k[1] = Internal(l[2])
  BY DEF Matching, Behind
<1>2. l[2] \in AllPads /\ l[2].of \in Elements /\ k[2].of \in Elements
  BY <1>1, LinkFacts
<1>3. Internal(l[2]).of = l[2].of /\ Internal(l[2]).inner = ~l[2].inner /\ Internal(Internal(l[2])) = l[2]
  BY <1>2, InternalFacts
<1>4. k[1].inner /\ k[1].of = l[2].of /\ Internal(k[1]) = l[2]
  BY <1>1, <1>3
<1>5. ~k[2].inner /\ Parent[k[2].of] = l[2].of
  BY <1>1, <1>4, LinkFacts
<1>6. Drawn(k)[1] = l[2] /\ Drawn(k)[2] = k[2] /\ Drawn(k) = <<Drawn(k)[1], Drawn(k)[2]>> /\ Drawn(l)[2] = l[2]
  BY <1>1, <1>4, <1>5, DrawnFacts
<1>7. Place(l[2].of) < Place(k[2].of)
  BY <1>2, <1>5, OrderFacts
<1> QED  BY <1>1, <1>4, <1>5, <1>6, <1>7

LEMMA BehindPadIs ==
  ASSUME NEW links, Matching(links), NEW l \in links, ~l[2].inner
  PROVE  /\ \A q \in BehindPad(links, l[2]) : Behind(links, l, <<Internal(l[2]), q>>)
         /\ \A k : Behind(links, l, k) => k[2] \in BehindPad(links, l[2])
<1>1. l \in Links /\ l[2] \in AllPads /\ l[2].dir = "sink" /\ links \subseteq Links
  BY LinkFacts DEF Matching
<1>2. Internal(l[2]).dir = "src"
  BY <1>1, InternalFacts
<1>3. ASSUME NEW q \in BehindPad(links, l[2]) PROVE Behind(links, l, <<Internal(l[2]), q>>)
  <2>1. IsGhost(l[2]) /\ (<<Internal(l[2]), q>> \in links \/ <<q, Internal(l[2])>> \in links)
    BY DEF BehindPad, Peers
  <2>2. <<q, Internal(l[2])>> \notin links
    BY <1>1, <1>2 DEF Links
  <2> QED  BY <2>1, <2>2 DEF Behind
<1>4. ASSUME NEW k, Behind(links, l, k) PROVE k[2] \in BehindPad(links, l[2])
  <2>1. k \in links /\ k \in Links /\ IsGhost(l[2]) /\ k[1] = Internal(l[2])
    BY <1>1, <1>4 DEF Behind
  <2>2. k = <<k[1], k[2]>> /\ k[2] \in AllPads
    BY <2>1, LinkFacts
  <2>3. <<Internal(l[2]), k[2]>> \in links
    BY <2>1, <2>2
  <2>4. k[2] \in Peers(links, Internal(l[2]))
    BY <2>2, <2>3 DEF Peers
  <2> QED  BY <2>1, <2>4 DEF BehindPad
<1> QED  BY <1>3, <1>4

LEMMA ChainIs ==
  ASSUME NEW links, Matching(links), NEW l \in links
  PROVE  /\ (\A k : ~Behind(links, l, k)) => Chain(links, l) = <<Drawn(l)>>
         /\ \A k : Behind(links, l, k) => Chain(links, l) = Append(Chain(links, k), Drawn(l))
<1> DEFINE x == <<Drawn(l)[1], l[2]>>
<1>1. links \in SUBSET Links /\ l \in Links /\ Drawn(l)[1] \in Pads /\ l[2] \in AllPads /\ l[2].inner \in BOOLEAN
  BY DrawnFacts, LinkFacts DEF Matching
<1>2. x \in AllPads \X AllPads /\ x[1] = Drawn(l)[1] /\ x[2] = l[2] /\ ~x[1].inner
  BY <1>1 DEF AllPads, Pads
<1> HIDE DEF x
<1>3. /\ SendLink(links)[x] = IF x[1].inner THEN <<>>
                              ELSE IF x[2].inner THEN <<<<x[1], Internal(x[2])>>>>
                              ELSE IF BehindPad(links, x[2]) = {} THEN <<x>>
                              ELSE Append(SendLink(links)[Onward(links, x)], x)
  BY <1>1, <1>2, SendLinkIs
<1>4. Chain(links, l) = SendLink(links)[x]
  BY DEF Chain, x
<1>5. CASE l[2].inner
  <2>1. \A k : ~Behind(links, l, k)
    BY <1>5 DEF Behind
  <2>2. Drawn(l) = <<x[1], Internal(x[2])>>
    BY <1>1, <1>2, <1>5, DrawnFacts
  <2> QED  BY <1>2, <1>3, <1>4, <1>5, <2>1, <2>2
<1>6. CASE ~l[2].inner
  <2>1. Drawn(l) = x
    BY <1>1, <1>6, DrawnFacts DEF x
  <2>2. CASE BehindPad(links, l[2]) = {}
    <3>1. \A k : ~Behind(links, l, k)
      BY <1>6, <2>2, BehindPadIs
    <3> QED  BY <1>2, <1>3, <1>4, <1>6, <2>1, <2>2, <3>1
  <2>3. CASE BehindPad(links, l[2]) # {}
    <3> DEFINE q == CHOOSE q \in BehindPad(links, l[2]) : TRUE
               j == <<Internal(l[2]), q>>
    <3>1. q \in BehindPad(links, l[2]) /\ Onward(links, x) = <<l[2], q>>
      BY <1>2, <2>3 DEF Onward
    <3> HIDE DEF q
    <3>2. Behind(links, l, j)
      BY <1>6, <3>1, BehindPadIs
    <3>3. Drawn(j) = <<l[2], j[2]>> /\ j[2] = q
      BY <3>2, BehindFacts
    <3>4. Chain(links, j) = SendLink(links)[Onward(links, x)]
      BY <3>1, <3>3 DEF Chain
    <3>5. ASSUME NEW k, Behind(links, l, k) PROVE k = j
      BY <3>2, <3>5 DEF Behind, Matching
    <3>6. Chain(links, l) = Append(Chain(links, j), Drawn(l))
      BY <1>2, <1>3, <1>4, <1>6, <2>1, <2>3, <3>4
    <3> QED  BY <3>2, <3>5, <3>6
  <2> QED  BY <2>2, <2>3
<1> QED  BY <1>1, <1>5, <1>6

\* Whether something feeds a bin depends on the links into it and into the bins
\* around it.
LEMMA FedIs ==
  ASSUME NEW links, links \subseteq Links
  PROVE  \A b \in Bins : /\ Fed(links)[b] \in BOOLEAN
                         /\ Fed(links)[b] <=> \E l \in links : /\ l[2] = PadOf(b, "sink")
                                                               /\ l[1].inner => Fed(links)[Parent[b]]
<1> DEFINE X == Bins
           Y == BOOLEAN
           Fit(f) == f = [b \in X |-> \E l \in links : l[2] = PadOf(b, "sink") /\ (l[1].inner => f[Parent[b]])]
           base == [x \in X |-> FALSE]
           step == [z \in X \X Y |-> \E l \in links : l[2] = PadOf(z[1], "sink") /\ (l[1].inner => z[2])]
           rank == [x \in X |-> IF x = Root THEN 0 ELSE Place(x)]
           B == {Root}
           N == Len(Order)
<1>1. base \in [X -> Y] /\ step \in [X \X Y -> Y]
  OBVIOUS
<1>2. X \subseteq Elements \cup {Root} /\ Root \in X /\ \A e \in Elements : Parent[e] \in X
  BY OrderFacts DEF Bins
<1>3. N \in Nat /\ rank \in [X -> 0..N] /\ B \in SUBSET X
  <2>1. \A x \in X : (IF x = Root THEN 0 ELSE Place(x)) \in 0..N
    BY <1>2, OrderFacts
  <2> QED  BY <1>2, <2>1, OrderFacts
<1>4. \A x \in X \ B : Parent[x] \in X /\ rank[Parent[x]] < rank[x]
  <2> TAKE x \in X \ B
  <2>1. x \in Elements /\ x # Root /\ Parent[x] \in X /\ Parent[x] \in {Root} \cup Elements
    BY <1>2, OrderFacts
  <2>2. rank[x] = Place(x) /\ rank[Parent[x]] = IF Parent[x] = Root THEN 0 ELSE Place(Parent[x])
    BY <2>1
  <2> QED  BY <2>1, <2>2, OrderFacts
<1>5. Chained(X, Y, N, rank, Parent, B, base, step)
  BY <1>1, <1>3, <1>4 DEF Chained
<1>6. Root \notin Elements /\ \A l \in links : l[2] # PadOf(Root, "sink")
  <2>1. \A l \in Links : l[2].of \in Elements
    BY LinkFacts
  <2>2. \A l \in links : l[2].of \in Elements
    BY <2>1
  <2> QED  BY <2>2, OrderFacts DEF PadOf
<1> HIDE DEF base, step, X, N, B, rank
<1>7. PICK f \in [X -> Y] : \A x \in X : f[x] = IF x \in B THEN base[x] ELSE step[<<x, f[Parent[x]]>>]
  BY <1>5, ChainRecursion
<1>8. ASSUME NEW x \in X
      PROVE  f[x] = \E l \in links : l[2] = PadOf(x, "sink") /\ (l[1].inner => f[Parent[x]])
  <2>1. CASE x = Root
    <3>1. f[x] = FALSE
      BY <1>7, <2>1 DEF base, B
    <3> QED  BY <1>6, <2>1, <3>1
  <2>2. CASE x # Root
    <3>1. f[Parent[x]] \in BOOLEAN
      BY <1>4, <1>7, <2>2 DEF B, Y
    <3>2. f[x] = step[<<x, f[Parent[x]]>>]
      BY <1>7, <2>2 DEF B
    <3>3. <<x, f[Parent[x]]>> \in X \X Y
      BY <3>1
    <3>4. step[<<x, f[Parent[x]]>>] = \E l \in links : l[2] = PadOf(x, "sink") /\ (l[1].inner => f[Parent[x]])
      BY <3>3 DEF step
    <3> QED  BY <3>2, <3>4
  <2> QED  BY <2>1, <2>2
<1>9. Fit(f)
  BY <1>7, <1>8
<1>10. Fed(links) = CHOOSE g : Fit(g)
  BY DEF Fed, X
<1> HIDE DEF Fit
<1>11. Fit(Fed(links))
  BY <1>9, <1>10
<1> DEFINE g == Fed(links)
<1>12. g = [b \in X |-> \E l \in links : l[2] = PadOf(b, "sink") /\ (l[1].inner => g[Parent[b]])]
  BY <1>11 DEF Fit
<1> HIDE DEF g
<1>13. \A b \in X : g[b] \in BOOLEAN
  BY <1>12
<1>14. \A b \in X : g[b] = \E l \in links : l[2] = PadOf(b, "sink") /\ (l[1].inner => g[Parent[b]])
  BY <1>12, Zenon
<1> QED  BY <1>13, <1>14 DEF X, g

LEMMA FedShrinks ==
  ASSUME NEW links, links \subseteq Links, NEW sub \in SUBSET links, NEW b \in Bins, Fed(sub)[b]
  PROVE  Fed(links)[b]
<1> DEFINE rank(x) == IF x = Root THEN 0 ELSE Place(x)
           T == {n \in Nat : \A x \in Bins : rank(x) <= n /\ Fed(sub)[x] => Fed(links)[x]}
<1>1. Bins \subseteq Elements \cup {Root} /\ Root \notin Elements /\ \A e \in Elements : Parent[e] \in Bins
  BY OrderFacts DEF Bins
<1>2. \A x \in Bins : rank(x) \in Nat
  BY <1>1, OrderFacts
<1>3. ASSUME NEW x \in Bins, Fed(sub)[x]
      PROVE  /\ x # Root /\ Parent[x] \in Bins /\ rank(Parent[x]) < rank(x)
             /\ (Fed(sub)[Parent[x]] => Fed(links)[Parent[x]]) => Fed(links)[x]
  <2>1. PICK l \in sub : l[2] = PadOf(x, "sink") /\ (l[1].inner => Fed(sub)[Parent[x]])
    BY <1>3, FedIs
  <2>2. l \in links /\ l \in Links
    OBVIOUS
  <2>3. l[2].of = x /\ l[2].of \in Elements
    BY <2>1, <2>2, LinkFacts DEF PadOf
  <2>4. x # Root /\ Parent[x] \in Bins /\ Parent[x] \in {Root} \cup Elements
    BY <1>1, <2>3, OrderFacts
  <2>5. rank(Parent[x]) < rank(x)
    BY <2>3, <2>4, OrderFacts
  <2>6. (Fed(sub)[Parent[x]] => Fed(links)[Parent[x]]) => Fed(links)[x]
    <3>1. Fed(links)[x] <=> \E k \in links : k[2] = PadOf(x, "sink") /\ (k[1].inner => Fed(links)[Parent[x]])
      BY FedIs
    <3> QED  BY <2>1, <2>2, <3>1
  <2> QED  BY <2>4, <2>5, <2>6
<1> HIDE DEF rank
<1>4. 0 \in T
  <2> SUFFICES ASSUME NEW x \in Bins, rank(x) <= 0, Fed(sub)[x] PROVE FALSE
    OBVIOUS
  <2>1. Parent[x] \in Bins /\ rank(Parent[x]) < rank(x)
    BY <1>3
  <2> QED  BY <1>2, <2>1
<1>5. ASSUME NEW n \in Nat, n \in T PROVE n + 1 \in T
  <2> SUFFICES ASSUME NEW x \in Bins, rank(x) <= n + 1, Fed(sub)[x] PROVE Fed(links)[x]
    OBVIOUS
  <2>1. Parent[x] \in Bins /\ rank(Parent[x]) < rank(x)
    BY <1>3
  <2>2. rank(Parent[x]) <= n
    BY <1>2, <2>1
  <2>3. Fed(sub)[Parent[x]] => Fed(links)[Parent[x]]
    BY <1>5, <2>1, <2>2
  <2> QED  BY <1>3, <2>3
<1>6. Nat \subseteq T
  <2> HIDE DEF T
  <2> QED  BY <1>4, <1>5, SetInduction
<1>7. rank(b) \in T
  BY <1>2, <1>6
<1> QED  BY <1>2, <1>7

LEMMA ChainInduction ==
  ASSUME NEW links, Matching(links), NEW S,
         \A l \in links : (\A k : Behind(links, l, k) => k \in S) => l \in S
  PROVE  links \subseteq S
<1> DEFINE T == {n \in Nat : \A l \in links : Len(Order) - Place(l[2].of) < n => l \in S}
<1>1. Len(Order) \in Nat /\ \A l \in links : Place(l[2].of) \in 1..Len(Order)
  <2>1. \A l \in links : l[2].of \in Elements
    BY LinkFacts DEF Matching
  <2> QED  BY <2>1, OrderFacts
<1>2. 0 \in T
  BY <1>1
<1>3. ASSUME NEW n \in Nat, n \in T PROVE n + 1 \in T
  <2> SUFFICES ASSUME NEW l \in links, Len(Order) - Place(l[2].of) < n + 1 PROVE l \in S
    OBVIOUS
  <2>1. ASSUME NEW k, Behind(links, l, k) PROVE k \in S
    <3>1. k \in links /\ Place(l[2].of) < Place(k[2].of)
      BY <2>1, BehindFacts DEF Behind
    <3>2. Len(Order) - Place(k[2].of) < n
      BY <1>1, <3>1
    <3> QED  BY <1>3, <3>1, <3>2
  <2> QED  BY <2>1
<1>4. Nat \subseteq T
  <2> HIDE DEF T
  <2> QED  BY <1>2, <1>3, SetInduction
<1>5. Len(Order) + 1 \in T
  BY <1>1, <1>4
<1> QED  BY <1>1, <1>5

LEMMA AppendedItems ==
  ASSUME NEW s, IsSequence(s), NEW x
  PROVE  /\ IsSequence(Append(s, x)) /\ Len(s) \in Nat /\ Len(Append(s, x)) = Len(s) + 1
         /\ \A i \in 1..Len(s) : Append(s, x)[i] = s[i]
         /\ Append(s, x)[Len(s) + 1] = x
<1>1. PICK S : s \in Seq(S)
  BY DEF IsSequence
<1>2. s \in Seq(S \cup {x}) /\ x \in S \cup {x}
  BY <1>1, ListOfLarger
<1> QED  BY <1>2, AppendIsSequence, LenIsNatural

Item(s, x) == \E i \in 1..Len(s) : s[i] = x

LEMMA ChainItems ==
  ASSUME NEW links, Matching(links), NEW l \in links
  PROVE  /\ IsSequence(Chain(links, l)) /\ Item(Chain(links, l), Drawn(l))
         /\ \A k, x : Behind(links, l, k) => (Item(Chain(links, l), x) <=> Item(Chain(links, k), x) \/ x = Drawn(l))
         /\ \A x : (\A k : ~Behind(links, l, k)) => (Item(Chain(links, l), x) <=> x = Drawn(l))
<1>1. links \in SUBSET Links /\ \A k \in links : <<Drawn(k)[1], k[2]>> \in AllPads \X AllPads
  BY DrawnFacts, LinkFacts DEF Matching, AllPads
<1>2. \A k \in links : IsSequence(Chain(links, k))
  BY <1>1, SendLinkIsSequence DEF Chain
<1>3. ASSUME NEW k, Behind(links, l, k), NEW x
      PROVE  Item(Chain(links, l), x) <=> Item(Chain(links, k), x) \/ x = Drawn(l)
  <2> DEFINE s == Chain(links, k)
             t == Chain(links, l)
             d == Drawn(l)
  <2>1. t = Append(s, d) /\ IsSequence(s)
    BY <1>2, <1>3, ChainIs DEF Behind
  <2> HIDE DEF s, t, d
  <2>2. /\ Len(s) \in Nat /\ Len(t) = Len(s) + 1
        /\ \A i \in 1..Len(s) : t[i] = s[i]
        /\ t[Len(s) + 1] = d
    BY <2>1, AppendedItems
  <2>3. Item(t, x) <=> Item(s, x) \/ x = d
    BY <2>2 DEF Item
  <2> QED  BY <2>3 DEF s, t, d
<1>4. ASSUME \A k : ~Behind(links, l, k), NEW x PROVE Item(Chain(links, l), x) <=> x = Drawn(l)
  <2>1. Chain(links, l) = <<Drawn(l)>>
    BY <1>4, ChainIs
  <2>2. \A y : Item(<<y>>, x) <=> x = y
    BY DEF Item
  <2> QED  BY <2>1, <2>2
<1>5. Item(Chain(links, l), Drawn(l))
  <2>1. CASE \E k : Behind(links, l, k)
    BY <1>3, <2>1
  <2>2. CASE \A k : ~Behind(links, l, k)
    BY <1>4, <2>2
  <2> QED  BY <2>1, <2>2
<1> QED  BY <1>2, <1>3, <1>4, <1>5

\* What is around what is around something is around it.  Of what is in one bin,
\* at most one is around something.
LEMMA AboveIsTransitive ==
  ASSUME NEW d \in Elements, NEW c \in Above[d]
  PROVE  Above[c] \subseteq Above[d] /\ c \in Elements \cup {Root}
<1> DEFINE T == {n \in Nat : \A x \in Elements : Place(x) <= n =>
                   \A y \in Above[x] : Above[y] \subseteq Above[x] /\ y \in Elements \cup {Root}}
<1>1. \A x \in Elements : Place(x) \in 1..Len(Order)
  BY OrderFacts
<1>2. 0 \in T
  BY <1>1
<1>3. ASSUME NEW n \in Nat, n \in T PROVE n + 1 \in T
  <2> SUFFICES ASSUME NEW x \in Elements, Place(x) <= n + 1, NEW y \in Above[x]
               PROVE  Above[y] \subseteq Above[x] /\ y \in Elements \cup {Root}
    OBVIOUS
  <2>1. Above[x] = {x} \cup Above[Parent[x]] /\ Above[Root] = {Root}
    BY AboveFacts
  <2>2. CASE y = x
    BY <2>2
  <2>3. CASE y # x
    <3>1. y \in Above[Parent[x]]
      BY <2>1, <2>3
    <3>2. CASE Parent[x] = Root
      BY <2>1, <3>1, <3>2
    <3>3. CASE Parent[x] # Root
      <4>1. Parent[x] \in Elements
        BY <3>3, OrderFacts
      <4>2. Place(Parent[x]) < Place(x)
        BY <4>1, OrderFacts
      <4>3. Place(Parent[x]) <= n
        BY <1>1, <4>1, <4>2
      <4>4. Above[y] \subseteq Above[Parent[x]] /\ y \in Elements \cup {Root}
        BY <1>3, <3>1, <4>1, <4>3
      <4> QED  BY <2>1, <4>4
    <3> QED  BY <3>2, <3>3
  <2> QED  BY <2>2, <2>3
<1>4. Nat \subseteq T
  <2> HIDE DEF T
  <2> QED  BY <1>2, <1>3, SetInduction
<1>5. Place(d) \in T
  BY <1>1, <1>4
<1> QED  BY <1>1, <1>5

\* Nothing is around itself but itself: what is around something comes before it.
LEMMA AboveIsBefore ==
  ASSUME NEW d \in Elements, NEW c \in Above[d], c # d, c # Root
  PROVE  c \in Elements /\ Place(c) < Place(d)
<1> DEFINE T == {n \in Nat : \A x \in Elements : Place(x) <= n =>
                   \A y \in Above[x] \ {x, Root} : y \in Elements /\ Place(y) < Place(x)}
<1>1. \A x \in Elements : Place(x) \in 1..Len(Order)
  BY OrderFacts
<1>2. 0 \in T
  BY <1>1
<1>3. ASSUME NEW n \in Nat, n \in T PROVE n + 1 \in T
  <2> SUFFICES ASSUME NEW x \in Elements, Place(x) <= n + 1, NEW y \in Above[x], y # x, y # Root
               PROVE  y \in Elements /\ Place(y) < Place(x)
    OBVIOUS
  <2>1. Above[x] = {x} \cup Above[Parent[x]] /\ Above[Root] = {Root}
    BY AboveFacts
  <2>2. Parent[x] \in Elements /\ y \in Above[Parent[x]]
    BY <2>1, OrderFacts
  <2>3. Place(Parent[x]) < Place(x)
    BY <2>2, OrderFacts
  <2>4. CASE y = Parent[x]
    BY <2>2, <2>3, <2>4
  <2>5. CASE y # Parent[x]
    <3>1. Place(Parent[x]) <= n
      BY <1>1, <2>2, <2>3
    <3>2. y \in Elements /\ Place(y) < Place(Parent[x])
      BY <1>3, <2>2, <2>5, <3>1
    <3> QED  BY <1>1, <2>2, <2>3, <3>2
  <2> QED  BY <2>4, <2>5
<1>4. Nat \subseteq T
  <2> HIDE DEF T
  <2> QED  BY <1>2, <1>3, SetInduction
<1>5. Place(d) \in T
  BY <1>1, <1>4
<1> QED  BY <1>1, <1>5

\* Of what is in one bin, at most one is around something.
LEMMA SiblingsAreApart ==
  ASSUME NEW d \in Elements, NEW a \in Elements, NEW b \in Elements,
         a \in Above[d], b \in Above[d], Parent[a] = Parent[b]
  PROVE  a = b
<1> DEFINE T == {n \in Nat : \A x \in Elements : Place(x) <= n /\ a \in Above[x] /\ b \in Above[x] => a = b}
<1>1. \A x \in Elements : Place(x) \in 1..Len(Order)
  BY OrderFacts
<1>2. 0 \in T
  BY <1>1
<1>3. ASSUME NEW n \in Nat, n \in T PROVE n + 1 \in T
  <2> SUFFICES ASSUME NEW x \in Elements, Place(x) <= n + 1, a \in Above[x], b \in Above[x], a # b
               PROVE  FALSE
    OBVIOUS
  <2>1. Above[x] = {x} \cup Above[Parent[x]] /\ Above[Root] = {Root} /\ Root \notin Elements
    BY AboveFacts, OrderFacts
  <2>2. ASSUME NEW p \in Elements, NEW q \in Elements, p = x, q \in Above[Parent[x]], Parent[p] = Parent[q]
        PROVE  FALSE
    <3>1. Parent[x] \in Elements /\ Place(Parent[x]) < Place(x)
      BY <2>1, <2>2, OrderFacts
    <3>2. q # x
      <4>1. q = Parent[x] \/ Place(q) < Place(Parent[x])
        BY <2>2, <2>1, <3>1, AboveIsBefore
      <4> QED  BY <1>1, <3>1, <4>1
    <3>3. Parent[q] = Parent[x] /\ Parent[q] \in Above[q]
      <4>1. Above[q] = {q} \cup Above[Parent[q]] /\ Above[Parent[x]] = {Parent[x]} \cup Above[Parent[Parent[x]]]
        BY <3>1, AboveFacts
      <4> QED  BY <2>2, <4>1
    <3>4. q = Parent[x] \/ Place(q) < Place(Parent[x])
      BY <2>1, <2>2, <3>1, AboveIsBefore
    <3>5. Place(Parent[q]) < Place(q)
      BY <3>1, <3>3, OrderFacts
    <3> QED  BY <1>1, <3>1, <3>3, <3>4, <3>5
  <2>3. a # x /\ b # x
    BY <2>1, <2>2
  <2>4. a \in Above[Parent[x]] /\ b \in Above[Parent[x]] /\ Parent[x] \in Elements
    BY <2>1, <2>3, OrderFacts
  <2>5. Place(Parent[x]) < Place(x)
    BY <2>4, OrderFacts
  <2>6. Place(Parent[x]) <= n
    BY <1>1, <2>4, <2>5
  <2> QED  BY <1>3, <2>4, <2>6
<1>4. Nat \subseteq T
  <2> HIDE DEF T
  <2> QED  BY <1>2, <1>3, SetInduction
<1>5. Place(d) \in T
  BY <1>1, <1>4
<1> QED  BY <1>1, <1>5

\* The reports that come with a link are of links behind it, inside the bin at
\* whose pad it ends.
LEMMA ChainIsInside ==
  ASSUME NEW links, Matching(links), NEW l \in links, NEW x, Item(Chain(links, l), x)
  PROVE  \E k \in links : /\ x = Drawn(k)
                          /\ k = l \/ /\ k[1].inner /\ ~k[2].inner
                                      /\ l[2].of \in Above[k[1].of] /\ l[2].of \in Above[k[2].of]
<1> DEFINE Inside(j, k) == k = j \/ (k[1].inner /\ ~k[2].inner
                                     /\ j[2].of \in Above[k[1].of] /\ j[2].of \in Above[k[2].of])
           S == {j \in links : \A y : Item(Chain(links, j), y) => \E k \in links : y = Drawn(k) /\ Inside(j, k)}
<1>1. links \subseteq Links
  BY DEF Matching
<1>2. ASSUME NEW j \in links, \A k : Behind(links, j, k) => k \in S,
             NEW y, Item(Chain(links, j), y)
      PROVE  \E k \in links : y = Drawn(k) /\ Inside(j, k)
  <2>1. CASE y = Drawn(j)
    BY <2>1
  <2>2. CASE y # Drawn(j)
    <3>1. PICK i : Behind(links, j, i) /\ Item(Chain(links, i), y)
      BY <1>2, <2>2, ChainItems
    <3>2. i \in links /\ i \in S
      BY <1>2, <3>1 DEF Behind
    <3>3. PICK k \in links : y = Drawn(k) /\ Inside(i, k)
      BY <3>1, <3>2
    <3>4. /\ i[1].inner /\ ~i[2].inner /\ i[1].of = j[2].of /\ Parent[i[2].of] = j[2].of
          /\ i[2].of \in Elements /\ j[2].of \in Elements
      BY <1>1, <3>1, <3>2, BehindFacts, LinkFacts
    <3>5. \A e \in Elements : e \in Above[e] /\ Above[e] = {e} \cup Above[Parent[e]]
      BY AboveFacts
    <3>6. j[2].of \in Above[i[1].of] /\ j[2].of \in Above[i[2].of]
      BY <3>4, <3>5
    <3>7. ASSUME NEW e \in Elements, i[2].of \in Above[e] PROVE j[2].of \in Above[e]
      BY <3>4, <3>6, <3>7, AboveIsTransitive
    <3>8. k[1].of \in Elements /\ k[2].of \in Elements
      BY <1>1, LinkFacts
    <3> QED  BY <3>3, <3>4, <3>6, <3>7, <3>8
  <2> QED  BY <2>1, <2>2
<1>3. \A j \in links : (\A k : Behind(links, j, k) => k \in S) => j \in S
  BY <1>2
<1> HIDE DEF S
<1>4. links \subseteq S
  BY <1>3, ChainInduction
<1> QED  BY <1>4 DEF S

\* Whether a link ends at a sink of a bin that nothing feeds.
Sunk(sub, l) == ~l[2].inner /\ IsGhost(l[2]) => ~Fed(sub)[l[2].of]

\* Where nothing feeds the first ghost pad, nothing feeds what is behind it.
LEMMA ChainIsUnfed ==
  ASSUME NEW links, Matching(links), NEW sub \in SUBSET links, NEW l \in links, Sunk(sub, l),
         NEW x, Item(Chain(links, l), x)
  PROVE  \E k \in links : /\ x = Drawn(k) /\ Sunk(sub, k)
                          /\ k = l \/ (k[1].inner /\ ~Fed(sub)[k[1].of])
<1> DEFINE Dry(j, k) == Sunk(sub, k) /\ (k = j \/ (k[1].inner /\ ~Fed(sub)[k[1].of]))
           S == {j \in links : Sunk(sub, j) =>
                   \A y : Item(Chain(links, j), y) => \E k \in links : y = Drawn(k) /\ Dry(j, k)}
<1>1. links \subseteq Links /\ sub \subseteq Links
  BY DEF Matching
<1>2. ASSUME NEW j \in links, \A k : Behind(links, j, k) => k \in S, Sunk(sub, j),
             NEW y, Item(Chain(links, j), y)
      PROVE  \E k \in links : y = Drawn(k) /\ Dry(j, k)
  <2>1. CASE y = Drawn(j)
    BY <1>2, <2>1
  <2>2. CASE y # Drawn(j)
    <3>1. PICK i : Behind(links, j, i) /\ Item(Chain(links, i), y)
      BY <1>2, <2>2, ChainItems
    <3>2. i \in links /\ i \in S /\ ~j[2].inner /\ IsGhost(j[2])
      BY <1>2, <3>1 DEF Behind
    <3>3. /\ i \in Links /\ i[1].inner /\ ~i[2].inner /\ i[1].of = j[2].of /\ Parent[i[2].of] = j[2].of
          /\ i[2] \in AllPads /\ i[2].dir = "sink"
      BY <3>1, BehindFacts, LinkFacts
    <3>4. ~Fed(sub)[i[1].of]
      BY <1>2, <3>2, <3>3 DEF Sunk
    <3>5. Sunk(sub, i)
      <4> SUFFICES ASSUME IsGhost(i[2]), Fed(sub)[i[2].of] PROVE FALSE
        BY DEF Sunk
      <4>1. i[2].of \in Bins /\ i[2] = PadOf(i[2].of, "sink")
        BY <3>3, PadIsKnown DEF IsGhost
      <4>2. PICK k \in sub : k[2] = i[2] /\ (k[1].inner => Fed(sub)[Parent[i[2].of]])
        BY <1>1, <4>1, FedIs
      <4>3. k = i
        BY <3>2, <4>2 DEF Matching
      <4> QED  BY <3>3, <3>4, <4>2, <4>3
    <3>6. PICK k \in links : y = Drawn(k) /\ Dry(i, k)
      BY <3>1, <3>2, <3>5
    <3> QED  BY <3>3, <3>4, <3>6
  <2> QED  BY <2>1, <2>2
<1>3. \A j \in links : (\A k : Behind(links, j, k) => k \in S) => j \in S
  BY <1>2
<1> HIDE DEF S
<1>4. links \subseteq S
  BY <1>3, ChainInduction
<1> QED  BY <1>4 DEF S

\* The report of a link brings the one behind it along.
LEMMA ChainGoesOn ==
  ASSUME NEW links, Matching(links), NEW l \in links, NEW j \in links, Item(Chain(links, l), Drawn(j)),
         NEW k, Behind(links, j, k)
  PROVE  Item(Chain(links, l), Drawn(k))
<1> DEFINE S == {i \in links : Item(Chain(links, i), Drawn(j)) => Item(Chain(links, i), Drawn(k))}
<1>1. links \subseteq Links /\ k \in links
  BY DEF Matching, Behind
<1>2. ASSUME NEW i \in links, \A n : Behind(links, i, n) => n \in S, Item(Chain(links, i), Drawn(j))
      PROVE  Item(Chain(links, i), Drawn(k))
  <2>1. CASE i = j
    <3>1. Item(Chain(links, k), Drawn(k))
      BY <1>1, ChainItems
    <3> QED  BY <2>1, <3>1, ChainItems
  <2>2. CASE i # j
    <3>1. Drawn(i) # Drawn(j)
      BY <1>1, <2>2, DrawnIsOne
    <3>2. PICK n : Behind(links, i, n) /\ Item(Chain(links, n), Drawn(j))
      BY <1>2, <3>1, ChainItems
    <3>3. Item(Chain(links, n), Drawn(k))
      BY <1>2, <3>2
    <3> QED  BY <3>2, <3>3, ChainItems
  <2> QED  BY <2>1, <2>2
<1>3. \A i \in links : (\A n : Behind(links, i, n) => n \in S) => i \in S
  BY <1>2
<1> HIDE DEF S
<1>4. links \subseteq S
  BY <1>3, ChainInduction
<1> QED  BY <1>4 DEF S

\* A link is reported with that of some source pad, unless it is behind a ghost
\* pad that nothing feeds.
LEMMA FedIsReported ==
  ASSUME NEW links, Matching(links), NEW l \in links, l[1].inner => Fed(links)[l[1].of]
  PROVE  \E j \in links : ~j[1].inner /\ Item(Chain(links, j), Drawn(l))
<1> DEFINE Reported(k) == \E j \in links : ~j[1].inner /\ Item(Chain(links, j), Drawn(k))
           T == {n \in Nat : \A k \in links : k[1].inner /\ Fed(links)[k[1].of] /\ Place(k[1].of) <= n => Reported(k)}
<1>1. links \subseteq Links
  BY DEF Matching
<1>2. \A k \in links : k \in Links /\ k[1].of \in Elements /\ Place(k[1].of) \in 1..Len(Order)
  <2>1. \A k \in Links : k[1].of \in Elements
    BY LinkFacts
  <2> QED  BY <1>1, <2>1, OrderFacts
<1>3. \A k \in links : ~k[1].inner => Reported(k)
  BY ChainItems
<1> HIDE DEF Reported
<1>4. 0 \in T
  BY <1>2
<1>5. ASSUME NEW n \in Nat, n \in T PROVE n + 1 \in T
  <2> SUFFICES ASSUME NEW k \in links, k[1].inner, Fed(links)[k[1].of], Place(k[1].of) <= n + 1
               PROVE  Reported(k)
    OBVIOUS
  <2> DEFINE b == k[1].of
  <2>1. k[1] \in AllPads /\ k[1].dir = "src" /\ b \in Bins /\ b \in Elements
    BY <1>2, LinkFacts, PadFacts
  <2>2. PICK i \in links : i[2] = PadOf(b, "sink") /\ (i[1].inner => Fed(links)[Parent[b]])
    BY <1>1, <2>1, FedIs
  <2>3. Reported(i)
    <3>1. CASE ~i[1].inner
      BY <1>3, <3>1
    <3>2. CASE i[1].inner
      <4>1. i[1].of = Parent[b] /\ i[1].of \in Elements
        BY <1>2, <2>2, <3>2, LinkFacts DEF PadOf
      <4>2. Place(i[1].of) < Place(b)
        BY <2>1, <4>1, OrderFacts
      <4>3. Place(i[1].of) <= n
        BY <1>2, <4>2
      <4> QED  BY <1>5, <2>2, <3>2, <4>1, <4>3
    <3> QED  BY <1>2, <3>1, <3>2, LinkFacts
  <2>4. PICK j \in links : ~j[1].inner /\ Item(Chain(links, j), Drawn(i))
    BY <2>3 DEF Reported
  <2>5. Behind(links, i, k)
    <3>1. k[1] = [of |-> b, dir |-> "src", inner |-> k[1].inner] /\ k[1].inner \in BOOLEAN
      BY <2>1, PadFacts
    <3>2. ~i[2].inner /\ IsGhost(i[2])
      BY <2>1, <2>2 DEF PadOf, IsGhost
    <3>3. Internal(k[1]) = i[2] /\ Internal(Internal(k[1])) = k[1]
      <4>1. /\ Internal(k[1]).of = b /\ Internal(k[1]).inner = ~k[1].inner /\ Internal(k[1]).dir = "sink"
            /\ Internal(Internal(k[1])) = k[1]
        BY <2>1, InternalFacts
      <4>2. Drawn(k)[1] = Internal(k[1]) /\ Drawn(k)[1] \in Pads
        BY <1>2, DrawnFacts
      <4>3. Internal(k[1]) = PadOf(b, "sink")
        BY <4>1, <4>2 DEF Pads, PadOf
      <4> QED  BY <2>2, <4>1, <4>3
    <3> QED  BY <3>2, <3>3 DEF Behind
  <2>6. Item(Chain(links, j), Drawn(k))
    BY <2>4, <2>5, ChainGoesOn
  <2> QED  BY <2>4, <2>6 DEF Reported
<1>6. Nat \subseteq T
  <2> HIDE DEF T
  <2> QED  BY <1>4, <1>5, SetInduction
<1>7. Reported(l)
  <2>1. CASE ~l[1].inner
    BY <1>3, <2>1
  <2>2. CASE l[1].inner
    <3>1. Place(l[1].of) \in T
      BY <1>2, <1>6
    <3> QED  BY <1>2, <2>2, <3>1
  <2> QED  BY <1>2, <2>1, <2>2, LinkFacts
<1> QED  BY <1>7 DEF Reported

\* A pad of what went with an element is looked for in the bin the element was in.
LEMMA LocatedOutside ==
  ASSUME NEW m, NEW C, Tree(C), NEW e \in C, C \subseteq m.shown \cup {e}, e \notin m.shown,
         NEW p \in Pads, e \in Above[p.of]
  PROVE  Located(m, p) = [p EXCEPT !.of = Parent[e]]
<1>1. PICK place : /\ \A q : Located(m, q) = [q EXCEPT !.of = place[q.of]]
                   /\ place[Root] = Root
                   /\ \A d \in Elements : place[d] = IF place[Parent[d]] = Parent[d] /\ d \in m.shown
                                                     THEN d ELSE place[Parent[d]]
  BY PlaceIs
<1>2. C \subseteq Elements /\ \A d \in C : Parent[d] \in C \cup {Root}
  BY DEF Tree
<1>3. Root \notin Elements /\ \A d \in Elements : Place(d) \in 1..Len(Order)
  BY OrderFacts
<1> DEFINE U == {n \in Nat : \A d \in C : Place(d) <= n /\ d # e /\ Place(d) < Place(e) => place[d] = d}
<1>4. 0 \in U
  BY <1>2, <1>3
<1>5. ASSUME NEW n \in Nat, n \in U PROVE n + 1 \in U
  <2> SUFFICES ASSUME NEW d \in C, Place(d) <= n + 1, d # e, Place(d) < Place(e) PROVE place[d] = d
    OBVIOUS
  <2>1. place[Parent[d]] = Parent[d]
    <3>1. CASE Parent[d] = Root
      BY <1>1, <3>1
    <3>2. CASE Parent[d] # Root
      <4>1. Parent[d] \in C /\ Parent[d] \in Elements /\ d \in Elements /\ e \in Elements
        BY <1>2, <3>2
      <4>2. Place(Parent[d]) < Place(d)
        BY <4>1, OrderFacts
      <4>3. Place(Parent[d]) <= n /\ Place(Parent[d]) < Place(e) /\ Parent[d] # e
        BY <1>3, <4>1, <4>2
      <4> QED  BY <1>5, <4>1, <4>3
    <3> QED  BY <3>1, <3>2
  <2> QED  BY <1>1, <1>2, <2>1
<1>6. Nat \subseteq U
  <2> HIDE DEF U
  <2> QED  BY <1>4, <1>5, SetInduction
<1>7. place[Parent[e]] = Parent[e]
  <2>1. CASE Parent[e] = Root
    BY <1>1, <2>1
  <2>2. CASE Parent[e] # Root
    <3>1. Parent[e] \in C /\ Parent[e] \in Elements /\ e \in Elements
      BY <1>2, <2>2
    <3>2. Place(Parent[e]) < Place(e) /\ Place(Parent[e]) \in U
      BY <1>3, <1>6, <3>1, OrderFacts
    <3> QED  BY <1>3, <3>1, <3>2
  <2> QED  BY <2>1, <2>2
<1>8. place[e] = Parent[e]
  BY <1>1, <1>2, <1>7
<1> DEFINE T == {n \in Nat : \A d \in Elements : Place(d) <= n /\ e \in Above[d] => place[d] = Parent[e]}
<1>9. 0 \in T
  BY <1>3
<1>10. ASSUME NEW n \in Nat, n \in T PROVE n + 1 \in T
  <2> SUFFICES ASSUME NEW d \in Elements, Place(d) <= n + 1, e \in Above[d], d # e PROVE place[d] = Parent[e]
    BY <1>8
  <2>1. e \in Above[Parent[d]] /\ e \in Elements
    BY <1>2, AboveFacts
  <2>2. Parent[d] \in Elements
    BY <1>3, <2>1, AboveFacts, OrderFacts
  <2>3. Place(Parent[d]) < Place(d)
    BY <2>2, OrderFacts
  <2>4. Place(Parent[d]) <= n
    BY <1>3, <2>2, <2>3
  <2>5. place[Parent[d]] = Parent[e]
    BY <1>10, <2>1, <2>2, <2>4
  <2>6. Parent[d] # Parent[e]
    <3>1. CASE Parent[e] \in Elements
      <4>1. Place(Parent[e]) < Place(e) /\ (e = Parent[d] \/ Place(e) < Place(Parent[d]))
        BY <1>3, <2>1, <2>2, <3>1, OrderFacts, AboveIsBefore
      <4> QED  BY <1>3, <2>1, <2>2, <3>1, <4>1
    <3>2. CASE Parent[e] \notin Elements
      BY <2>2, <3>2
    <3> QED  BY <3>1, <3>2
  <2> QED  BY <1>1, <2>5, <2>6
<1>11. Nat \subseteq T
  <2> HIDE DEF T
  <2> QED  BY <1>9, <1>10, SetInduction
<1>12. p.of \in Elements /\ p = [of |-> p.of, dir |-> p.dir, inner |-> p.inner]
  BY DEF Pads
<1>13. place[p.of] = Parent[e]
  BY <1>3, <1>11, <1>12
<1> QED  BY <1>1, <1>12, <1>13

LEMMA LocatedSame == ASSUME NEW m, NEW n, m.shown = n.shown, NEW p PROVE Located(m, p) = Located(n, p)
BY DEF Located

LEMMA LocatedDir == ASSUME NEW m, NEW p \in Pads PROVE Located(m, p).dir = p.dir
<1>1. PICK place : /\ \A q : Located(m, q) = [q EXCEPT !.of = place[q.of]]
                   /\ place[Root] = Root
                   /\ \A d \in Elements : place[d] = IF place[Parent[d]] = Parent[d] /\ d \in m.shown
                                                     THEN d ELSE place[Parent[d]]
  BY PlaceIs
<1>2. p = [of |-> p.of, dir |-> p.dir, inner |-> p.inner]
  BY DEF Pads
<1> QED  BY <1>1, <1>2

\* The models that come of a list of frames, one after the other.
Trace(v, m, s) == v[0] = m /\ \A j \in Nat : j + 1 <= Len(s) => v[j + 1] = Process(v[j], s[j + 1])

LEMMA RemoveIs ==
  ASSUME NEW m, MirrorOK(m), NEW s, NEW k, NEW n, n = RemoveLink(m, s, k)
  PROVE  /\ MirrorOK(n) /\ n.shown = m.shown /\ DOMAIN n.peer = DOMAIN m.peer
         /\ \A p \in DOMAIN m.peer : n.peer[p] = IF p \in {s, k} THEN NoPad ELSE m.peer[p]
<1> DEFINE Q == [p \in DOMAIN m.peer |-> IF p \in {s, k} THEN NoPad ELSE m.peer[p]]
           T == m.shown
           P == m.peer
<1>1. m = [shown |-> T, peer |-> P] /\ T \subseteq Elements /\ DOMAIN P \subseteq Pads
  BY DEF MirrorOK
<1>2. n = [m EXCEPT !.peer = Q]
  BY DEF RemoveLink
<1>3. DOMAIN Q = DOMAIN P /\ \A p \in DOMAIN P : Q[p] = IF p \in {s, k} THEN NoPad ELSE P[p]
  OBVIOUS
<1> HIDE DEF Q, T, P
<1>4. n = [shown |-> T, peer |-> Q]
  BY <1>1, <1>2
<1>5. n.shown = T /\ n.peer = Q
  BY <1>4
<1> QED  BY <1>1, <1>3, <1>4, <1>5 DEF MirrorOK, T, P

LEMMA AddIs ==
  ASSUME NEW m, MirrorOK(m), NEW s, NEW k, NEW n, n = AddLink(m, s, k)
  PROVE  /\ MirrorOK(n) /\ n.shown = m.shown /\ DOMAIN n.peer = DOMAIN m.peer
         /\ \A p \in DOMAIN m.peer : \/ n.peer[p] = m.peer[p] /\ (s \in DOMAIN m.peer /\ k \in DOMAIN m.peer => p # s)
                                     \/ p = s /\ k \in DOMAIN m.peer /\ n.peer[p] = k
                                     \/ p = k /\ k.dir = "sink" /\ ~IsGhost(k) /\ s \in DOMAIN m.peer /\ n.peer[p] = s
<1> DEFINE T == m.shown
           P == m.peer
<1>1. m = [shown |-> T, peer |-> P] /\ T \subseteq Elements /\ DOMAIN P \subseteq Pads
  BY DEF MirrorOK
<1>2. ASSUME NEW Q, n = [shown |-> T, peer |-> Q], DOMAIN Q = DOMAIN P
      PROVE  MirrorOK(n) /\ n.shown = m.shown /\ DOMAIN n.peer = DOMAIN m.peer /\ n.peer = Q
  <2>1. n.shown = T /\ n.peer = Q
    BY <1>2
  <2> QED  BY <1>1, <1>2, <2>1 DEF MirrorOK
<1>3. CASE ~({s, k} \subseteq DOMAIN P)
  <2>1. n = m
    BY <1>3 DEF AddLink
  <2> QED  BY <1>3, <2>1
<1>4. CASE {s, k} \subseteq DOMAIN P /\ k.dir = "sink" /\ ~IsGhost(k)
  <2> DEFINE Q == [P EXCEPT ![s] = k, ![k] = s]
  <2>1. n = [m EXCEPT !.peer[s] = k, !.peer[k] = s]
    BY <1>4 DEF AddLink
  <2>2. n = [shown |-> T, peer |-> Q]
    <3> HIDE DEF T, P
    <3> QED  BY <1>1, <2>1
  <2>3. DOMAIN Q = DOMAIN P
    OBVIOUS
  <2>4. \A p \in DOMAIN P : Q[p] = IF p = k THEN s ELSE IF p = s THEN k ELSE P[p]
    BY <1>4
  <2> HIDE DEF Q
  <2>5. MirrorOK(n) /\ n.shown = m.shown /\ DOMAIN n.peer = DOMAIN m.peer /\ n.peer = Q
    BY <1>2, <2>2, <2>3
  <2> QED  BY <1>4, <2>4, <2>5
<1>5. CASE {s, k} \subseteq DOMAIN P /\ ~(k.dir = "sink" /\ ~IsGhost(k))
  <2> DEFINE Q == [P EXCEPT ![s] = k]
  <2>1. n = [m EXCEPT !.peer[s] = k]
    BY <1>5 DEF AddLink
  <2>2. n = [shown |-> T, peer |-> Q]
    <3> HIDE DEF T, P
    <3> QED  BY <1>1, <2>1
  <2>3. DOMAIN Q = DOMAIN P
    OBVIOUS
  <2>4. \A p \in DOMAIN P : Q[p] = IF p = s THEN k ELSE P[p]
    BY <1>5
  <2> HIDE DEF Q
  <2>5. MirrorOK(n) /\ n.shown = m.shown /\ DOMAIN n.peer = DOMAIN m.peer /\ n.peer = Q
    BY <1>2, <2>2, <2>3
  <2> QED  BY <1>5, <2>4, <2>5
<1> QED  BY <1>3, <1>4, <1>5

\* Pads that a list of reports is about, as the debugger finds them.
Hit(m, s, i, p) == \E j \in 1..i : p = Located(m, s[j].src) \/ p = Located(m, s[j].sink)

LEMMA UnlinkSteps ==
  ASSUME NEW m, MirrorOK(m), NEW s, IsSequence(s), \A i \in 1..Len(s) : s[i].what = "unlinked",
         NEW v, Trace(v, m, s), NEW i \in 0..Len(s)
  PROVE  /\ MirrorOK(v[i]) /\ v[i].shown = m.shown /\ DOMAIN v[i].peer = DOMAIN m.peer
         /\ \A p \in DOMAIN m.peer : v[i].peer[p] = IF Hit(m, s, i, p) THEN NoPad ELSE m.peer[p]
<1> DEFINE Good(n) == /\ MirrorOK(v[n]) /\ v[n].shown = m.shown /\ DOMAIN v[n].peer = DOMAIN m.peer
                      /\ \A p \in DOMAIN m.peer : v[n].peer[p] = IF Hit(m, s, n, p) THEN NoPad ELSE m.peer[p]
           T == {n \in Nat : n <= Len(s) => Good(n)}
<1>1. Len(s) \in Nat
  BY LenIsNatural
<1>2. 0 \in T
  <2>1. v[0] = m /\ \A p : ~Hit(m, s, 0, p)
    BY DEF Trace, Hit
  <2> QED  BY <2>1
<1>3. ASSUME NEW n \in Nat, n \in T PROVE n + 1 \in T
  <2> SUFFICES ASSUME n + 1 <= Len(s) PROVE Good(n + 1)
    OBVIOUS
  <2>1. Good(n)
    BY <1>1, <1>3
  <2> DEFINE x == v[n]
             y == v[n + 1]
             f == s[n + 1]
             a == Located(m, f.src)
             c == Located(m, f.sink)
  <2>2. y = Process(x, f) /\ f.what = "unlinked"
    BY <1>1 DEF Trace
  <2> HIDE DEF x, y, f
  <2>3. MirrorOK(x) /\ x.shown = m.shown /\ DOMAIN x.peer = DOMAIN m.peer
    BY <2>1 DEF x
  <2>4. y = RemoveLink(x, Located(x, f.src), Located(x, f.sink))
    BY <2>2 DEF Process
  <2>5. y = RemoveLink(x, a, c)
    BY <2>3, <2>4, LocatedSame
  <2> HIDE DEF a, c
  <2>6. /\ MirrorOK(y) /\ y.shown = x.shown /\ DOMAIN y.peer = DOMAIN x.peer
        /\ \A p \in DOMAIN x.peer : y.peer[p] = IF p \in {a, c} THEN NoPad ELSE x.peer[p]
    BY <2>3, <2>5, RemoveIs
  <2>7. \A p : Hit(m, s, n + 1, p) <=> Hit(m, s, n, p) \/ p = a \/ p = c
    <3>1. \A j : j \in 1..(n + 1) <=> j \in 1..n \/ j = n + 1
      OBVIOUS
    <3> QED  BY <3>1 DEF Hit, a, c, f
  <2>8. \A p \in DOMAIN m.peer : x.peer[p] = IF Hit(m, s, n, p) THEN NoPad ELSE m.peer[p]
    BY <2>1 DEF x
  <2>9. \A p \in DOMAIN m.peer : y.peer[p] = IF Hit(m, s, n + 1, p) THEN NoPad ELSE m.peer[p]
    BY <2>3, <2>6, <2>7, <2>8
  <2> QED  BY <2>3, <2>6, <2>9 DEF y
<1>4. Nat \subseteq T
  <2> HIDE DEF T
  <2> QED  BY <1>2, <1>3, SetInduction
<1>5. i \in T /\ i <= Len(s)
  BY <1>1, <1>4
<1> QED  BY <1>5

\* Hidden, of a pipeline.
HiddenIn(l, E, links, gone) ==
  \/ l[1].inner /\ ~Fed(links)[l[1].of]
  \/ IsGhost(l[1]) /\ \E k \in gone : k[2] = Internal(l[1])
  \/ \E k \in gone : /\ ~k[1].inner /\ Level(k[1]) = Drawn(l)[1].of
                     /\ (IF Drawn(l)[1].dir = "src" THEN k[1] ELSE k[2]).of \notin E

Pipeline(E, links, gone) ==
  /\ Tree(E) /\ Matching(links) /\ gone \subseteq Links
  /\ \A l \in links : l[1].of \in E /\ l[2].of \in E

\* The pads whose peer may be drawn.
Draws(p) == p.dir = "src" \/ IsGhost(p)

\* A peer is that of a link; what it leads to is shown, unless the link was undone
\* or what it comes from is not shown.
Fits(m, gone) ==
  \A s \in DOMAIN m.peer : Draws(s) /\ m.peer[s] # NoPad =>
    /\ m.peer[s] \in DOMAIN m.peer
    /\ \E l \in Links : /\ Drawn(l) = <<s, m.peer[s]>>
                        /\ \/ l \in gone \/ l[2].inner \/ l[2].of \in m.shown
                           \/ (~l[1].inner /\ l[1].of \notin m.shown)

\* The models agree with the pipeline.
Shows(m, E, links, gone) ==
  /\ E \subseteq m.shown /\ \A e \in m.shown : Parent[e] \in E \cup {Root} => e \in E
  /\ \A p \in Pads : p.of \in E => p \in DOMAIN m.peer
  /\ \A s \in DOMAIN m.peer : s.of \in E /\ Draws(s) /\ m.peer[s] # NoPad =>
       \E l \in links \cup {k \in gone : k[1].inner} : Drawn(l) = <<s, m.peer[s]>>
  /\ \A l \in links : m.peer[Drawn(l)[1]] = Drawn(l)[2] \/ HiddenIn(l, E, links, gone)

LEMMA EdgeOf ==
  ASSUME NEW m, MirrorOK(m), NEW b \in Bins, NEW g \in ToDotData(m, b).edges
  PROVE  /\ g = <<g[1], m.peer[g[1]]>> /\ g[1] \in DOMAIN m.peer /\ g[1] \in Pads /\ Draws(g[1])
         /\ m.peer[g[1]] # NoPad
         /\ \/ g[1].dir = "sink" /\ g[1].of = b
            \/ g[1].dir = "src" /\ g[1].of \in Children(b) \cap m.shown
<1> DEFINE top == {p \in PadsOf(m, b) : p.dir = "sink"}
           low == {p \in UNION {PadsOf(m, e) : e \in Children(b) \cap m.shown} : p.dir = "src"}
<1>1. g \in EdgesFrom(m, top) \cup EdgesFrom(m, low)
  BY DEF ToDotData, DumpTopPads, DumpElement
<1>2. \A from : EdgesFrom(m, from) = {<<p, m.peer[p]>> : p \in {q \in from : m.peer[q] # NoPad}}
  BY DEF EdgesFrom
<1> HIDE DEF top, low
<1>3. PICK p \in top \cup low : g = <<p, m.peer[p]>> /\ m.peer[p] # NoPad
  BY <1>1, <1>2
<1>4. \/ p \in PadsOf(m, b) /\ p.dir = "sink"
      \/ p.dir = "src" /\ \E e \in Children(b) \cap m.shown : p \in PadsOf(m, e)
  BY <1>3 DEF top, low
<1>5. p \in DOMAIN m.peer /\ ((p.dir = "sink" /\ p.of = b) \/ (p.dir = "src" /\ p.of \in Children(b) \cap m.shown))
  BY <1>4 DEF PadsOf
<1>6. p \in Pads /\ ~p.inner
  BY <1>5 DEF MirrorOK, Pads
<1>7. Draws(p)
  BY <1>5, <1>6 DEF Draws, IsGhost
<1> QED  BY <1>3, <1>5, <1>6, <1>7

LEMMA NodesOf ==
  ASSUME NEW m, MirrorOK(m), NEW b
  PROVE  ToDotData(m, b).nodes = {p \in DOMAIN m.peer : p.of = b \/ p.of \in Children(b) \cap m.shown}
<1>1. ToDotData(m, b).nodes = PadsOf(m, b) \cup UNION {PadsOf(m, e) : e \in Children(b) \cap m.shown}
  BY DEF ToDotData, DumpTopPads, DumpElement
<1> QED  BY <1>1 DEF PadsOf

LEMMA FitsPage ==
  ASSUME NEW m, MirrorOK(m), NEW gone, Fits(m, gone), NEW b \in Bins, NEW g \in ToDotData(m, b).edges
  PROVE  {g[1], g[2]} \subseteq ToDotData(m, b).nodes \/ \E l \in gone : Drawn(l) = g
<1> DEFINE s == g[1]
           k == m.peer[s]
<1>1. /\ g = <<s, k>> /\ s \in DOMAIN m.peer /\ s \in Pads /\ Draws(s) /\ k # NoPad
      /\ \/ s.dir = "sink" /\ s.of = b
         \/ s.dir = "src" /\ s.of \in Children(b) \cap m.shown
  BY EdgeOf
<1> HIDE DEF s
<1>2. PICK l \in Links : /\ Drawn(l) = <<s, k>>
                         /\ \/ l \in gone \/ l[2].inner \/ l[2].of \in m.shown
                            \/ (~l[1].inner /\ l[1].of \notin m.shown)
  BY <1>1 DEF Fits
<1>3. k \in DOMAIN m.peer
  BY <1>1 DEF Fits
<1> HIDE DEF k
<1>4. /\ l[1].inner \in BOOLEAN /\ l[2].inner \in BOOLEAN /\ Level(l[1]) = Level(l[2])
      /\ l[1].of \in Elements /\ l[2].of \in Elements
      /\ l[1].inner => ~l[2].inner /\ Parent[l[2].of] = l[1].of
      /\ l[2].inner => ~l[1].inner /\ Parent[l[1].of] = l[2].of
  BY LinkFacts
<1>5. /\ s.of = l[1].of /\ k.of = l[2].of
      /\ (~l[1].inner => s.dir = "src") /\ (l[1].inner => s.dir = "sink")
  BY <1>2, DrawnFacts
<1>6. SUFFICES ASSUME l \notin gone PROVE {s, k} \subseteq ToDotData(m, b).nodes
  BY <1>1, <1>2
<1>7. s.of = b \/ s.of \in Children(b) \cap m.shown
  BY <1>1
<1>8. k.of = b \/ k.of \in Children(b) \cap m.shown
  <2>1. CASE s.dir = "sink" /\ s.of = b
    <3>1. l[1].inner
      BY <1>4, <1>5, <2>1
    <3>2. l[2].of \in m.shown /\ Parent[l[2].of] = b
      BY <1>2, <1>4, <1>5, <1>6, <2>1, <3>1
    <3> QED  BY <1>4, <1>5, <3>2 DEF Children
  <2>2. CASE s.dir = "src" /\ s.of \in Children(b) \cap m.shown
    <3>1. ~l[1].inner /\ Parent[l[1].of] = b /\ l[1].of \in m.shown
      BY <1>4, <1>5, <2>2 DEF Children
    <3>2. CASE l[2].inner
      BY <1>4, <1>5, <3>1, <3>2
    <3>3. CASE ~l[2].inner
      <4>1. l[2].of \in m.shown /\ Parent[l[2].of] = b
        BY <1>2, <1>4, <1>6, <3>1, <3>3 DEF Level
      <4> QED  BY <1>4, <1>5, <4>1 DEF Children
    <3> QED  BY <1>4, <3>2, <3>3
  <2> QED  BY <1>1, <2>1, <2>2
<1> QED  BY <1>1, <1>3, <1>7, <1>8, NodesOf

\* What is drawn of models that agree with the pipeline.
LEMMA ShowsPage ==
  ASSUME NEW m, MirrorOK(m), NEW E, NEW links, NEW gone, Pipeline(E, links, gone), Shows(m, E, links, gone),
         NEW b \in Bins, b \in E \cup {Root}
  PROVE  LET there == TruePicture(E, links, b)
             drawn == ToDotData(m, b)
         IN /\ drawn.clusters = there.clusters /\ drawn.nodes = there.nodes
            /\ \A l \in links : Level(l[1]) = b => Drawn(l) \in drawn.edges \/ HiddenIn(l, E, links, gone)
            /\ \A g \in drawn.edges \ there.edges : \E l \in gone : l[1].inner /\ Drawn(l) = g
<1>1. E \subseteq Elements /\ links \subseteq Links /\ \A l \in links : l[1].of \in E /\ l[2].of \in E
  BY DEF Pipeline, Tree, Matching
<1>2. Children(b) \cap m.shown = Children(b) \cap E
  BY DEF Shows, Children
<1>3. ToDotData(m, b).clusters = TruePicture(E, links, b).clusters
  BY <1>2 DEF ToDotData, TruePicture
<1>4. ToDotData(m, b).nodes = TruePicture(E, links, b).nodes
  <2>1. \A p \in Pads : p.of = b \/ p.of \in Children(b) \cap E => p \in DOMAIN m.peer
    <3>1. \A p \in Pads : p.of # Root
      BY OrderFacts DEF Pads
    <3> QED  BY <3>1 DEF Shows
  <2>2. DOMAIN m.peer \subseteq Pads
    BY DEF MirrorOK
  <2>3. TruePicture(E, links, b).nodes = {p \in Pads : p.of = b \/ p.of \in Children(b) \cap E}
    BY DEF TruePicture
  <2> QED  BY <1>2, <2>1, <2>2, <2>3, NodesOf
<1>5. ASSUME NEW l \in links, Level(l[1]) = b
      PROVE  Drawn(l) \in ToDotData(m, b).edges \/ HiddenIn(l, E, links, gone)
  <2> DEFINE s == Drawn(l)[1]
  <2>1. SUFFICES ASSUME m.peer[s] = Drawn(l)[2] PROVE Drawn(l) \in ToDotData(m, b).edges
    BY DEF Shows
  <2>2. /\ s \in Pads /\ Drawn(l)[2] \in Pads /\ Drawn(l) = <<s, m.peer[s]>> /\ s.of = l[1].of
        /\ ~l[1].inner => s.dir = "src"
        /\ l[1].inner => s.dir = "sink"
        /\ l[1].inner \in BOOLEAN /\ s.of \in E
    BY <1>1, <2>1, DrawnFacts, LinkFacts
  <2> HIDE DEF s
  <2>3. s \in DOMAIN m.peer
    BY <2>2 DEF Shows
  <2>4. m.peer[s] # NoPad
    <3>1. NoPad \notin Pads
      BY OrderFacts DEF NoPad, Pads
    <3>2. m.peer[s] \in Pads
      BY <2>1, <2>2
    <3> QED  BY <3>1, <3>2
  <2>5. CASE l[1].inner
    <3>1. s \in {p \in PadsOf(m, b) : p.dir = "sink"}
      BY <1>5, <2>2, <2>3, <2>5 DEF PadsOf, Level
    <3>2. Drawn(l) \in EdgesFrom(m, {p \in PadsOf(m, b) : p.dir = "sink"})
      BY <2>2, <2>4, <3>1 DEF EdgesFrom
    <3> QED  BY <3>2 DEF ToDotData, DumpTopPads
  <2>6. CASE ~l[1].inner
    <3> DEFINE low == {p \in UNION {PadsOf(m, e) : e \in Children(b) \cap m.shown} : p.dir = "src"}
    <3>1. s.of \in Children(b) \cap m.shown
      BY <1>1, <1>2, <1>5, <2>2, <2>6 DEF Level, Children
    <3>2. s \in low
      BY <2>2, <2>3, <2>6, <3>1 DEF PadsOf
    <3>3. Drawn(l) \in EdgesFrom(m, low)
      BY <2>2, <2>4, <3>2 DEF EdgesFrom
    <3> QED  BY <3>3 DEF ToDotData, DumpElement
  <2> QED  BY <2>2, <2>5, <2>6
<1>6. ASSUME NEW g \in ToDotData(m, b).edges, g \notin TruePicture(E, links, b).edges
      PROVE  \E l \in gone : l[1].inner /\ Drawn(l) = g
  <2> DEFINE s == g[1]
  <2>1. /\ g = <<s, m.peer[s]>> /\ s \in DOMAIN m.peer /\ s \in Pads /\ Draws(s) /\ m.peer[s] # NoPad
        /\ \/ s.dir = "sink" /\ s.of = b
           \/ s.dir = "src" /\ s.of \in Children(b) \cap m.shown
    BY EdgeOf
  <2> HIDE DEF s
  <2>2. s.of \in E
    <3>1. s.of # Root
      BY <2>1, OrderFacts DEF Pads
    <3> QED  BY <1>2, <2>1, <3>1
  <2>3. PICK l \in links \cup {k \in gone : k[1].inner} : Drawn(l) = <<s, m.peer[s]>>
    BY <2>1, <2>2 DEF Shows
  <2>4. SUFFICES ASSUME l \in links PROVE FALSE
    BY <2>1, <2>3
  <2>5. l \in Links /\ l[1].inner \in BOOLEAN
    BY <1>1, <2>4, LinkFacts
  <2>6. /\ s.of = l[1].of /\ (~l[1].inner => s.dir = "src") /\ (l[1].inner => s.dir = "sink")
    BY <2>3, <2>5, DrawnFacts
  <2>7. Level(l[1]) = b
    BY <2>1, <2>5, <2>6 DEF Level, Children
  <2>8. Drawn(l) \in TruePicture(E, links, b).edges
    BY <2>4, <2>7 DEF TruePicture
  <2> QED  BY <1>6, <2>1, <2>3, <2>8
<1> QED  BY <1>3, <1>4, <1>5, <1>6

LEMMA HiddenGrows ==
  ASSUME NEW E, NEW E2 \in SUBSET E, NEW links, links \subseteq Links, NEW sub \in SUBSET links,
         NEW gone, NEW more, gone \subseteq more, NEW l \in links, HiddenIn(l, E, links, gone)
  PROVE  HiddenIn(l, E2, sub, more)
<1>1. l \in Links /\ l[1] \in AllPads
  BY LinkFacts
<1>2. CASE l[1].inner /\ ~Fed(links)[l[1].of]
  <2>1. l[1].of \in Bins
    BY <1>1, <1>2, PadFacts
  <2>2. ~Fed(sub)[l[1].of]
    BY <1>2, <2>1, FedShrinks
  <2> QED  BY <1>2, <2>2 DEF HiddenIn
<1>3. CASE ~(l[1].inner /\ ~Fed(links)[l[1].of])
  BY <1>3 DEF HiddenIn
<1> QED  BY <1>2, <1>3

\* The models after peers were cleared and elements were left out.
LEMMA ClearedShows ==
  ASSUME NEW m, NEW n, NEW E, NEW links, NEW gone, Shows(m, E, links, gone), links \subseteq Links,
         NEW E2 \in SUBSET E, NEW sub \in SUBSET links, NEW more, gone \subseteq more,
         E2 \subseteq n.shown, \A e \in n.shown : Parent[e] \in E2 \cup {Root} => e \in E2,
         DOMAIN n.peer = DOMAIN m.peer,
         \A p \in DOMAIN m.peer : n.peer[p] = m.peer[p] \/ n.peer[p] = NoPad,
         \A l \in links \ sub : \/ l \in more /\ l[1].inner
                                \/ l[1].of \notin E2
                                \/ n.peer[Drawn(l)[1]] = NoPad,
         \A l \in sub : n.peer[Drawn(l)[1]] = m.peer[Drawn(l)[1]] \/ HiddenIn(l, E2, sub, more)
  PROVE  Shows(n, E2, sub, more)
<1>1. \A p \in Pads : p.of \in E2 => p \in DOMAIN n.peer
  BY DEF Shows
<1>2. ASSUME NEW s \in DOMAIN n.peer, s.of \in E2, Draws(s), n.peer[s] # NoPad
      PROVE  \E l \in sub \cup {k \in more : k[1].inner} : Drawn(l) = <<s, n.peer[s]>>
  <2>1. n.peer[s] = m.peer[s] /\ s \in DOMAIN m.peer /\ s.of \in E /\ m.peer[s] # NoPad
    BY <1>2
  <2>2. PICK l \in links \cup {k \in gone : k[1].inner} : Drawn(l) = <<s, m.peer[s]>>
    BY <1>2, <2>1 DEF Shows
  <2>3. CASE l \in gone /\ l[1].inner
    BY <2>1, <2>2, <2>3
  <2>4. CASE l \in links
    <3>1. l \in Links /\ Drawn(l)[1] = s /\ l[1].of = s.of
      BY <2>2, <2>4, DrawnFacts
    <3>2. CASE l \in sub
      BY <2>1, <2>2, <3>2
    <3>3. CASE l \notin sub
      <4>1. l \in more /\ l[1].inner
        BY <1>2, <2>4, <3>1, <3>3
      <4> QED  BY <2>1, <2>2, <4>1
    <3> QED  BY <3>2, <3>3
  <2> QED  BY <2>2, <2>3, <2>4
<1>3. ASSUME NEW l \in sub PROVE n.peer[Drawn(l)[1]] = Drawn(l)[2] \/ HiddenIn(l, E2, sub, more)
  <2>1. m.peer[Drawn(l)[1]] = Drawn(l)[2] \/ HiddenIn(l, E, links, gone)
    BY DEF Shows
  <2>2. HiddenIn(l, E, links, gone) => HiddenIn(l, E2, sub, more)
    BY HiddenGrows
  <2> QED  BY <2>1, <2>2
<1> QED  BY <1>1, <1>2, <1>3 DEF Shows

LEMMA FitsCleared ==
  ASSUME NEW m, NEW n, NEW gone, Fits(m, gone), NEW more, gone \subseteq more,
         n.shown = m.shown, DOMAIN n.peer = DOMAIN m.peer,
         \A p \in DOMAIN m.peer : n.peer[p] = m.peer[p] \/ n.peer[p] = NoPad
  PROVE  Fits(n, more)
<1> SUFFICES ASSUME NEW s \in DOMAIN n.peer, Draws(s), n.peer[s] # NoPad
             PROVE  /\ n.peer[s] \in DOMAIN n.peer
                    /\ \E l \in Links : /\ Drawn(l) = <<s, n.peer[s]>>
                                        /\ \/ l \in more \/ l[2].inner \/ l[2].of \in n.shown
                                           \/ (~l[1].inner /\ l[1].of \notin n.shown)
  BY DEF Fits
<1>1. n.peer[s] = m.peer[s] /\ s \in DOMAIN m.peer /\ m.peer[s] # NoPad
  OBVIOUS
<1>2. /\ m.peer[s] \in DOMAIN m.peer
      /\ \E l \in Links : /\ Drawn(l) = <<s, m.peer[s]>>
                          /\ \/ l \in gone \/ l[2].inner \/ l[2].of \in m.shown
                             \/ (~l[1].inner /\ l[1].of \notin m.shown)
  BY <1>1 DEF Fits
<1>3. PICK l \in Links : /\ Drawn(l) = <<s, m.peer[s]>>
                         /\ \/ l \in gone \/ l[2].inner \/ l[2].of \in m.shown
                            \/ (~l[1].inner /\ l[1].of \notin m.shown)
  BY <1>2
<1> QED  BY <1>1, <1>2, <1>3

\* A frame tells of a pair of pads; a report has the pair.
Tells(s, a, c) == \E i \in 1..Len(s) : s[i].src = a /\ s[i].sink = c
Lists(r, a, c) == \E i \in 1..Len(r) : r[i][1] = a /\ r[i][2] = c

\* The frames of a link are the reports of it and of what is behind it.
LEMMA LinkFramesAre ==
  ASSUME NEW links, Matching(links), NEW l \in links, NEW what
  PROVE  LET s == LinkFrames(links, what, l)
         IN /\ IsSequence(s) /\ \A i \in 1..Len(s) : s[i].what = what
            /\ l[1].inner => \A i \in 1..Len(s) : FALSE
            /\ ~l[1].inner => \A a, c : Tells(s, a, c) <=> Lists(Chain(links, l), a, c)
<1> DEFINE r == SendLink(links)[l]
           F(i) == [what |-> what, src |-> r[i][1], sink |-> r[i][2]]
           s == LinkFrames(links, what, l)
<1>1. links \in SUBSET Links /\ l \in Links /\ l \in AllPads \X AllPads /\ l = <<l[1], l[2]>>
  BY LinkFacts DEF Matching
<1>2. IsSequence(r)
  BY <1>1, SendLinkIsSequence
<1>3. s = [i \in DOMAIN r |-> F(i)]
  BY DEF LinkFrames
<1>4. DOMAIN r = 1..Len(r) /\ Len(r) \in Nat
  BY <1>2 DEF IsSequence
<1>5. DOMAIN s = 1..Len(r) /\ \A i \in 1..Len(r) : s[i] = F(i)
  BY <1>3, <1>4
<1>6. s = [i \in 1..Len(r) |-> s[i]]
  BY <1>3, <1>4, <1>5
<1>7. l[1].inner => r = <<>>
  BY <1>1, SendLinkIs
<1>8. ~l[1].inner => r = Chain(links, l)
  BY <1>1, DrawnFacts DEF Chain
<1> HIDE DEF r, s
<1>9. IsSequence(s) /\ Len(s) = Len(r)
  BY <1>4, <1>5, <1>6, ListIsSequence
<1>10. \A i \in 1..Len(s) : s[i].what = what /\ s[i].src = r[i][1] /\ s[i].sink = r[i][2]
  BY <1>5, <1>9
<1>11. l[1].inner => \A i \in 1..Len(s) : FALSE
  BY <1>7, <1>9
<1>12. \A a, c : Tells(s, a, c) <=> Lists(r, a, c)
  BY ONLY <1>9, <1>10 DEF Tells, Lists
<1> QED  BY <1>8, <1>9, <1>10, <1>11, <1>12 DEF s

\* A pad whose peer is cleared when a link is undone: what was drawn from it is
\* undone with the link, or is hidden from then on.
LEMMA UnlinkHides ==
  ASSUME NEW links, Matching(links), NEW l \in links, ~l[1].inner,
         NEW sub \in SUBSET links, l \notin sub, NEW gone, l \in gone, NEW E,
         NEW x, Item(Chain(links, l), x), NEW j \in sub, Drawn(j)[1] = x[1] \/ Drawn(j)[1] = x[2]
  PROVE  HiddenIn(j, E, sub, gone)
<1>1. links \subseteq Links /\ sub \subseteq Links /\ j \in Links /\ l \in Links
  BY DEF Matching
<1>2. Sunk(sub, l)
  <2> SUFFICES ASSUME ~l[2].inner, IsGhost(l[2]), Fed(sub)[l[2].of] PROVE FALSE
    BY DEF Sunk
  <2>1. l[2].of \in Bins /\ l[2] = PadOf(l[2].of, "sink")
    BY <1>1, LinkFacts, PadIsKnown DEF IsGhost
  <2>2. PICK k \in sub : k[2] = l[2]
    BY <1>1, <2>1, FedIs
  <2> QED  BY <2>2 DEF Matching
<1>3. PICK k \in links : x = Drawn(k) /\ Sunk(sub, k) /\ (k = l \/ (k[1].inner /\ ~Fed(sub)[k[1].of]))
  BY <1>2, ChainIsUnfed
<1>4. k \in Links /\ k[1].inner \in BOOLEAN /\ k[2].inner \in BOOLEAN /\ k[2].dir = "sink"
      /\ (k[1].inner => ~k[2].inner)
  BY <1>1, LinkFacts
<1>5. j[1].inner \in BOOLEAN
      /\ (~j[1].inner => Drawn(j)[1] = j[1] /\ Drawn(j)[1].dir = "src")
      /\ (j[1].inner => j[1] = Internal(Drawn(j)[1]) /\ Drawn(j)[1].dir = "sink" /\ IsGhost(Drawn(j)[1]))
      /\ Drawn(j)[1].of = j[1].of
  BY <1>1, DrawnFacts, LinkFacts
<1>6. CASE Drawn(j)[1] = x[1]
  <2>1. j[1] = k[1] /\ j \in links
    BY <1>1, <1>3, <1>4, <1>6, DrawnIsOne
  <2>2. j = k
    BY <2>1 DEF Matching
  <2>3. j # l
    OBVIOUS
  <2> QED  BY <1>3, <2>2, <2>3 DEF HiddenIn
<1>7. CASE Drawn(j)[1] = x[2] /\ k[2].inner
  <2>1. Drawn(k)[2] = Internal(k[2]) /\ k[2] = Internal(Drawn(k)[2]) /\ Drawn(k)[2].dir = "src" /\ IsGhost(Drawn(k)[2])
    BY <1>4, <1>7, DrawnFacts
  <2>2. j[1] = x[2] /\ IsGhost(j[1]) /\ k[2] = Internal(j[1])
    BY <1>3, <1>5, <1>7, <2>1
  <2>3. k = l
    BY <1>3, <1>4, <1>7
  <2> QED  BY <2>2, <2>3 DEF HiddenIn
<1>8. CASE Drawn(j)[1] = x[2] /\ ~k[2].inner
  <2>1. Drawn(k)[2] = k[2]
    BY <1>4, <1>8, DrawnFacts
  <2>2. j[1].inner /\ IsGhost(k[2]) /\ k[2].of = j[1].of
    BY <1>3, <1>4, <1>5, <1>8, <2>1
  <2>3. ~Fed(sub)[j[1].of]
    BY <1>3, <1>8, <2>2 DEF Sunk
  <2> QED  BY <2>2, <2>3 DEF HiddenIn
<1> QED  BY <1>4, <1>6, <1>7, <1>8

\* What hits a pad in the frames of a link.
LEMMA HitInChain ==
  ASSUME NEW links, Matching(links), NEW l \in links, NEW what, NEW m, NEW p, NEW s,
         s = LinkFrames(links, what, l)
  PROVE  /\ Hit(m, s, Len(s), p) =>
              ~l[1].inner /\ \E x : Item(Chain(links, l), x) /\ (p = Located(m, x[1]) \/ p = Located(m, x[2]))
         /\ \A x : ~l[1].inner /\ Item(Chain(links, l), x) /\ p = Located(m, x[1]) => Hit(m, s, Len(s), p)
<1>1. /\ IsSequence(s)
      /\ l[1].inner => \A i \in 1..Len(s) : FALSE
      /\ ~l[1].inner => \A a, c : Tells(s, a, c) <=> Lists(Chain(links, l), a, c)
  BY LinkFramesAre
<1>2. l[1].inner \in BOOLEAN
  BY LinkFacts DEF Matching
<1>3. ASSUME Hit(m, s, Len(s), p)
      PROVE  ~l[1].inner /\ \E x : Item(Chain(links, l), x) /\ (p = Located(m, x[1]) \/ p = Located(m, x[2]))
  <2>1. PICK i \in 1..Len(s) : p = Located(m, s[i].src) \/ p = Located(m, s[i].sink)
    BY <1>3 DEF Hit
  <2>2. ~l[1].inner
    BY <1>1, <1>2, <2>1
  <2>3. PICK k \in 1..Len(Chain(links, l)) :
          Chain(links, l)[k][1] = s[i].src /\ Chain(links, l)[k][2] = s[i].sink
    <3>1. Tells(s, s[i].src, s[i].sink)
      BY DEF Tells
    <3>2. Lists(Chain(links, l), s[i].src, s[i].sink)
      BY <1>1, <2>2, <3>1
    <3> QED  BY <3>2 DEF Lists
  <2>4. Item(Chain(links, l), Chain(links, l)[k])
    BY DEF Item
  <2> QED  BY <2>1, <2>2, <2>3, <2>4
<1>4. ASSUME NEW x, ~l[1].inner, Item(Chain(links, l), x), p = Located(m, x[1]) PROVE Hit(m, s, Len(s), p)
  <2>1. PICK k \in 1..Len(Chain(links, l)) : Chain(links, l)[k] = x
    BY <1>4 DEF Item
  <2>2. ~l[1].inner
    BY <1>4
  <2>3. \E i \in 1..Len(s) : s[i].src = x[1] /\ s[i].sink = x[2]
    <3>1. Lists(Chain(links, l), x[1], x[2])
      BY <2>1 DEF Lists
    <3>2. Tells(s, x[1], x[2])
      BY <1>1, <2>2, <3>1
    <3> QED  BY <3>2 DEF Tells
  <2> QED  BY <1>4, <2>3 DEF Hit
<1> QED  BY <1>3, <1>4

\* pad_unlink.
LEMMA UnlinkShows ==
  ASSUME NEW m, MirrorOK(m), NEW E, NEW links, NEW gone, Pipeline(E, links, gone),
         Shows(m, E, links, gone), Fits(m, gone), NEW l \in links,
         NEW s, s = LinkFrames(links, "unlinked", l), NEW v, Trace(v, m, s)
  PROVE  /\ Pipeline(E, links \ {l}, gone \cup {l})
         /\ \A i \in 0..Len(s) : Fits(v[i], gone \cup {l})
         /\ Shows(v[Len(s)], E, links \ {l}, gone \cup {l})
<1> DEFINE sub == links \ {l}
           more == gone \cup {l}
           n == v[Len(s)]
<1>1. /\ links \subseteq Links /\ Matching(links) /\ Tree(E) /\ gone \subseteq Links
      /\ \A k \in links : k[1].of \in E /\ k[2].of \in E
  BY DEF Pipeline, Matching
<1>2. Pipeline(E, sub, more)
  BY <1>1 DEF Pipeline, Matching
<1>3. IsSequence(s) /\ Len(s) \in Nat /\ \A i \in 1..Len(s) : s[i].what = "unlinked"
  BY <1>1, LinkFramesAre, LenIsNatural
<1>4. \A i \in 0..Len(s) :
         /\ v[i].shown = m.shown /\ DOMAIN v[i].peer = DOMAIN m.peer
         /\ \A p \in DOMAIN m.peer : v[i].peer[p] = IF Hit(m, s, i, p) THEN NoPad ELSE m.peer[p]
  BY <1>3, UnlinkSteps
<1> HIDE DEF sub, more
<1>5. sub \in SUBSET links /\ gone \subseteq more /\ l \in more /\ l \notin sub /\ \A k \in links \ sub : k = l
  BY DEF sub, more
<1>6. ASSUME NEW i \in 0..Len(s) PROVE Fits(v[i], more)
  <2>1. /\ v[i].shown = m.shown /\ DOMAIN v[i].peer = DOMAIN m.peer
        /\ \A p \in DOMAIN m.peer : v[i].peer[p] = m.peer[p] \/ v[i].peer[p] = NoPad
    BY <1>4
  <2> QED  BY <1>5, <2>1, FitsCleared
<1>7. /\ n.shown = m.shown /\ DOMAIN n.peer = DOMAIN m.peer
      /\ \A p \in DOMAIN m.peer : n.peer[p] = IF Hit(m, s, Len(s), p) THEN NoPad ELSE m.peer[p]
  BY <1>3, <1>4
<1> HIDE DEF n
<1>8. E \subseteq m.shown /\ \A e \in m.shown : Parent[e] \in E \cup {Root} => e \in E
  BY DEF Shows
<1>9. ASSUME NEW p \in Pads, p.of \in E PROVE p \in DOMAIN m.peer /\ Located(m, p) = p
  BY <1>1, <1>8, <1>9, LocatedIs DEF Shows
<1>10. \A k \in links : /\ Drawn(k)[1] \in Pads /\ Drawn(k)[1].of \in E
                        /\ Drawn(k)[2] \in Pads /\ Drawn(k)[2].of \in E
  BY <1>1, DrawnFacts
<1>11. ASSUME ~l[1].inner PROVE n.peer[Drawn(l)[1]] = NoPad
  <2>1. Item(Chain(links, l), Drawn(l))
    BY <1>1, ChainItems
  <2>2. Hit(m, s, Len(s), Drawn(l)[1])
    BY <1>1, <1>9, <1>10, <1>11, <2>1, HitInChain
  <2> QED  BY <1>7, <1>9, <1>10, <2>2
<1>12. \A k \in links \ sub : (k \in more /\ k[1].inner) \/ n.peer[Drawn(k)[1]] = NoPad
  BY <1>5, <1>11
<1>13. ASSUME NEW j \in sub, n.peer[Drawn(j)[1]] # m.peer[Drawn(j)[1]] PROVE HiddenIn(j, E, sub, more)
  <2> DEFINE p == Drawn(j)[1]
  <2>1. Hit(m, s, Len(s), p)
    BY <1>5, <1>7, <1>9, <1>10, <1>13
  <2> HIDE DEF p
  <2>2. ~l[1].inner /\ \E x : Item(Chain(links, l), x) /\ (p = Located(m, x[1]) \/ p = Located(m, x[2]))
    BY <1>1, <2>1, HitInChain
  <2>3. PICK x : Item(Chain(links, l), x) /\ (p = Located(m, x[1]) \/ p = Located(m, x[2]))
    BY <2>2
  <2>4. PICK k \in links : x = Drawn(k)
    BY <1>1, <2>3, ChainIsInside
  <2>5. Located(m, x[1]) = x[1] /\ Located(m, x[2]) = x[2]
    BY <1>9, <1>10, <2>4
  <2> QED  BY <1>1, <1>5, <2>2, <2>3, <2>5, UnlinkHides DEF p
<1>14. Shows(n, E, sub, more)
  <2>1. \A p \in DOMAIN m.peer : n.peer[p] = m.peer[p] \/ n.peer[p] = NoPad
    BY <1>7
  <2>2. \A k \in links \ sub : \/ k \in more /\ k[1].inner
                               \/ k[1].of \notin E
                               \/ n.peer[Drawn(k)[1]] = NoPad
    BY <1>12
  <2>3. \A j \in sub : n.peer[Drawn(j)[1]] = m.peer[Drawn(j)[1]] \/ HiddenIn(j, E, sub, more)
    BY <1>13
  <2>4. E \subseteq n.shown /\ (\A e \in n.shown : Parent[e] \in E \cup {Root} => e \in E)
        /\ DOMAIN n.peer = DOMAIN m.peer
    BY <1>7, <1>8
  <2>5. E \in SUBSET E /\ sub \in SUBSET links /\ gone \subseteq more /\ links \subseteq Links
    BY <1>1, <1>5
  <2> QED  BY <2>1, <2>2, <2>3, <2>4, <2>5, ClearedShows
<1> QED  BY <1>2, <1>6, <1>14 DEF n, sub, more

\* Every item of the lists is in the flattened one.
LEMMA FlattenKeepsItems ==
  ASSUME NEW s, IsSequence(s), \A i \in 1..Len(s) : IsSequence(s[i]), NEW k \in 1..Len(s), NEW j \in 1..Len(s[k])
  PROVE  \E i \in 1..Len(FlattenSeq(s)) : FlattenSeq(s)[i] = s[k][j]
<1>1. Len(s) \in Nat
  BY LenIsNatural
<1>2. PICK f : /\ f[0] = <<>> /\ FlattenSeq(s) = f[Len(s)]
               /\ \A n \in Nat : n + 1 <= Len(s) => f[n + 1] = f[n] \o s[n + 1]
               /\ \A n \in 0..Len(s) : IsSequence(f[n])
  BY FlattenSteps
<1> DEFINE x == s[k][j]
           Has1(n) == \E i \in 1..Len(f[n]) : f[n][i] = x
           U == {n \in Nat : k <= n /\ n <= Len(s) => Has1(n)}
<1>3. 0 \in U
  BY <1>1
<1>4. ASSUME NEW n \in Nat, n \in U, k <= n + 1, n + 1 <= Len(s) PROVE Has1(n + 1)
  <2> DEFINE a == f[n]
             b == s[n + 1]
  <2>1. n \in 0..Len(s) /\ n + 1 \in 1..Len(s)
    BY <1>1, <1>4
  <2>2. IsSequence(a) /\ IsSequence(b) /\ f[n + 1] = a \o b
    BY <1>2, <1>4, <2>1
  <2>3. (\E i \in 1..Len(a) : a[i] = x) \/ \E i \in 1..Len(b) : b[i] = x
    <3>1. CASE k = n + 1
      BY <3>1
    <3>2. CASE k # n + 1
      BY <1>1, <1>4, <3>2
    <3> QED  BY <3>1, <3>2
  <2> HIDE DEF a, b, x
  <2>4. /\ \A i \in 1..Len(a) : i \in 1..Len(a \o b) /\ (a \o b)[i] = a[i]
        /\ \A i \in 1..Len(b) : Len(a) + i \in 1..Len(a \o b) /\ (a \o b)[Len(a) + i] = b[i]
    BY ONLY <2>2, ConcatParts
  <2> QED  BY <2>2, <2>3, <2>4 DEF a
<1>5. Nat \subseteq U
  <2>1. ASSUME NEW n \in Nat, n \in U PROVE n + 1 \in U
    <3>1. k <= n + 1 /\ n + 1 <= Len(s) => Has1(n + 1)
      <4> HIDE DEF Has1, U
      <4> QED  BY <1>4, <2>1
    <3> HIDE DEF Has1
    <3> QED  BY <3>1
  <2> HIDE DEF U
  <2> QED  BY <1>3, <2>1, SetInduction
<1> HIDE DEF Has1
<1>6. Len(s) \in U
  BY <1>1, <1>5
<1>7. Has1(Len(s))
  BY <1>1, <1>6
<1> QED  BY <1>2, <1>7 DEF Has1

\* The frames of several links.
AllFrames(links, what, own) ==
  FlattenSeq([i \in DOMAIN SetToSeq(own) |-> LinkFrames(links, what, SetToSeq(own)[i])])

\* What they touch is what those of one of the links touch.
Gathers(links, what, own, t) ==
  /\ IsSequence(t) /\ \A i \in 1..Len(t) : t[i].what = what
  /\ \A m, p : Hit(m, t, Len(t), p) <=>
                 \E l \in own : Hit(m, LinkFrames(links, what, l), Len(LinkFrames(links, what, l)), p)

LEMMA FramesOfAll ==
  ASSUME NEW links, Matching(links), NEW own \in SUBSET links, NEW what
  PROVE  Gathers(links, what, own, AllFrames(links, what, own))
<1>1. own \subseteq AllPads \X AllPads
  BY DEF Matching, Links
<1>2. IsFiniteSet(own)
  BY <1>1, LinksAreFinite, FS_Subset
<1> DEFINE n == Cardinality(own)
           seq == SetToSeq(own)
           F(l) == LinkFrames(links, what, l)
           r == [i \in DOMAIN seq |-> F(seq[i])]
           t == AllFrames(links, what, own)
<1>3. n \in Nat /\ seq \in [1..n -> own] /\ \A l \in own : \E i \in 1..n : seq[i] = l
  BY <1>2, SetToSeqItems
<1>4. \A l \in own : IsSequence(F(l)) /\ \A i \in 1..Len(F(l)) : F(l)[i].what = what
  BY LinkFramesAre
<1>5. t = FlattenSeq(r)
  BY DEF AllFrames
<1> HIDE DEF n, seq, F, t
<1>6. r = [i \in 1..n |-> r[i]] /\ DOMAIN r = 1..n /\ \A i \in 1..n : r[i] = F(seq[i])
  BY <1>3
<1> HIDE DEF r
<1>7. IsSequence(r) /\ Len(r) = n
  BY <1>3, <1>6, ListIsSequence
<1>8. \A k \in 1..Len(r) : \E l \in own : r[k] = F(l)
  BY <1>3, <1>6, <1>7
<1>9. \A l \in own : \E k \in 1..Len(r) : r[k] = F(l)
  BY <1>3, <1>6, <1>7
<1>10. \A k \in 1..Len(r) : IsSequence(r[k])
  BY <1>4, <1>8
<1>11. IsSequence(t)
  BY <1>5, <1>7, <1>10, FlattenIsSequence
<1>12. \A i \in 1..Len(t) : \E k \in 1..Len(r) : \E j \in 1..Len(r[k]) : t[i] = r[k][j]
  <2>1. \A i \in 1..Len(FlattenSeq(r)) : \E k \in 1..Len(r) : \E j \in 1..Len(r[k]) : FlattenSeq(r)[i] = r[k][j]
    BY ONLY <1>7, <1>10, FlattenItems
  <2> QED  BY ONLY <1>5, <2>1
<1>13. \A k \in 1..Len(r) : \A j \in 1..Len(r[k]) : \E i \in 1..Len(t) : t[i] = r[k][j]
  <2>1. \A k \in 1..Len(r) : \A j \in 1..Len(r[k]) :
          \E i \in 1..Len(FlattenSeq(r)) : FlattenSeq(r)[i] = r[k][j]
    BY ONLY <1>7, <1>10, FlattenKeepsItems
  <2> QED  BY ONLY <1>5, <2>1
<1>14. \A i \in 1..Len(t) : \E l \in own : \E j \in 1..Len(F(l)) : t[i] = F(l)[j]
  BY ONLY <1>8, <1>12
<1>15. \A l \in own : \A j \in 1..Len(F(l)) : \E i \in 1..Len(t) : t[i] = F(l)[j]
  BY <1>9, <1>13
<1>16. \A i \in 1..Len(t) : t[i].what = what
  BY <1>4, <1>14
<1>17. ASSUME NEW m, NEW p PROVE Hit(m, t, Len(t), p) <=> \E l \in own : Hit(m, F(l), Len(F(l)), p)
  <2> DEFINE Meets(x) == p = Located(m, x.src) \/ p = Located(m, x.sink)
  <2>1. Hit(m, t, Len(t), p) <=> \E i \in 1..Len(t) : Meets(t[i])
    BY DEF Hit
  <2>2. \A l : Hit(m, F(l), Len(F(l)), p) <=> \E j \in 1..Len(F(l)) : Meets(F(l)[j])
    BY DEF Hit
  <2> HIDE DEF Meets
  <2>3. (\E i \in 1..Len(t) : Meets(t[i])) <=> \E l \in own : \E j \in 1..Len(F(l)) : Meets(F(l)[j])
    <3>1. ASSUME NEW i \in 1..Len(t), Meets(t[i]) PROVE \E l \in own : \E j \in 1..Len(F(l)) : Meets(F(l)[j])
      BY ONLY <1>14, <3>1
    <3>2. ASSUME NEW l \in own, NEW j \in 1..Len(F(l)), Meets(F(l)[j]) PROVE \E i \in 1..Len(t) : Meets(t[i])
      BY ONLY <1>15, <3>2
    <3> QED  BY <3>1, <3>2
  <2> QED  BY ONLY <2>1, <2>2, <2>3
<1>18. /\ IsSequence(t) /\ \A i \in 1..Len(t) : t[i].what = what
       /\ \A m, p : Hit(m, t, Len(t), p) <=>
                      \E l \in own : Hit(m, LinkFrames(links, what, l), Len(LinkFrames(links, what, l)), p)
  BY <1>11, <1>16, <1>17 DEF F
<1>19. Gathers(links, what, own, t)
  BY ONLY <1>18 DEF Gathers
<1> QED  BY <1>19 DEF t

Own(links, e) == {l \in links : e \in {l[1].of, l[2].of} /\ Level(l[1]) = Parent[e]}
Left(E, e) == {d \in E : e \notin Above[d]}
LeftLinks(links, e) == {l \in links \ Own(links, e) : e \notin Above[Level(l[1])]}

\* The pipeline after gst_bin_remove.
LEMMA RemoveIsPipeline ==
  ASSUME NEW E, NEW links, NEW gone, Pipeline(E, links, gone), NEW e \in E
  PROVE  /\ Pipeline(Left(E, e), LeftLinks(links, e), gone \cup Own(links, e))
         /\ e \in Elements /\ e \notin Left(E, e) /\ e # Root
         /\ \A l \in links \ LeftLinks(links, e) : l \in Own(links, e) \/ l[1].of \notin Left(E, e)
<1>1. /\ links \subseteq Links /\ Matching(links) /\ Tree(E) /\ gone \subseteq Links
      /\ \A k \in links : k[1].of \in E /\ k[2].of \in E
  BY DEF Pipeline, Matching
<1>2. E \subseteq Elements /\ Root \notin Elements
  BY <1>1, OrderFacts DEF Tree
<1>3. \A d \in Elements : Above[d] = {d} \cup Above[Parent[d]]
  BY AboveFacts
<1>4. Tree(Left(E, e))
  BY <1>1, WithoutIsTree DEF Left
<1>5. ASSUME NEW l \in LeftLinks(links, e), NEW p \in {l[1], l[2]} PROVE p.of \in Left(E, e)
  <2>1. l \in links /\ l \in Links /\ l \notin Own(links, e) /\ e \notin Above[Level(l[1])]
    BY <1>1 DEF LeftLinks
  <2>2. p.of \in E /\ p.of \in Elements /\ Level(p) = Level(l[1]) /\ p.inner \in BOOLEAN
    BY <1>1, <1>2, <2>1, LinkFacts
  <2>3. CASE p.inner
    BY <2>1, <2>2, <2>3 DEF Level, Left
  <2>4. CASE ~p.inner
    <3>1. Level(l[1]) = Parent[p.of]
      BY <2>2, <2>4 DEF Level
    <3>2. p.of # e
      BY <2>1, <3>1 DEF Own
    <3> QED  BY <1>3, <2>1, <2>2, <3>1, <3>2 DEF Left
  <2> QED  BY <2>2, <2>3, <2>4
<1>6. Matching(LeftLinks(links, e)) /\ Own(links, e) \subseteq Links
  BY <1>1 DEF LeftLinks, Own, Matching
<1>7. e \in Elements /\ e \notin Left(E, e) /\ e # Root
  BY <1>2, <1>3 DEF Left
<1>8. ASSUME NEW l \in links, l \notin LeftLinks(links, e), l \notin Own(links, e) PROVE l[1].of \notin Left(E, e)
  <2>1. e \in Above[Level(l[1])]
    BY <1>8 DEF LeftLinks
  <2>2. l[1].of \in Elements /\ l[1].inner \in BOOLEAN
    BY <1>1, LinkFacts
  <2>3. Level(l[1]) = l[1].of \/ Level(l[1]) = Parent[l[1].of]
    BY <2>2 DEF Level
  <2> QED  BY <1>3, <2>1, <2>2, <2>3 DEF Left
<1> QED  BY <1>1, <1>4, <1>5, <1>6, <1>7, <1>8 DEF Pipeline

\* The element is told first.
LEMMA RemovedFits ==
  ASSUME NEW m, MirrorOK(m), NEW E, NEW links, NEW gone, Pipeline(E, links, gone),
         Shows(m, E, links, gone), Fits(m, gone), NEW e \in E,
         NEW n, n = Process(m, [what |-> "removed", of |-> e])
  PROVE  /\ MirrorOK(n) /\ n.shown = m.shown \ {e} /\ n.peer = m.peer
         /\ Fits(n, gone \cup Own(links, e))
         /\ Left(E, e) \subseteq n.shown /\ Left(E, e) \subseteq E
         /\ \A d \in n.shown : Parent[d] \in Left(E, e) \cup {Root} => d \in Left(E, e)
<1> DEFINE f == [what |-> "removed", of |-> e]
           more == gone \cup Own(links, e)
<1>1. /\ links \subseteq Links /\ Matching(links) /\ Tree(E) /\ gone \subseteq Links /\ E \subseteq Elements
      /\ \A k \in links : k[1].of \in E /\ k[2].of \in E
      /\ Root \notin Elements
  BY OrderFacts DEF Pipeline, Matching, Tree
<1>2. \A d \in Elements : Above[d] = {d} \cup Above[Parent[d]]
  BY AboveFacts
<1>3. n = [m EXCEPT !.shown = @ \ {f.of}]
  BY DEF Process
<1>4. m = [shown |-> m.shown, peer |-> m.peer] /\ m.shown \subseteq Elements /\ DOMAIN m.peer \subseteq Pads
  BY DEF MirrorOK
<1>5. n.shown = m.shown \ {e} /\ n.peer = m.peer /\ n = [shown |-> m.shown \ {e}, peer |-> m.peer]
  <2> DEFINE T == m.shown
             P == m.peer
  <2>1. m = [shown |-> T, peer |-> P] /\ n = [m EXCEPT !.shown = T \ {e}]
    BY <1>3, <1>4
  <2> HIDE DEF T, P
  <2>2. n = [shown |-> T \ {e}, peer |-> P]
    BY <2>1
  <2> QED  BY <2>2 DEF T, P
<1>6. MirrorOK(n)
  BY <1>4, <1>5 DEF MirrorOK
<1>7. E \subseteq m.shown /\ \A d \in m.shown : Parent[d] \in E \cup {Root} => d \in E
  BY DEF Shows
<1>8. Left(E, e) \subseteq n.shown /\ Left(E, e) \subseteq E
  BY <1>1, <1>2, <1>5, <1>7 DEF Left
<1>9. ASSUME NEW d \in n.shown, Parent[d] \in Left(E, e) \cup {Root} PROVE d \in Left(E, e)
  <2>1. d \in Elements /\ d # e /\ d \in E
    BY <1>1, <1>4, <1>5, <1>7, <1>9 DEF Left
  <2>2. e \notin Above[Parent[d]]
    BY <1>1, <1>9, AboveFacts DEF Left
  <2> QED  BY <1>2, <2>1, <2>2 DEF Left
<1>10. Fits(n, more)
  <2> SUFFICES ASSUME NEW s \in DOMAIN m.peer, Draws(s), m.peer[s] # NoPad
               PROVE  /\ m.peer[s] \in DOMAIN m.peer
                      /\ \E l \in Links : /\ Drawn(l) = <<s, m.peer[s]>>
                                          /\ \/ l \in more \/ l[2].inner \/ l[2].of \in n.shown
                                             \/ (~l[1].inner /\ l[1].of \notin n.shown)
    BY <1>5 DEF Fits
  <2>1. m.peer[s] \in DOMAIN m.peer
    BY DEF Fits
  <2>2. PICK l \in Links : /\ Drawn(l) = <<s, m.peer[s]>>
                           /\ \/ l \in gone \/ l[2].inner \/ l[2].of \in m.shown
                              \/ (~l[1].inner /\ l[1].of \notin m.shown)
    BY DEF Fits
  <2>3. SUFFICES ASSUME l[2].of = e, ~l[2].inner, l[1].inner \/ l[1].of \in n.shown
                 PROVE  l \in more
    BY <1>5, <2>1, <2>2
  <2>4. /\ l[1].inner \in BOOLEAN /\ Level(l[1]) = Parent[e] /\ l[1].of \in Elements
        /\ s = Drawn(l)[1] /\ s.of = l[1].of
    BY <2>2, <2>3, LinkFacts, DrawnFacts DEF Level
  <2>5. s.of \in E
    <3>1. Parent[e] \in E \cup {Root}
      BY <1>1 DEF Tree
    <3> QED  BY <1>1, <1>5, <1>7, <2>3, <2>4, <3>1 DEF Level
  <2>6. PICK k \in links \cup {k \in gone : k[1].inner} : Drawn(k) = <<s, m.peer[s]>>
    BY <2>5 DEF Shows
  <2>7. k = l
    BY <1>1, <2>2, <2>6, DrawnIsOne
  <2> QED  BY <2>3, <2>4, <2>6, <2>7 DEF Own
<1> QED  BY <1>5, <1>6, <1>8, <1>9, <1>10

\* What is looked for in the bin of the element, and found there, is hidden.
LEMMA RemoveHides ==
  ASSUME NEW m, NEW E, NEW links, NEW gone, Pipeline(E, links, gone), NEW e \in E,
         Left(E, e) \subseteq m.shown, E \subseteq m.shown \cup {e}, e \notin m.shown,
         NEW l \in Own(links, e), ~l[1].inner, NEW x, Item(Chain(links, l), x),
         NEW j \in LeftLinks(links, e), NEW y \in {x[1], x[2]}, Drawn(j)[1] = Located(m, y)
  PROVE  HiddenIn(j, Left(E, e), LeftLinks(links, e), gone \cup Own(links, e))
<1> DEFINE more == gone \cup Own(links, e)
<1>1. /\ links \subseteq Links /\ Matching(links) /\ Tree(E) /\ E \subseteq Elements
      /\ \A k \in links : k[1].of \in E /\ k[2].of \in E
      /\ l \in links /\ l \in Links /\ l \in more /\ l \notin LeftLinks(links, e)
      /\ LeftLinks(links, e) \in SUBSET links
  BY DEF Pipeline, Matching, Own, Tree, LeftLinks
<1>2. Tree(Left(E, e)) /\ e \in Elements /\ e \notin Left(E, e)
  BY RemoveIsPipeline DEF Pipeline
<1>3. PICK k \in links : /\ x = Drawn(k)
                         /\ k = l \/ /\ k[1].inner /\ ~k[2].inner
                                     /\ l[2].of \in Above[k[1].of] /\ l[2].of \in Above[k[2].of]
  BY <1>1, ChainIsInside
<1>4. k = l \/ ~l[2].inner
  <2> SUFFICES ASSUME l[2].inner PROVE k = l
    BY LinkFacts, <1>1
  <2>1. \A i : ~Behind(links, l, i)
    BY DEF Behind
  <2>2. x = Drawn(l)
    BY <1>1, <2>1, ChainItems
  <2>3. k \in Links /\ Drawn(k) = Drawn(l)
    BY <1>1, <1>3, <2>2
  <2> QED  BY <1>1, <2>3, DrawnIsOne
<1>5. y \in Pads /\ y.of \in E /\ y.of \in Elements
  BY <1>1, <1>3, DrawnFacts
<1>6. CASE e \notin Above[y.of]
  <2>1. y.of \in Left(E, e)
    BY <1>5, <1>6 DEF Left
  <2>2. Located(m, y) = y
    BY <1>2, <1>5, <2>1, LocatedIs
  <2> QED  BY <1>1, <2>2, UnlinkHides
<1>7. CASE e \in Above[y.of]
  <2>1. Located(m, y) = [y EXCEPT !.of = Parent[e]]
    BY <1>1, <1>5, <1>7, LocatedOutside
  <2>2. y = [of |-> y.of, dir |-> y.dir, inner |-> y.inner]
    BY <1>5 DEF Pads
  <2>3. Drawn(j)[1].of = Parent[e] /\ Drawn(j)[1].dir = y.dir
    BY <2>1, <2>2
  <2>4. /\ Level(l[1]) = Parent[e] /\ Level(l[2]) = Parent[e] /\ l[1].of \in Elements /\ l[2].of \in Elements
        /\ l[2].inner \in BOOLEAN /\ k[1].inner \in BOOLEAN /\ k[2].inner \in BOOLEAN /\ k \in Links
        /\ k[1].inner => ~k[2].inner
    BY <1>1, LinkFacts DEF Own
  <2>5. /\ x[1].of = k[1].of /\ x[2].of = k[2].of
        /\ ~k[1].inner => x[1].dir = "src"
        /\ k[1].inner => x[1].dir = "sink"
        /\ ~k[2].inner => x[2].dir = "sink"
        /\ k[2].inner => x[2].dir = "src"
    BY <1>3, <2>4, DrawnFacts
  <2>6. e \notin Above[Parent[e]]
    <3>1. Parent[e] = Root \/ (Parent[e] \in Elements /\ Place(Parent[e]) < Place(e))
      BY <1>2, OrderFacts
    <3>2. Root # e /\ Above[Root] = {Root}
      BY <1>2, AboveFacts, OrderFacts
    <3>3. CASE Parent[e] \in Elements /\ Place(Parent[e]) < Place(e)
      <4> SUFFICES ASSUME e \in Above[Parent[e]] PROVE FALSE
        OBVIOUS
      <4>1. e # Parent[e] /\ Place(e) \in Nat /\ Place(Parent[e]) \in Nat
        BY <1>2, <3>3, OrderFacts
      <4>2. Place(e) < Place(Parent[e])
        BY <3>2, <3>3, <4>1, AboveIsBefore
      <4> QED  BY <3>3, <4>1, <4>2
    <3> QED  BY <3>1, <3>2, <3>3
  <2>7. CASE y.dir = "src"
    <3>1. k = l /\ y.of = l[1].of
      <4>1. CASE y = x[1] /\ ~k[1].inner
        BY <1>1, <1>3, <2>5, <4>1
      <4>2. CASE y = x[1] /\ k[1].inner
        BY <2>5, <2>7, <4>2
      <4>3. CASE y = x[2] /\ ~k[2].inner
        BY <2>5, <2>7, <4>3
      <4>4. CASE y = x[2] /\ k[2].inner
        <5>1. k = l
          BY <1>3, <2>4, <4>4
        <5>2. y.of = Parent[e]
          BY <2>4, <2>5, <4>4, <5>1 DEF Level
        <5> QED  BY <1>7, <2>6, <5>2
      <4> QED  BY <2>4, <4>1, <4>2, <4>3, <4>4
    <3>2. l[1].of \notin Left(E, e)
      BY <1>7, <3>1 DEF Left
    <3> QED  BY <1>1, <2>3, <2>4, <2>7, <3>2 DEF HiddenIn
  <2>8. CASE y.dir # "src"
    <3>1. ~l[2].inner
      <4> SUFFICES ASSUME l[2].inner PROVE FALSE
        BY <2>4
      <4>1. k = l /\ y = x[1] /\ ~k[1].inner
        BY <1>1, <1>4, <2>4, <2>5, <2>8
      <4> QED  BY <2>5, <2>8, <4>1
    <3>2. l[2].of \in Above[y.of]
      <4>1. l[2].of \in Above[l[2].of]
        BY <2>4, AboveFacts
      <4>2. CASE k = l
        <5>1. y = x[2]
          BY <2>5, <2>8, <4>2
        <5> QED  BY <2>5, <4>1, <4>2, <5>1
      <4>3. CASE k # l
        BY <1>3, <2>5, <4>3
      <4> QED  BY <4>2, <4>3
    <3>3. Parent[l[2].of] = Parent[e]
      BY <2>4, <3>1 DEF Level
    <3>4. l[2].of = e
      BY <1>2, <1>5, <1>7, <2>4, <3>2, <3>3, SiblingsAreApart
    <3> QED  BY <1>1, <1>2, <2>3, <2>4, <2>8, <3>4 DEF HiddenIn
  <2> QED  BY <2>7, <2>8
<1> QED  BY <1>6, <1>7

\* Whatever is on its way, the models that come of it are there.
LEMMA TraceExists ==
  ASSUME NEW m, NEW s, IsSequence(s)
  PROVE  \E v : Trace(v, m, s)
<1> DEFINE Made(v, n) == v[0] = m /\ \A j \in Nat : j + 1 <= n => v[j + 1] = Process(v[j], s[j + 1])
           T == {n \in Nat : \E v : Made(v, n)}
<1>1. 0 \in T
  <2>1. Made([j \in Nat |-> m], 0)
    OBVIOUS
  <2> QED  BY <2>1
<1>2. ASSUME NEW n \in Nat, n \in T PROVE n + 1 \in T
  <2>1. PICK v : Made(v, n)
    BY <1>2
  <2> DEFINE p == Process(v[n], s[n + 1])
  <2> HIDE DEF p
  <2> DEFINE u == [j \in Nat |-> IF j = n + 1 THEN p ELSE v[j]]
  <2>2. u[0] = m
    BY <2>1
  <2>3. ASSUME NEW j \in Nat, j + 1 <= n + 1 PROVE u[j + 1] = Process(u[j], s[j + 1])
    <3>1. u[j] = v[j] /\ (j + 1 <= n => v[j + 1] = Process(v[j], s[j + 1]))
      BY <2>1, <2>3
    <3>2. CASE j = n
      <4>1. u[j + 1] = p
        BY <3>2
      <4> QED  BY <3>1, <3>2, <4>1 DEF p
    <3>3. CASE j # n
      <4>1. u[j + 1] = v[j + 1] /\ j + 1 <= n
        BY <2>3, <3>3
      <4> QED  BY <3>1, <4>1
    <3> QED  BY <3>2, <3>3
  <2> HIDE DEF u
  <2>4. Made(u, n + 1)
    BY <2>2, <2>3
  <2> QED  BY <2>4
<1>3. Nat \subseteq T
  <2> HIDE DEF T
  <2> QED  BY <1>1, <1>2, SetInduction
<1>4. Len(s) \in T
  BY <1>3, LenIsNatural
<1> QED  BY <1>4 DEF Trace

\* One list of models is another without its first, or without those before.
Shifted(w, v, n) == \A i \in 0..n : w[i] = v[i + 1]
Continues(u, v, n, w, k) == (\A i \in 0..n : u[i] = v[i]) /\ \A i \in 0..k : u[n + i] = w[i]

LEMMA TraceTail ==
  ASSUME NEW m, NEW s, IsSequence(s), NEW v, Trace(v, m, s), s # <<>>
  PROVE  /\ v[1] = Process(m, Head(s)) /\ Len(Tail(s)) \in Nat /\ Len(s) = Len(Tail(s)) + 1
         /\ \E w : Trace(w, v[1], Tail(s)) /\ Shifted(w, v, Len(Tail(s)))
<1>1. PICK S : s \in Seq(S)
  BY DEF IsSequence
<1>2. Len(s) \in Nat \ {0} /\ Len(Tail(s)) = Len(s) - 1 /\ Head(s) = s[1]
      /\ \A i \in 1..(Len(s) - 1) : Tail(s)[i] = s[i + 1]
  BY <1>1
<1>3. v[0] = m /\ \A j \in Nat : j + 1 <= Len(s) => v[j + 1] = Process(v[j], s[j + 1])
  BY DEF Trace
<1> DEFINE w == [i \in Nat |-> v[i + 1]]
<1>4. v[1] = Process(m, Head(s))
  BY <1>2, <1>3
<1>5. w[0] = v[1] /\ \A i \in Nat : w[i] = v[i + 1]
  OBVIOUS
<1> HIDE DEF w
<1>6. ASSUME NEW j \in Nat, j + 1 <= Len(Tail(s)) PROVE w[j + 1] = Process(w[j], Tail(s)[j + 1])
  <2>1. w[j + 1] = v[(j + 1) + 1] /\ w[j] = v[j + 1] /\ Tail(s)[j + 1] = s[(j + 1) + 1] /\ (j + 1) + 1 <= Len(s)
    <3>1. j + 1 \in Nat /\ (j + 1) + 1 <= Len(s) /\ j + 1 \in 1..(Len(s) - 1)
      BY <1>2, <1>6
    <3>2. w[j + 1] = v[(j + 1) + 1] /\ w[j] = v[j + 1]
      BY <1>5, <3>1
    <3> QED  BY <1>2, <3>1, <3>2
  <2> QED  BY <1>3, <2>1
<1>7. Trace(w, v[1], Tail(s))
  BY <1>5, <1>6 DEF Trace
<1>8. Shifted(w, v, Len(Tail(s)))
  BY <1>5 DEF Shifted
<1> QED  BY <1>2, <1>4, <1>7, <1>8

LEMMA TraceJoin ==
  ASSUME NEW m, NEW s, IsSequence(s), NEW t, IsSequence(t), NEW v, Trace(v, m, s), NEW w, Trace(w, v[Len(s)], t)
  PROVE  \E u : Trace(u, m, s \o t) /\ Continues(u, v, Len(s), w, Len(t))
<1>1. Len(s) \in Nat /\ Len(t) \in Nat /\ Len(s \o t) = Len(s) + Len(t)
  BY ConcatIsSequence
<1>2. /\ \A i \in 1..Len(s) : i \in 1..Len(s \o t) /\ (s \o t)[i] = s[i]
      /\ \A i \in 1..Len(t) : Len(s) + i \in 1..Len(s \o t) /\ (s \o t)[Len(s) + i] = t[i]
  BY ConcatParts
<1>3. /\ v[0] = m /\ \A j \in Nat : j + 1 <= Len(s) => v[j + 1] = Process(v[j], s[j + 1])
      /\ w[0] = v[Len(s)] /\ \A j \in Nat : j + 1 <= Len(t) => w[j + 1] = Process(w[j], t[j + 1])
  BY DEF Trace
<1> DEFINE n == Len(s)
           k == Len(t)
           x == s \o t
<1> HIDE DEF n, k, x
<1> DEFINE u == [j \in Nat |-> IF j <= n THEN v[j] ELSE w[j - n]]
<1>4. n \in Nat /\ k \in Nat /\ Len(x) = n + k
  BY <1>1 DEF n, k, x
<1>5. \A j \in 0..n : u[j] = v[j]
  BY <1>4
<1>6. \A j \in 0..k : u[n + j] = w[j]
  <2> TAKE j \in 0..k
  <2>1. CASE j = 0
    BY <1>3, <1>4, <2>1 DEF n
  <2>2. CASE j # 0
    BY <1>4, <2>2
  <2> QED  BY <2>1, <2>2
<1> HIDE DEF u
<1>7. ASSUME NEW j \in Nat, j + 1 <= n + k PROVE u[j + 1] = Process(u[j], x[j + 1])
  <2>1. CASE j + 1 <= n
    <3>1. u[j + 1] = v[j + 1] /\ u[j] = v[j] /\ x[j + 1] = s[j + 1]
      BY <1>2, <1>4, <1>5, <2>1 DEF n, x
    <3> QED  BY <1>3, <2>1, <3>1 DEF n
  <2>2. CASE ~(j + 1 <= n)
    <3> DEFINE i == j - n
    <3>1. i \in Nat /\ i + 1 <= k /\ j = n + i /\ j + 1 = n + (i + 1) /\ i \in 0..k /\ i + 1 \in 1..k /\ i + 1 \in 0..k
      BY <1>4, <1>7, <2>2
    <3> HIDE DEF i
    <3>2. u[j + 1] = w[i + 1] /\ u[j] = w[i] /\ x[j + 1] = t[i + 1]
      BY <1>2, <1>6, <3>1 DEF n, k, x
    <3> QED  BY <1>3, <3>1, <3>2 DEF k
  <2> QED  BY <2>1, <2>2
<1>8. u[0] = m
  BY <1>3, <1>4, <1>5
<1>9. Trace(u, m, x)
  BY <1>4, <1>7, <1>8 DEF Trace
<1>10. Continues(u, v, n, w, k)
  BY <1>5, <1>6 DEF Continues
<1> QED  BY <1>9, <1>10 DEF n, k, x

\* gst_bin_remove.
LEMMA RemoveShows ==
  ASSUME NEW m, MirrorOK(m), NEW E, NEW links, NEW gone, Pipeline(E, links, gone),
         Shows(m, E, links, gone), Fits(m, gone), NEW e \in E, NEW t, t = AllFrames(links, "unlinked", Own(links, e)),
         NEW n, n = Process(m, [what |-> "removed", of |-> e]), NEW w, Trace(w, n, t)
  PROVE  /\ \A i \in 0..Len(t) : Fits(w[i], gone \cup Own(links, e))
         /\ Shows(w[Len(t)], Left(E, e), LeftLinks(links, e), gone \cup Own(links, e))
<1> DEFINE own == Own(links, e)
           sub == LeftLinks(links, e)
           more == gone \cup own
           E2 == Left(E, e)
           z == w[Len(t)]
<1>1. /\ links \subseteq Links /\ Matching(links) /\ Tree(E) /\ gone \subseteq Links /\ E \subseteq Elements
      /\ \A k \in links : k[1].of \in E /\ k[2].of \in E
      /\ own \in SUBSET links /\ sub \in SUBSET links
  BY DEF Pipeline, Matching, Tree, Own, LeftLinks
<1>2. /\ MirrorOK(n) /\ n.shown = m.shown \ {e} /\ n.peer = m.peer
      /\ Fits(n, more) /\ E2 \subseteq n.shown /\ E2 \subseteq E
      /\ \A d \in n.shown : Parent[d] \in E2 \cup {Root} => d \in E2
  BY RemovedFits
<1>3. /\ Tree(E2) /\ \A l \in links \ sub : l \in own \/ l[1].of \notin E2
  BY RemoveIsPipeline DEF Pipeline
<1>4. E2 \subseteq n.shown /\ E \subseteq n.shown \cup {e} /\ e \notin n.shown
      /\ \A p \in Pads : p.of \in E => p \in DOMAIN m.peer
  BY <1>2 DEF Shows
<1>5. /\ IsSequence(t) /\ \A i \in 1..Len(t) : t[i].what = "unlinked"
      /\ \A p : Hit(n, t, Len(t), p) <=>
                        \E l \in own : Hit(n, LinkFrames(links, "unlinked", l), Len(LinkFrames(links, "unlinked", l)), p)
  <2>1. t = AllFrames(links, "unlinked", own)
    OBVIOUS
  <2> HIDE DEF own
  <2>2. own \in SUBSET links /\ Matching(links)
    BY <1>1
  <2>3. Gathers(links, "unlinked", own, AllFrames(links, "unlinked", own))
    BY <2>2, FramesOfAll
  <2>4. Gathers(links, "unlinked", own, t)
    BY ONLY <2>1, <2>3
  <2> QED  BY <2>4, Zenon DEF Gathers
<1>6. Len(t) \in Nat
  BY <1>5, LenIsNatural
<1>7. \A i \in 0..Len(t) :
         /\ w[i].shown = n.shown /\ DOMAIN w[i].peer = DOMAIN n.peer
         /\ \A p \in DOMAIN n.peer : w[i].peer[p] = IF Hit(n, t, i, p) THEN NoPad ELSE n.peer[p]
  BY <1>2, <1>5, UnlinkSteps
<1>8. /\ z.shown = n.shown /\ DOMAIN z.peer = DOMAIN m.peer
      /\ \A p \in DOMAIN m.peer : z.peer[p] = IF Hit(n, t, Len(t), p) THEN NoPad ELSE m.peer[p]
  BY <1>2, <1>6, <1>7
<1>9. ASSUME NEW i \in 0..Len(t) PROVE Fits(w[i], more)
  <2>1. /\ w[i].shown = n.shown /\ DOMAIN w[i].peer = DOMAIN n.peer
        /\ \A p \in DOMAIN n.peer : w[i].peer[p] = n.peer[p] \/ w[i].peer[p] = NoPad
    BY <1>7
  <2> DEFINE y == w[i]
  <2>2. /\ y.shown = n.shown /\ DOMAIN y.peer = DOMAIN n.peer
        /\ \A p \in DOMAIN n.peer : y.peer[p] = n.peer[p] \/ y.peer[p] = NoPad
    BY <2>1
  <2> HIDE DEF more, y
  <2>3. more \subseteq more /\ Fits(n, more)
    BY <1>2
  <2>4. Fits(y, more)
    BY ONLY <2>2, <2>3, FitsCleared
  <2> QED  BY <2>4 DEF y
<1>10. \A k \in links : Drawn(k)[1] \in Pads /\ Drawn(k)[1].of = k[1].of /\ k[1].of \in E /\ k \in Links
                        /\ k[1].inner \in BOOLEAN
  <2>1. \A k \in Links : Drawn(k)[1] \in Pads /\ Drawn(k)[1].of = k[1].of /\ k[1].inner \in BOOLEAN
    BY DrawnFacts, LinkFacts
  <2> QED  BY <1>1, <2>1
<1> HIDE DEF own, sub, z, E2
<1>11. ASSUME NEW l \in own, ~l[1].inner, l[1].of \in E2 PROVE z.peer[Drawn(l)[1]] = NoPad
  <2> DEFINE p == Drawn(l)[1]
             s == LinkFrames(links, "unlinked", l)
  <2>1. l \in links /\ p \in Pads /\ p.of \in E2 /\ p \in DOMAIN m.peer
    BY <1>1, <1>4, <1>10, <1>11
  <2>2. Located(n, p) = p
    BY <1>3, <1>4, <2>1, LocatedIs
  <2>3. Item(Chain(links, l), Drawn(l))
    BY <1>1, <2>1, ChainItems
  <2>4. Hit(n, s, Len(s), p)
    BY <1>1, <1>11, <2>1, <2>2, <2>3, HitInChain
  <2>5. Hit(n, t, Len(t), p)
    BY <1>5, <2>4
  <2> QED  BY <1>8, <2>1, <2>5
<1>12. ASSUME NEW j \in sub, z.peer[Drawn(j)[1]] # m.peer[Drawn(j)[1]] PROVE HiddenIn(j, E2, sub, more)
  <2> DEFINE p == Drawn(j)[1]
  <2>1. j \in links /\ p \in DOMAIN m.peer
    BY <1>1, <1>4, <1>10
  <2>2. Hit(n, t, Len(t), p)
    BY <1>8, <1>12, <2>1
  <2>3. PICK l \in own : Hit(n, LinkFrames(links, "unlinked", l), Len(LinkFrames(links, "unlinked", l)), p)
    BY <1>5, <2>2
  <2> HIDE DEF p
  <2>4. l \in links
    BY <1>1
  <2>5. ~l[1].inner /\ \E x : Item(Chain(links, l), x) /\ (p = Located(n, x[1]) \/ p = Located(n, x[2]))
    BY <1>1, <2>3, <2>4, HitInChain
  <2>6. PICK x : Item(Chain(links, l), x) /\ (p = Located(n, x[1]) \/ p = Located(n, x[2]))
    BY <2>5
  <2>7. PICK y \in {x[1], x[2]} : Drawn(j)[1] = Located(n, y)
    BY <2>6 DEF p
  <2> QED  BY <1>4, <2>5, <2>6, <2>7, RemoveHides DEF own, sub, more, E2
<1>13. Shows(z, E2, sub, more)
  <2>1. \A p \in DOMAIN m.peer : z.peer[p] = m.peer[p] \/ z.peer[p] = NoPad
    BY <1>8
  <2>2. \A k \in links \ sub : \/ k \in more /\ k[1].inner
                               \/ k[1].of \notin E2
                               \/ z.peer[Drawn(k)[1]] = NoPad
    BY <1>3, <1>10, <1>11
  <2>3. \A j \in sub : z.peer[Drawn(j)[1]] = m.peer[Drawn(j)[1]] \/ HiddenIn(j, E2, sub, more)
    BY <1>12
  <2>4. E2 \subseteq z.shown /\ (\A d \in z.shown : Parent[d] \in E2 \cup {Root} => d \in E2)
        /\ DOMAIN z.peer = DOMAIN m.peer
    BY <1>2, <1>8
  <2>5. E2 \in SUBSET E /\ sub \in SUBSET links /\ gone \subseteq more /\ links \subseteq Links
    BY <1>1, <1>2
  <2> HIDE DEF more
  <2> QED  BY <2>1, <2>2, <2>3, <2>4, <2>5, ClearedShows
<1> QED  BY <1>9, <1>13 DEF own, sub, more, E2, z

\* What is told of an element, and of what its source pad feeds.
Announced(E, e) ==
  IF e \notin E THEN <<>>
  ELSE <<[what |-> "added", of |-> e], [what |-> "pad", pad |-> PadOf(e, "src")],
         [what |-> "pad", pad |-> PadOf(e, "sink")]>>
Collected(E, links, e) ==
  IF e \notin E \/ Peers(links, PadOf(e, "src")) = {} THEN <<>>
  ELSE LinkFrames(links, "linked", <<PadOf(e, "src"), CHOOSE q \in Peers(links, PadOf(e, "src")) : TRUE>>)
FirstPart(E) == FlattenSeq([i \in DOMAIN Order |-> Announced(E, Order[i])])
SecondPart(E, links) == FlattenSeq([i \in DOMAIN Order |-> Collected(E, links, Order[i])])

LEMMA TopologyIs ==
  ASSUME NEW E, NEW links
  PROVE  EntireTopology(E, links) = FirstPart(E) \o SecondPart(E, links)
BY DEF EntireTopology, FirstPart, SecondPart, Announced, Collected

AddedFrame(e) == [what |-> "added", of |-> e]
PadFrame(p) == [what |-> "pad", pad |-> p]

LEMMA FirstPartIs ==
  ASSUME NEW E, E \subseteq Elements
  PROVE  /\ IsSequence(FirstPart(E))
         /\ \A i \in 1..Len(FirstPart(E)) :
              \/ \E e \in E : FirstPart(E)[i] = AddedFrame(e)
              \/ \E p \in Pads : FirstPart(E)[i] = PadFrame(p)
         /\ \A e \in E : \E i \in 1..Len(FirstPart(E)) : FirstPart(E)[i] = AddedFrame(e)
         /\ \A p \in Pads : p.of \in E => \E i \in 1..Len(FirstPart(E)) : FirstPart(E)[i] = PadFrame(p)
<1> DEFINE r == [i \in DOMAIN Order |-> Announced(E, Order[i])]
           t == FirstPart(E)
           A(e) == AddedFrame(e)
           B(e) == PadFrame(PadOf(e, "src"))
           C(e) == PadFrame(PadOf(e, "sink"))
<1>1. DOMAIN Order = 1..Len(Order) /\ Len(Order) \in Nat
      /\ \A e \in Elements : Place(e) \in 1..Len(Order) /\ Order[Place(e)] = e
  BY OrderFacts
<1>2. t = FlattenSeq(r)
  BY DEF FirstPart
<1>3. IsSequence(r) /\ Len(r) = Len(Order)
  BY <1>1, ListIsSequence
<1>4. \A i \in 1..Len(Order) : r[i] = Announced(E, Order[i])
  BY <1>1
<1>5. \A e : e \in E => Announced(E, e) = <<A(e), B(e), C(e)>>
  BY DEF Announced, AddedFrame, PadFrame
<1>6. \A e : e \notin E => Announced(E, e) = <<>>
  BY DEF Announced
<1> HIDE DEF A, B, C, r, t
<1>7. \A e : IsSequence(Announced(E, e))
  <2> TAKE e
  <2>1. IsSequence(<<A(e), B(e), C(e)>>)
    <3>1. <<A(e), B(e), C(e)>> \in Seq({A(e), B(e), C(e)})
      OBVIOUS
    <3> QED  BY <3>1 DEF IsSequence
  <2> QED  BY <1>5, <1>6, <2>1, EmptyIsSequence
<1>8. ASSUME NEW e, NEW j \in 1..Len(Announced(E, e))
      PROVE  e \in E /\ Announced(E, e)[j] \in {A(e), B(e), C(e)}
  <2>1. e \in E
    BY <1>6
  <2>2. Len(Announced(E, e)) = 3
    BY <1>5, <2>1
  <2>3. j = 1 \/ j = 2 \/ j = 3
    BY <2>2
  <2> QED  BY <1>5, <2>1, <2>3
<1>9. \A k \in 1..Len(r) : IsSequence(r[k])
  BY <1>3, <1>4, <1>7
<1>10. IsSequence(t)
  BY <1>2, <1>3, <1>9, FlattenIsSequence
<1>11. \A i \in 1..Len(t) : \E k \in 1..Len(r) : \E j \in 1..Len(r[k]) : t[i] = r[k][j]
  <2>1. \A i \in 1..Len(FlattenSeq(r)) : \E k \in 1..Len(r) : \E j \in 1..Len(r[k]) : FlattenSeq(r)[i] = r[k][j]
    BY ONLY <1>3, <1>9, FlattenItems
  <2> QED  BY ONLY <1>2, <2>1
<1>12. \A k \in 1..Len(r) : \A j \in 1..Len(r[k]) : \E i \in 1..Len(t) : t[i] = r[k][j]
  <2>1. \A k \in 1..Len(r) : \A j \in 1..Len(r[k]) :
          \E i \in 1..Len(FlattenSeq(r)) : FlattenSeq(r)[i] = r[k][j]
    BY ONLY <1>3, <1>9, FlattenKeepsItems
  <2> QED  BY ONLY <1>2, <2>1
<1>13. \A i \in 1..Len(t) : \E e \in E : t[i] \in {A(e), B(e), C(e)}
  <2> TAKE i \in 1..Len(t)
  <2>1. PICK k \in 1..Len(r) : \E j \in 1..Len(r[k]) : t[i] = r[k][j]
    BY ONLY <1>11
  <2>2. r[k] = Announced(E, Order[k])
    BY ONLY <1>3, <1>4
  <2>3. PICK j \in 1..Len(Announced(E, Order[k])) : t[i] = Announced(E, Order[k])[j]
    BY ONLY <2>1, <2>2
  <2>4. Order[k] \in E /\ t[i] \in {A(Order[k]), B(Order[k]), C(Order[k])}
    BY <1>8, <2>3
  <2> QED  BY ONLY <2>4
<1>14. ASSUME NEW e \in E, NEW x \in {A(e), B(e), C(e)} PROVE \E i \in 1..Len(t) : t[i] = x
  <2>1. Place(e) \in 1..Len(r) /\ r[Place(e)] = <<A(e), B(e), C(e)>>
    BY <1>1, <1>3, <1>4, <1>5
  <2>2. \E j \in 1..Len(r[Place(e)]) : r[Place(e)][j] = x
    <3>1. Len(r[Place(e)]) = 3 /\ 1 \in 1..3 /\ 2 \in 1..3 /\ 3 \in 1..3
      BY <2>1
    <3> QED  BY <2>1, <3>1
  <2> QED  BY <1>12, <2>1, <2>2
<1>15. \A e \in Elements, d \in {"src", "sink"} : PadOf(e, d) \in Pads
  BY DEF PadOf, Pads
<1>16. \A p \in Pads : p = PadOf(p.of, "src") \/ p = PadOf(p.of, "sink")
  <2>1. \A p \in Pads : p \in AllPads /\ ~p.inner /\ p.dir \in {"src", "sink"}
    BY DEF Pads, AllPads
  <2> QED  BY <2>1, PadIsKnown
<1>17. ASSUME NEW i \in 1..Len(t)
       PROVE  \/ \E e \in E : t[i] = AddedFrame(e)
              \/ \E p \in Pads : t[i] = PadFrame(p)
  <2>1. PICK e \in E : t[i] \in {A(e), B(e), C(e)}
    BY <1>13
  <2>2. PadOf(e, "src") \in Pads /\ PadOf(e, "sink") \in Pads
    BY <1>15
  <2> QED  BY <2>1, <2>2 DEF A, B, C
<1>18. ASSUME NEW p \in Pads, p.of \in E PROVE \E i \in 1..Len(t) : t[i] = PadFrame(p)
  <2>1. PadFrame(p) \in {B(p.of), C(p.of)}
    BY <1>16 DEF B, C
  <2> QED  BY <1>14, <1>18, <2>1
<1>19. \A e \in E : \E i \in 1..Len(t) : t[i] = AddedFrame(e)
  BY <1>14 DEF A
<1> QED  BY <1>10, <1>17, <1>18, <1>19 DEF t

\* A link that is drawn on its way.
Reports(f, l) == f.what = "linked" /\ f.src = Drawn(l)[1] /\ f.sink = Drawn(l)[2]

LEMMA CollectedIs ==
  ASSUME NEW E, NEW links, Matching(links), NEW e \in Elements
  PROVE  /\ IsSequence(Collected(E, links, e))
         /\ \A i \in 1..Len(Collected(E, links, e)) : \E k \in links : Reports(Collected(E, links, e)[i], k)
         /\ \A l \in links, k \in links : e \in E /\ l[1] = PadOf(e, "src") /\ Item(Chain(links, l), Drawn(k)) =>
              \E i \in 1..Len(Collected(E, links, e)) : Reports(Collected(E, links, e)[i], k)
<1> DEFINE p == PadOf(e, "src")
           to == Peers(links, p)
           q == CHOOSE x \in to : TRUE
           l == <<p, q>>
           s == LinkFrames(links, "linked", l)
           t == Collected(E, links, e)
<1>1. p.dir = "src" /\ ~p.inner /\ p \in AllPads
  BY DEF PadOf, AllPads, Pads
<1>2. \A x \in to : <<p, x>> \in links
  <2>1. \A k \in links : k[2].dir = "sink"
    BY LinkFacts DEF Matching
  <2>2. \A x : <<x, p>> \in links => p.dir = "sink"
    <3> TAKE x
    <3> HAVE <<x, p>> \in links
    <3>1. <<x, p>>[2].dir = "sink"
      BY <2>1
    <3> QED  BY <3>1
  <2> QED  BY <1>1, <2>2 DEF Peers
<1>3. \A x : <<p, x>> \in links => x \in to
  <2>1. \A k \in links : k[2] \in AllPads
    BY LinkFacts DEF Matching
  <2>2. \A x : <<p, x>> \in links => x \in AllPads
    <3> TAKE x
    <3> HAVE <<p, x>> \in links
    <3>1. <<p, x>>[2] \in AllPads
      BY <2>1
    <3> QED  BY <3>1
  <2> QED  BY <2>2 DEF Peers
<1>4. CASE e \notin E \/ to = {}
  <2>1. t = <<>>
    BY <1>4 DEF Collected
  <2>2. ASSUME NEW k \in links, e \in E, k[1] = p PROVE FALSE
    <3>1. k = <<p, k[2]>>
      BY <2>2, LinkFacts DEF Matching
    <3>2. k[2] \in to
      BY <1>3, <3>1
    <3> QED  BY <1>4, <2>2, <3>2
  <2> HIDE DEF t, p
  <2>3. IsSequence(t) /\ Len(t) = 0
    BY <2>1, EmptyIsSequence
  <2> QED  BY <2>2, <2>3 DEF t, p
<1>5. CASE ~(e \notin E \/ to = {})
  <2>1. t = s
    BY <1>5 DEF Collected
  <2>2. q \in to
    BY <1>5
  <2>3. l \in links /\ l[1] = p
    BY <1>2, <2>2
  <2> HIDE DEF l, q, t, to
  <2>4. /\ IsSequence(s) /\ \A i \in 1..Len(s) : s[i].what = "linked"
        /\ \A a, c : Tells(s, a, c) <=> Lists(Chain(links, l), a, c)
    BY <1>1, <2>3, LinkFramesAre
  <2> HIDE DEF s
  <2>5. ASSUME NEW i \in 1..Len(s) PROVE \E k \in links : Reports(s[i], k)
    <3>1. Tells(s, s[i].src, s[i].sink)
      BY DEF Tells
    <3>2. Lists(Chain(links, l), s[i].src, s[i].sink)
      BY <2>4, <3>1
    <3>3. PICK j \in 1..Len(Chain(links, l)) :
            Chain(links, l)[j][1] = s[i].src /\ Chain(links, l)[j][2] = s[i].sink
      BY <3>2 DEF Lists
    <3>4. Item(Chain(links, l), Chain(links, l)[j])
      BY DEF Item
    <3>5. PICK k \in links : Chain(links, l)[j] = Drawn(k)
      BY <2>3, <3>4, ChainIsInside
    <3> QED  BY <2>4, <3>3, <3>5 DEF Reports
  <2>6. ASSUME NEW j \in links, NEW k \in links, j[1] = p, Item(Chain(links, j), Drawn(k))
        PROVE  \E i \in 1..Len(s) : Reports(s[i], k)
    <3>1. j = l
      BY <2>3, <2>6 DEF Matching
    <3>2. Lists(Chain(links, l), Drawn(k)[1], Drawn(k)[2])
      BY <2>6, <3>1 DEF Item, Lists
    <3>3. Tells(s, Drawn(k)[1], Drawn(k)[2])
      BY <2>4, <3>2
    <3> QED  BY <2>4, <3>3 DEF Reports, Tells
  <2> QED  BY <2>1, <2>4, <2>5, <2>6 DEF t
<1> QED  BY <1>4, <1>5

LEMMA SecondPartIs ==
  ASSUME NEW E, NEW links, NEW gone, Pipeline(E, links, gone)
  PROVE  /\ IsSequence(SecondPart(E, links))
         /\ \A i \in 1..Len(SecondPart(E, links)) : \E k \in links : Reports(SecondPart(E, links)[i], k)
         /\ \A k \in links : (k[1].inner => Fed(links)[k[1].of]) =>
              \E i \in 1..Len(SecondPart(E, links)) : Reports(SecondPart(E, links)[i], k)
<1> DEFINE F(e) == Collected(E, links, e)
           c == [i \in DOMAIN Order |-> F(Order[i])]
           t == SecondPart(E, links)
<1>1. DOMAIN Order = 1..Len(Order) /\ Len(Order) \in Nat
      /\ \A e \in Elements : Place(e) \in 1..Len(Order) /\ Order[Place(e)] = e
  BY OrderFacts
<1>2. t = FlattenSeq(c)
  BY DEF SecondPart
<1>3. IsSequence(c) /\ Len(c) = Len(Order)
  BY <1>1, ListIsSequence
<1>4. \A i \in 1..Len(Order) : c[i] = F(Order[i]) /\ Order[i] \in Elements
  BY <1>1 DEF Elements, ToSet
<1>5. Matching(links) /\ links \subseteq Links /\ \A l \in links : l[1].of \in E
  BY DEF Pipeline, Matching
<1>6. \A e \in Elements :
         /\ IsSequence(F(e)) /\ \A i \in 1..Len(F(e)) : \E k \in links : Reports(F(e)[i], k)
         /\ \A l \in links, k \in links : e \in E /\ l[1] = PadOf(e, "src") /\ Item(Chain(links, l), Drawn(k)) =>
              \E i \in 1..Len(F(e)) : Reports(F(e)[i], k)
  BY <1>5, CollectedIs
<1> HIDE DEF F, c, t
<1>7. \A k \in 1..Len(c) : IsSequence(c[k])
  BY <1>3, <1>4, <1>6
<1>8. IsSequence(t)
  BY <1>2, <1>3, <1>7, FlattenIsSequence
<1>9. \A i \in 1..Len(t) : \E k \in 1..Len(c) : \E j \in 1..Len(c[k]) : t[i] = c[k][j]
  <2>1. \A i \in 1..Len(FlattenSeq(c)) : \E k \in 1..Len(c) : \E j \in 1..Len(c[k]) : FlattenSeq(c)[i] = c[k][j]
    BY ONLY <1>3, <1>7, FlattenItems
  <2> QED  BY ONLY <1>2, <2>1
<1>10. \A k \in 1..Len(c) : \A j \in 1..Len(c[k]) : \E i \in 1..Len(t) : t[i] = c[k][j]
  <2>1. \A k \in 1..Len(c) : \A j \in 1..Len(c[k]) :
          \E i \in 1..Len(FlattenSeq(c)) : FlattenSeq(c)[i] = c[k][j]
    BY ONLY <1>3, <1>7, FlattenKeepsItems
  <2> QED  BY ONLY <1>2, <2>1
<1>11. ASSUME NEW i \in 1..Len(t) PROVE \E k \in links : Reports(t[i], k)
  <2>1. PICK k \in 1..Len(c) : \E j \in 1..Len(c[k]) : t[i] = c[k][j]
    BY <1>9
  <2>2. PICK j \in 1..Len(c[k]) : t[i] = c[k][j]
    BY <2>1
  <2>3. c[k] = F(Order[k]) /\ Order[k] \in Elements
    BY <1>3, <1>4
  <2> QED  BY <1>6, <2>2, <2>3
<1>12. ASSUME NEW k \in links, k[1].inner => Fed(links)[k[1].of]
       PROVE  \E i \in 1..Len(t) : Reports(t[i], k)
  <2>1. PICK l \in links : ~l[1].inner /\ Item(Chain(links, l), Drawn(k))
    BY <1>5, <1>12, FedIsReported
  <2>2. l[1].of \in Elements /\ l[1].of \in E /\ l[1] = PadOf(l[1].of, "src")
    <3>1. l \in Links /\ l[1] \in AllPads /\ l[1].dir = "src" /\ l[1].of \in Elements
      BY <1>5, LinkFacts
    <3> QED  BY <1>5, <2>1, <3>1, PadIsKnown
  <2> DEFINE e == l[1].of
  <2>3. PICK i \in 1..Len(F(e)) : Reports(F(e)[i], k)
    BY <1>6, <2>1, <2>2
  <2>4. Place(e) \in 1..Len(c) /\ c[Place(e)] = F(e)
    BY <1>1, <1>3, <1>4, <2>2
  <2>5. \E n \in 1..Len(t) : t[n] = F(e)[i]
    BY <1>10, <2>3, <2>4
  <2> QED  BY <2>3, <2>5
<1> QED  BY <1>8, <1>11, <1>12 DEF t

LEMMA AddedIs ==
  ASSUME NEW m, MirrorOK(m), NEW e \in Elements, NEW n, n = Process(m, [what |-> "added", of |-> e])
  PROVE  MirrorOK(n) /\ n.shown = m.shown \cup {e} /\ n.peer = m.peer
<1> DEFINE T == m.shown
           P == m.peer
<1>1. m = [shown |-> T, peer |-> P] /\ T \subseteq Elements /\ DOMAIN P \subseteq Pads
  BY DEF MirrorOK
<1>2. n = [m EXCEPT !.shown = T \cup {e}]
  BY DEF Process
<1> HIDE DEF T, P
<1>3. n = [shown |-> T \cup {e}, peer |-> P]
  BY <1>1, <1>2
<1>4. n.shown = T \cup {e} /\ n.peer = P
  BY <1>3
<1>5. MirrorOK(n)
  BY <1>1, <1>3, <1>4 DEF MirrorOK
<1> QED  BY <1>4, <1>5 DEF T, P

LEMMA PadIs ==
  ASSUME NEW m, MirrorOK(m), NEW p \in Pads, Located(m, p) = p, NEW n, n = Process(m, [what |-> "pad", pad |-> p])
  PROVE  /\ MirrorOK(n) /\ n.shown = m.shown /\ DOMAIN n.peer = DOMAIN m.peer \cup {p}
         /\ \A x \in DOMAIN n.peer : n.peer[x] = IF x \in DOMAIN m.peer THEN m.peer[x] ELSE NoPad
<1> DEFINE T == m.shown
           P == m.peer
           Q == [x \in DOMAIN P \cup {p} |-> IF x \in DOMAIN P THEN P[x] ELSE NoPad]
<1>1. m = [shown |-> T, peer |-> P] /\ T \subseteq Elements /\ DOMAIN P \subseteq Pads
  BY DEF MirrorOK
<1>2. n = [m EXCEPT !.peer = Q]
  BY DEF Process
<1>3. DOMAIN Q = DOMAIN P \cup {p} /\ \A x \in DOMAIN Q : Q[x] = IF x \in DOMAIN P THEN P[x] ELSE NoPad
  OBVIOUS
<1> HIDE DEF T, P, Q
<1>4. n = [shown |-> T, peer |-> Q]
  BY <1>1, <1>2
<1>5. n.shown = T /\ n.peer = Q
  BY <1>4
<1>6. MirrorOK(n)
  BY <1>1, <1>3, <1>4, <1>5 DEF MirrorOK
<1> QED  BY <1>3, <1>5, <1>6 DEF T, P

LEMMA ReadyPad ==
  ASSUME NEW m, NEW s, IsSequence(s), NEW k \in Nat, k + 1 <= Len(s), Ready(m, s, k),
         NEW p, s[k + 1] = PadFrame(p)
  PROVE  p \in Pads /\ Located(m, p) = p
<1>1. Len(s) \in Nat /\ k + 1 \in (k + 1)..Len(s)
  BY LenIsNatural
<1>2. s[k + 1].what = "pad" /\ s[k + 1].pad = p
  BY DEF PadFrame
<1>3. Framed(s[k + 1]) /\ Founded(m, s, k, k + 1)
  BY <1>1, <1>2 DEF Ready
<1>4. PICK C \in SUBSET Elements :
          /\ Tree(C) /\ p.of \in C
          /\ \A c \in C : c \in m.shown \/ \E j \in (k + 1)..(k + 1 - 1) : s[j] = [what |-> "added", of |-> c]
  BY <1>2, <1>3 DEF Founded
<1>5. C \subseteq m.shown
  <2>1. (k + 1)..(k + 1 - 1) = {}
    OBVIOUS
  <2> QED  BY <1>4, <2>1
<1>6. p \in Pads
  BY <1>2, <1>3 DEF Framed
<1> QED  BY <1>4, <1>5, <1>6, LocatedIs

\* Elements and pads come first, and nothing is linked yet.
LEMMA FirstPartShows ==
  ASSUME NEW E, NEW links, NEW gone, Pipeline(E, links, gone), NEW v, Trace(v, NoMirror, EntireTopology(E, links)),
         NEW i \in 0..Len(FirstPart(E))
  PROVE  /\ MirrorOK(v[i]) /\ v[i].shown \subseteq E /\ \A p \in DOMAIN v[i].peer : v[i].peer[p] = NoPad
         /\ \A j \in 1..i : /\ \A e : FirstPart(E)[j] = AddedFrame(e) => e \in v[i].shown
                            /\ \A p : FirstPart(E)[j] = PadFrame(p) => p \in DOMAIN v[i].peer
<1> DEFINE a == FirstPart(E)
           all == EntireTopology(E, links)
           x == SecondPart(E, links)
           Heard(m, n) == \A j \in 1..n : /\ \A e : a[j] = AddedFrame(e) => e \in m.shown
                                         /\ \A p : a[j] = PadFrame(p) => p \in DOMAIN m.peer
           Good(m, n) == /\ MirrorOK(m) /\ Ready(m, all, n)
                         /\ m.shown \subseteq E /\ \A p \in DOMAIN m.peer : m.peer[p] = NoPad
                         /\ Heard(m, n)
           T == {n \in Nat : n <= Len(a) => Good(v[n], n)}
<1>1. E \subseteq Elements /\ Tree(E) /\ links \in SUBSET Links
  BY DEF Pipeline, Tree, Matching
<1>2. all = a \o x /\ IsSequence(a) /\ IsSequence(x) /\ IsSequence(all) /\ Ready(NoMirror, all, 0)
  BY <1>1, TopologyIs, FirstPartIs, SecondPartIs, TopologyIsSequence, TopologyIsReady
<1>3. \A j \in 1..Len(a) : \/ \E e \in E : a[j] = AddedFrame(e)
                           \/ \E p \in Pads : a[j] = PadFrame(p)
  <2>1. \A j \in 1..Len(FirstPart(E)) :
          \/ \E e \in E : FirstPart(E)[j] = AddedFrame(e)
          \/ \E p \in Pads : FirstPart(E)[j] = PadFrame(p)
    BY <1>1, FirstPartIs
  <2> QED  BY ONLY <2>1
<1> HIDE DEF a, all, x
<1>4. Len(a) \in Nat /\ Len(all) \in Nat /\ Len(a) <= Len(all) /\ \A j \in 1..Len(a) : all[j] = a[j]
  <2>1. Len(all) = Len(a) + Len(x) /\ Len(a) \in Nat /\ Len(x) \in Nat
    BY <1>2, ConcatIsSequence
  <2> QED  BY <1>2, <2>1, ConcatParts
<1>5. v[0] = NoMirror /\ \A j \in Nat : j + 1 <= Len(all) => v[j + 1] = Process(v[j], all[j + 1])
  BY DEF Trace, all
<1>6. 0 \in T
  <2>1. MirrorOK(NoMirror) /\ NoMirror.shown = {} /\ DOMAIN NoMirror.peer = {}
    BY DEF MirrorOK, NoMirror
  <2> QED  BY <1>2, <1>5, <2>1
<1>7. ASSUME NEW n \in Nat, n \in T, n + 1 <= Len(a) PROVE Good(v[n + 1], n + 1)
  <2> DEFINE m == v[n]
             k == v[n + 1]
  <2>1. Good(m, n) /\ n + 1 \in 1..Len(a) /\ n + 1 <= Len(all)
    <3> HIDE DEF Good
    <3>1. Good(m, n)
      BY <1>4, <1>7
    <3> QED  BY <1>4, <1>7, <3>1
  <2>2. k = Process(m, a[n + 1]) /\ all[n + 1] = a[n + 1]
    BY <1>4, <1>5, <2>1
  <2> HIDE DEF m, k
  <2>3. MirrorOK(k) /\ Ready(k, all, n + 1)
    BY <1>2, <2>1, <2>2, ReadyNext
  <2>4. ASSUME m.shown \subseteq k.shown, DOMAIN m.peer \subseteq DOMAIN k.peer,
               \A e : a[n + 1] = AddedFrame(e) => e \in k.shown,
               \A p : a[n + 1] = PadFrame(p) => p \in DOMAIN k.peer
        PROVE  Heard(k, n + 1)
    <3>1. \A j \in 1..(n + 1) : j \in 1..n \/ j = n + 1
      OBVIOUS
    <3> QED  BY <2>1, <2>4, <3>1
  <2> HIDE DEF Heard
  <2>5. CASE \E e \in E : a[n + 1] = AddedFrame(e)
    <3>1. PICK e \in E : a[n + 1] = AddedFrame(e)
      BY <2>5
    <3>2. k.shown = m.shown \cup {e} /\ k.peer = m.peer
      BY <1>1, <2>1, <2>2, <3>1, AddedIs DEF AddedFrame
    <3>3. (\A d : a[n + 1] = AddedFrame(d) => d = e)
          /\ \A p : a[n + 1] # PadFrame(p)
      <4>1. a[n + 1].what = "added" /\ a[n + 1].of = e
        BY <3>1 DEF AddedFrame, PadFrame
      <4> QED  BY <3>1, <4>1 DEF AddedFrame, PadFrame
    <3>4. Heard(k, n + 1)
      BY <2>4, <3>2, <3>3
    <3> QED  BY <2>1, <2>3, <3>2, <3>4 DEF k
  <2>6. CASE \E p \in Pads : a[n + 1] = PadFrame(p)
    <3>1. PICK p \in Pads : a[n + 1] = PadFrame(p)
      BY <2>6
    <3>2. Located(m, p) = p
      <4>1. Ready(m, all, n) /\ all[n + 1] = PadFrame(p) /\ n + 1 <= Len(all)
        BY <2>1, <2>2, <3>1
      <4> QED  BY <1>2, <1>7, <4>1, ReadyPad, ZenonT(40)
    <3>3. /\ k.shown = m.shown /\ DOMAIN k.peer = DOMAIN m.peer \cup {p}
          /\ \A y \in DOMAIN k.peer : k.peer[y] = IF y \in DOMAIN m.peer THEN m.peer[y] ELSE NoPad
      BY <2>1, <2>2, <3>1, <3>2, PadIs DEF PadFrame
    <3>4. (\A d : a[n + 1] # AddedFrame(d))
          /\ \A y : a[n + 1] = PadFrame(y) => y = p
      <4>1. a[n + 1].what = "pad" /\ a[n + 1].pad = p
        BY <3>1 DEF AddedFrame, PadFrame
      <4> QED  BY <3>1, <4>1 DEF AddedFrame, PadFrame
    <3>5. Heard(k, n + 1)
      BY <2>4, <3>3, <3>4
    <3> QED  BY <2>1, <2>3, <3>3, <3>5 DEF k
  <2> QED  BY <1>3, <2>1, <2>5, <2>6
<1>8. Nat \subseteq T
  <2>1. \A n \in Nat : n \in T => n + 1 \in T
    <3> HIDE DEF Good
    <3> QED  BY <1>7
  <2> HIDE DEF T
  <2> QED  BY <1>6, <2>1, SetInduction
<1>9. i \in T /\ i <= Len(a)
  BY <1>4, <1>8 DEF a
<1>10. Good(v[i], i)
  BY <1>9
<1> QED  BY <1>10 DEF a

\* The models when all elements and pads are told.
LEMMA FirstPartIsAll ==
  ASSUME NEW E, NEW links, NEW gone, Pipeline(E, links, gone), NEW v, Trace(v, NoMirror, EntireTopology(E, links)),
         NEW m, m = v[Len(FirstPart(E))]
  PROVE  /\ MirrorOK(m) /\ m.shown = E /\ \A p \in DOMAIN m.peer : m.peer[p] = NoPad
         /\ \A p \in Pads : p.of \in E => p \in DOMAIN m.peer
<1> DEFINE a == FirstPart(E)
           n == Len(a)
<1>1. E \subseteq Elements
  BY DEF Pipeline, Tree
<1>2. IsSequence(a) /\ n \in Nat
  BY <1>1, FirstPartIs, LenIsNatural
<1>3. /\ \A e \in E : \E i \in 1..n : a[i] = AddedFrame(e)
      /\ \A p \in Pads : p.of \in E => \E i \in 1..n : a[i] = PadFrame(p)
  BY <1>1, FirstPartIs
<1>4. n \in 0..n
  BY <1>2
<1>5. /\ MirrorOK(m) /\ m.shown \subseteq E /\ \A p \in DOMAIN m.peer : m.peer[p] = NoPad
      /\ \A j \in 1..n : /\ \A e : a[j] = AddedFrame(e) => e \in m.shown
                         /\ \A p : a[j] = PadFrame(p) => p \in DOMAIN m.peer
  BY <1>4, FirstPartShows
<1> HIDE DEF a, n
<1> QED  BY <1>3, <1>5

\* All elements and pads are known.
Complete(m, E) == MirrorOK(m) /\ m.shown = E /\ \A p \in Pads : p.of \in E => p \in DOMAIN m.peer

\* What is drawn of the link is new.
Joins(m, n, l) ==
  /\ DOMAIN n.peer = DOMAIN m.peer
  /\ \A p \in DOMAIN m.peer : Draws(p) => n.peer[p] = IF p = Drawn(l)[1] THEN Drawn(l)[2] ELSE m.peer[p]

\* A link that is told between pads that are known.
LEMMA LinkedIs ==
  ASSUME NEW m, NEW E, Complete(m, E), NEW links, NEW gone, Pipeline(E, links, gone),
         NEW l \in links, NEW f, Reports(f, l), NEW n, n = Process(m, f)
  PROVE  Complete(n, E) /\ Joins(m, n, l)
<1> DEFINE s == Drawn(l)[1]
           k == Drawn(l)[2]
<1>1. /\ Tree(E) /\ l \in Links /\ l[1].of \in E /\ l[2].of \in E /\ E \subseteq Elements
  BY DEF Pipeline, Matching, Tree
<1>2. MirrorOK(m) /\ m.shown = E /\ \A p \in Pads : p.of \in E => p \in DOMAIN m.peer
  BY DEF Complete
<1>3. s \in Pads /\ k \in Pads /\ s.of \in E /\ k.of \in E /\ s.of # k.of
  BY <1>1, DrawnFacts, LinkFacts
<1>4. n = AddLink(m, Located(m, s), Located(m, k))
  BY DEF Reports, Process
<1> HIDE DEF s, k
<1>5. Located(m, s) = s /\ Located(m, k) = k
  BY <1>2, <1>1, <1>3, LocatedIs
<1>6. /\ MirrorOK(n) /\ n.shown = m.shown /\ DOMAIN n.peer = DOMAIN m.peer
      /\ \A p \in DOMAIN m.peer : \/ n.peer[p] = m.peer[p] /\ (s \in DOMAIN m.peer /\ k \in DOMAIN m.peer => p # s)
                                  \/ p = s /\ k \in DOMAIN m.peer /\ n.peer[p] = k
                                  \/ p = k /\ k.dir = "sink" /\ ~IsGhost(k) /\ s \in DOMAIN m.peer /\ n.peer[p] = s
  BY <1>2, <1>4, <1>5, AddIs
<1>7. s \in DOMAIN m.peer /\ k \in DOMAIN m.peer
  BY <1>2, <1>3
<1>8. \A p \in DOMAIN m.peer : Draws(p) => n.peer[p] = IF p = s THEN k ELSE m.peer[p]
  BY <1>3, <1>6, <1>7 DEF Draws
<1> QED  BY <1>2, <1>6, <1>8 DEF s, k, Complete, Joins

\* The links follow.
LEMMA SecondPartShows ==
  ASSUME NEW E, NEW links, NEW gone, Pipeline(E, links, gone), NEW v, Trace(v, NoMirror, EntireTopology(E, links)),
         NEW i \in 0..Len(SecondPart(E, links)), NEW m, m = v[Len(FirstPart(E)) + i]
  PROVE  /\ MirrorOK(m) /\ m.shown = E /\ \A p \in Pads : p.of \in E => p \in DOMAIN m.peer
         /\ \A p \in DOMAIN m.peer : Draws(p) /\ m.peer[p] # NoPad => \E l \in links : Drawn(l) = <<p, m.peer[p]>>
         /\ \A j \in 1..i : \A l \in links : Reports(SecondPart(E, links)[j], l) => m.peer[Drawn(l)[1]] = Drawn(l)[2]
<1> DEFINE a == FirstPart(E)
           all == EntireTopology(E, links)
           x == SecondPart(E, links)
           Set(n, k) == \A j \in 1..k : \A l \in links : Reports(x[j], l) => n.peer[Drawn(l)[1]] = Drawn(l)[2]
           Good(n, k) ==
             /\ MirrorOK(n) /\ n.shown = E /\ \A p \in Pads : p.of \in E => p \in DOMAIN n.peer
             /\ \A p \in DOMAIN n.peer : Draws(p) /\ n.peer[p] # NoPad => \E l \in links : Drawn(l) = <<p, n.peer[p]>>
             /\ Set(n, k)
           T == {k \in Nat : k <= Len(x) => Good(v[Len(a) + k], k)}
<1>1. E \subseteq Elements /\ Tree(E) /\ links \in SUBSET Links /\ Matching(links) /\ \A l \in links : l[1].of \in E
  BY DEF Pipeline, Tree, Matching
<1>2. all = a \o x /\ IsSequence(a) /\ IsSequence(x)
  BY <1>1, TopologyIs, FirstPartIs, SecondPartIs
<1>3. \A j \in 1..Len(x) : \E l \in links : Reports(x[j], l)
  BY SecondPartIs
<1>4. Good(v[Len(a)], 0)
  <2> DEFINE n == v[Len(a)]
  <2>1. /\ MirrorOK(n) /\ n.shown = E /\ \A p \in DOMAIN n.peer : n.peer[p] = NoPad
        /\ \A p \in Pads : p.of \in E => p \in DOMAIN n.peer
    BY FirstPartIsAll
  <2> QED  BY <2>1
<1>5. \A j \in Nat : j + 1 <= Len(all) => v[j + 1] = Process(v[j], all[j + 1])
  BY DEF Trace
<1> HIDE DEF a, all, x
<1>6. Len(a) \in Nat /\ Len(x) \in Nat /\ Len(all) = Len(a) + Len(x) /\ \A j \in 1..Len(x) : all[Len(a) + j] = x[j]
  BY <1>2, ConcatIsSequence, ConcatParts
<1>7. ASSUME NEW k \in Nat, k \in T, k + 1 <= Len(x) PROVE Good(v[Len(a) + (k + 1)], k + 1)
  <2> DEFINE n == v[Len(a) + k]
             o == v[Len(a) + (k + 1)]
  <2>1. Good(n, k) /\ k + 1 \in 1..Len(x)
    <3> HIDE DEF Good
    <3>1. Good(n, k)
      BY <1>6, <1>7
    <3> QED  BY <1>6, <1>7, <3>1
  <2>2. o = Process(n, x[k + 1])
    <3>1. Len(a) + k \in Nat /\ (Len(a) + k) + 1 = Len(a) + (k + 1) /\ (Len(a) + k) + 1 <= Len(all)
      BY <1>6, <1>7
    <3>2. o = Process(n, all[Len(a) + (k + 1)])
      BY <1>5, <3>1
    <3> QED  BY <1>6, <2>1, <3>2
  <2> HIDE DEF n, o
  <2>3. PICK l \in links : Reports(x[k + 1], l)
    BY <1>3, <2>1
  <2>4. Complete(n, E)
    BY <2>1 DEF Complete
  <2>5. Complete(o, E) /\ Joins(n, o, l)
    BY <2>2, <2>3, <2>4, LinkedIs
  <2>6. /\ MirrorOK(o) /\ o.shown = E /\ DOMAIN o.peer = DOMAIN n.peer
        /\ \A p \in DOMAIN n.peer : Draws(p) => o.peer[p] = IF p = Drawn(l)[1] THEN Drawn(l)[2] ELSE n.peer[p]
    BY <2>5 DEF Complete, Joins
  <2>7. \A j \in links : Drawn(j)[1] \in DOMAIN n.peer /\ Draws(Drawn(j)[1]) /\ Drawn(j) = <<Drawn(j)[1], Drawn(j)[2]>>
    <3> TAKE j \in links
    <3>1. j \in Links /\ j[1].inner \in BOOLEAN /\ j[1].of \in E
      BY <1>1, LinkFacts
    <3>2. Drawn(j)[1] \in Pads /\ Drawn(j)[1].of \in E
      BY <3>1, DrawnFacts
    <3> QED  BY <2>1, <3>1, <3>2, DrawnFacts DEF Draws
  <2>8. ASSUME NEW p \in DOMAIN o.peer, Draws(p), o.peer[p] # NoPad PROVE \E j \in links : Drawn(j) = <<p, o.peer[p]>>
    <3>1. CASE p = Drawn(l)[1]
      BY <2>6, <2>7, <2>8, <3>1
    <3>2. CASE p # Drawn(l)[1]
      BY <2>1, <2>6, <2>8, <3>2
    <3> QED  BY <3>1, <3>2
  <2>9. Set(o, k + 1)
    <3> SUFFICES ASSUME NEW j \in 1..(k + 1), NEW g \in links, Reports(x[j], g)
                 PROVE  o.peer[Drawn(g)[1]] = Drawn(g)[2]
      OBVIOUS
    <3>1. CASE Drawn(g)[1] = Drawn(l)[1]
      <4>1. g \in Links /\ l \in Links
        BY <1>1
      <4>2. g[1] = l[1]
        BY <3>1, <4>1, DrawnIsOne
      <4>3. g = l
        BY <1>1, <4>2 DEF Matching
      <4> QED  BY <2>6, <2>7, <4>3
    <3>2. CASE Drawn(g)[1] # Drawn(l)[1]
      <4>1. j # k + 1
        <5> SUFFICES ASSUME j = k + 1 PROVE FALSE
          OBVIOUS
        <5> QED  BY <2>3, <3>2 DEF Reports
      <4>2. j \in 1..k
        BY <4>1
      <4>3. n.peer[Drawn(g)[1]] = Drawn(g)[2]
        BY <2>1, <4>2
      <4> QED  BY <2>6, <2>7, <3>2, <4>3
    <3> QED  BY <3>1, <3>2
  <2> QED  BY <2>1, <2>6, <2>8, <2>9 DEF o
<1>8. Nat \subseteq T
  <2>1. \A k \in Nat : k \in T => k + 1 \in T
    <3> HIDE DEF Good
    <3> QED  BY <1>7
  <2>2. 0 \in T
    <3> HIDE DEF Good
    <3> QED  BY <1>4, <1>6
  <2> HIDE DEF T
  <2> QED  BY <2>1, <2>2, SetInduction
<1>9. i \in T /\ i <= Len(x)
  BY <1>6, <1>8 DEF x
<1>10. Good(v[Len(a) + i], i)
  BY <1>9
<1>11. m = v[Len(a) + i]
  BY DEF a
<1> QED  BY <1>10, <1>11 DEF x

\* A topology is followed by models that agree with the pipeline.
LEMMA TopologyShows ==
  ASSUME NEW E, NEW links, NEW gone, Pipeline(E, links, gone), NEW v, Trace(v, NoMirror, EntireTopology(E, links))
  PROVE  /\ \A i \in 0..Len(EntireTopology(E, links)) : Fits(v[i], gone)
         /\ Shows(v[Len(EntireTopology(E, links))], E, links, gone)
<1> DEFINE a == FirstPart(E)
           all == EntireTopology(E, links)
           x == SecondPart(E, links)
<1>1. E \subseteq Elements /\ links \in SUBSET Links /\ Matching(links)
      /\ \A l \in links : l[1].of \in E /\ l[2].of \in E
  BY DEF Pipeline, Tree, Matching
<1>2. all = a \o x /\ IsSequence(a) /\ IsSequence(x)
  BY <1>1, TopologyIs, FirstPartIs, SecondPartIs
<1>3. Len(a) \in Nat /\ Len(x) \in Nat /\ Len(all) = Len(a) + Len(x)
  BY <1>2, ConcatIsSequence
<1>4. ASSUME NEW i \in 0..Len(a) PROVE Fits(v[i], gone)
  <2>1. \A p \in DOMAIN v[i].peer : v[i].peer[p] = NoPad
    BY <1>4, FirstPartShows
  <2> QED  BY <2>1 DEF Fits
<1>5. ASSUME NEW i \in 0..Len(x), NEW m, m = v[Len(a) + i] PROVE Fits(m, gone)
  <2>1. /\ MirrorOK(m) /\ m.shown = E /\ \A p \in Pads : p.of \in E => p \in DOMAIN m.peer
        /\ \A p \in DOMAIN m.peer : Draws(p) /\ m.peer[p] # NoPad => \E l \in links : Drawn(l) = <<p, m.peer[p]>>
    BY <1>5, SecondPartShows
  <2> SUFFICES ASSUME NEW s \in DOMAIN m.peer, Draws(s), m.peer[s] # NoPad
               PROVE  /\ m.peer[s] \in DOMAIN m.peer
                      /\ \E l \in Links : /\ Drawn(l) = <<s, m.peer[s]>>
                                          /\ \/ l \in gone \/ l[2].inner \/ l[2].of \in m.shown
                                             \/ (~l[1].inner /\ l[1].of \notin m.shown)
    BY DEF Fits
  <2>2. PICK l \in links : Drawn(l) = <<s, m.peer[s]>>
    BY <2>1
  <2>3. l \in Links /\ l[2].of \in m.shown /\ m.peer[s] \in Pads /\ m.peer[s].of \in E
    BY <1>1, <2>1, <2>2, DrawnFacts
  <2> QED  BY <2>1, <2>2, <2>3
<1>6. ASSUME NEW i \in 0..Len(all) PROVE Fits(v[i], gone)
  <2>1. CASE i \in 0..Len(a)
    BY <1>4, <2>1
  <2>2. CASE i \notin 0..Len(a)
    <3>1. i - Len(a) \in 0..Len(x) /\ Len(a) + (i - Len(a)) = i
      BY <1>3, <2>2
    <3> QED  BY <1>5, <3>1
  <2> QED  BY <2>1, <2>2
<1>7. Shows(v[Len(all)], E, links, gone)
  <2> DEFINE m == v[Len(all)]
  <2>1. Len(x) \in 0..Len(x) /\ m = v[Len(a) + Len(x)]
    BY <1>3
  <2> HIDE DEF m
  <2>2. /\ MirrorOK(m) /\ m.shown = E /\ \A p \in Pads : p.of \in E => p \in DOMAIN m.peer
        /\ \A p \in DOMAIN m.peer : Draws(p) /\ m.peer[p] # NoPad => \E l \in links : Drawn(l) = <<p, m.peer[p]>>
        /\ \A j \in 1..Len(x) : \A l \in links : Reports(x[j], l) => m.peer[Drawn(l)[1]] = Drawn(l)[2]
    BY <2>1, SecondPartShows
  <2>3. ASSUME NEW l \in links PROVE m.peer[Drawn(l)[1]] = Drawn(l)[2] \/ HiddenIn(l, E, links, gone)
    <3>1. CASE l[1].inner => Fed(links)[l[1].of]
      <4>1. PICK j \in 1..Len(x) : Reports(x[j], l)
        BY <3>1, SecondPartIs
      <4> QED  BY <2>2, <4>1
    <3>2. CASE ~(l[1].inner => Fed(links)[l[1].of])
      BY <3>2 DEF HiddenIn
    <3> QED  BY <3>1, <3>2
  <2>4. Shows(m, E, links, gone)
    <3>1. /\ \A s \in DOMAIN m.peer : s.of \in E /\ Draws(s) /\ m.peer[s] # NoPad =>
               \E l \in links \cup {k \in gone : k[1].inner} : Drawn(l) = <<s, m.peer[s]>>
      BY <2>2
    <3> QED  BY <2>2, <2>3, <3>1 DEF Shows
  <2> QED  BY <2>4 DEF m
<1> QED  BY <1>6, <1>7

\* The models agree with the pipeline when they have followed what is on its way,
\* and fit on the way there.
Agrees(m, s, E, links, gone) ==
  \E v : /\ Trace(v, m, s) /\ \A i \in 0..Len(s) : Fits(v[i], gone)
         /\ Shows(v[Len(s)], E, links, gone)

LEMMA FitsLonger ==
  ASSUME NEW m, NEW gone, Fits(m, gone), NEW more, gone \subseteq more
  PROVE  Fits(m, more)
BY FitsCleared

LEMMA TraceKeeps ==
  ASSUME NEW m, MirrorOK(m), NEW s, IsSequence(s), Ready(m, s, 0), NEW v, Trace(v, m, s), NEW i \in 0..Len(s)
  PROVE  MirrorOK(v[i])
<1> DEFINE T == {n \in Nat : n <= Len(s) => MirrorOK(v[n]) /\ Ready(v[n], s, n)}
<1>1. v[0] = m /\ \A j \in Nat : j + 1 <= Len(s) => v[j + 1] = Process(v[j], s[j + 1])
  BY DEF Trace
<1>2. Len(s) \in Nat
  BY LenIsNatural
<1>3. 0 \in T
  BY <1>1
<1>4. ASSUME NEW n \in Nat, n \in T, n + 1 <= Len(s) PROVE MirrorOK(v[n + 1]) /\ Ready(v[n + 1], s, n + 1)
  <2>1. MirrorOK(v[n]) /\ Ready(v[n], s, n) /\ v[n + 1] = Process(v[n], s[n + 1])
    BY <1>1, <1>2, <1>4
  <2> QED  BY <1>4, <2>1, ReadyNext
<1>5. Nat \subseteq T
  <2>1. \A n \in Nat : n \in T => n + 1 \in T
    BY <1>4
  <2> HIDE DEF T
  <2> QED  BY <1>3, <2>1, SetInduction
<1> QED  BY <1>2, <1>5

\* A frame is handled.
LEMMA AgreesNext ==
  ASSUME NEW m, NEW s, IsSequence(s), s # <<>>, NEW E, NEW links, NEW gone, Agrees(m, s, E, links, gone)
  PROVE  Fits(Process(m, Head(s)), gone) /\ Agrees(Process(m, Head(s)), Tail(s), E, links, gone)
<1>1. PICK v : /\ Trace(v, m, s) /\ \A i \in 0..Len(s) : Fits(v[i], gone)
               /\ Shows(v[Len(s)], E, links, gone)
  BY DEF Agrees
<1> DEFINE t == Tail(s)
<1>2. /\ v[1] = Process(m, Head(s)) /\ Len(t) \in Nat /\ Len(s) = Len(t) + 1
      /\ \E w : Trace(w, v[1], t) /\ Shifted(w, v, Len(t))
  BY <1>1, TraceTail
<1> HIDE DEF t
<1>3. PICK w : Trace(w, v[1], t) /\ \A i \in 0..Len(t) : w[i] = v[i + 1]
  BY <1>2 DEF Shifted
<1>4. ASSUME NEW i \in 0..Len(t) PROVE Fits(w[i], gone)
  <2>1. i + 1 \in 0..Len(s) /\ w[i] = v[i + 1]
    BY <1>3, <1>2
  <2> QED  BY <1>1, <2>1
<1>5. Shows(w[Len(t)], E, links, gone)
  <2>1. Len(t) \in 0..Len(t) /\ w[Len(t)] = v[Len(s)]
    BY <1>3, <1>2
  <2> QED  BY <1>1, <2>1
<1>6. Fits(v[1], gone)
  <2>1. 1 \in 0..Len(s)
    BY <1>3, <1>2
  <2> QED  BY <1>1, <2>1
<1>7. Agrees(v[1], t, E, links, gone)
  BY <1>3, <1>4, <1>5 DEF Agrees
<1> QED  BY <1>2, <1>6, <1>7 DEF t

\* More is sent.
LEMMA AgreesMore ==
  ASSUME NEW m, NEW s, IsSequence(s), NEW gone, NEW v, Trace(v, m, s), \A i \in 0..Len(s) : Fits(v[i], gone),
         NEW more, gone \subseteq more, NEW t, IsSequence(t), NEW w, Trace(w, v[Len(s)], t),
         \A i \in 0..Len(t) : Fits(w[i], more), NEW E, NEW links, Shows(w[Len(t)], E, links, more)
  PROVE  Agrees(m, s \o t, E, links, more)
<1> DEFINE all == s \o t
<1>1. Len(all) = Len(s) + Len(t) /\ Len(t) \in Nat /\ Len(s) \in Nat
  BY ConcatIsSequence
<1>2. \E u : Trace(u, m, s \o t) /\ Continues(u, v, Len(s), w, Len(t))
  BY TraceJoin
<1> HIDE DEF all
<1>3. PICK u : /\ Trace(u, m, all) /\ \A i \in 0..Len(s) : u[i] = v[i]
               /\ \A i \in 0..Len(t) : u[Len(s) + i] = w[i]
  BY <1>2 DEF all, Continues
<1>4. ASSUME NEW i \in 0..Len(all) PROVE Fits(u[i], more)
  <2>1. CASE i \in 0..Len(s)
    <3>1. Fits(v[i], gone) /\ u[i] = v[i]
      BY <1>3, <2>1
    <3> QED  BY <3>1, FitsLonger
  <2>2. CASE i \notin 0..Len(s)
    <3>1. i - Len(s) \in 0..Len(t) /\ Len(s) + (i - Len(s)) = i
      BY <1>1, <2>2
    <3>2. u[i] = w[i - Len(s)]
      BY <1>3, <3>1
    <3> QED  BY <3>1, <3>2
  <2> QED  BY <2>1, <2>2
<1>5. Shows(u[Len(all)], E, links, more)
  <2>1. Len(t) \in 0..Len(t)
    BY <1>1
  <2> QED  BY <1>1, <1>3, <2>1
<1>6. Agrees(m, all, E, links, more)
  BY <1>3, <1>4, <1>5 DEF Agrees
<1> QED  BY <1>6 DEF all

\* A link is undone.
LEMMA AgreesUnlink ==
  ASSUME NEW m, MirrorOK(m), NEW s, IsSequence(s), Ready(m, s, 0), NEW E, NEW links, NEW gone,
         Pipeline(E, links, gone), Agrees(m, s, E, links, gone), NEW l \in links,
         NEW t, t = LinkFrames(links, "unlinked", l)
  PROVE  Pipeline(E, links \ {l}, gone \cup {l}) /\ Agrees(m, s \o t, E, links \ {l}, gone \cup {l})
<1>1. PICK v : /\ Trace(v, m, s) /\ \A i \in 0..Len(s) : Fits(v[i], gone)
               /\ Shows(v[Len(s)], E, links, gone)
  BY DEF Agrees
<1>2. Len(s) \in Nat /\ Len(s) \in 0..Len(s)
  BY LenIsNatural
<1>3. MirrorOK(v[Len(s)]) /\ Fits(v[Len(s)], gone)
  BY <1>1, <1>2, TraceKeeps
<1>4. IsSequence(t)
  BY LinkFramesAre DEF Pipeline
<1>5. PICK w : Trace(w, v[Len(s)], t)
  BY <1>4, TraceExists
<1>6. /\ Pipeline(E, links \ {l}, gone \cup {l})
      /\ \A i \in 0..Len(t) : Fits(w[i], gone \cup {l})
      /\ Shows(w[Len(t)], E, links \ {l}, gone \cup {l})
  <2> DEFINE o == v[Len(s)]
  <2>1. MirrorOK(o) /\ Fits(o, gone) /\ Shows(o, E, links, gone) /\ Trace(w, o, t)
    BY <1>1, <1>3, <1>5
  <2> HIDE DEF o
  <2> QED  BY <2>1, UnlinkShows
<1>7. gone \subseteq gone \cup {l}
  OBVIOUS
<1> QED  BY <1>1, <1>4, <1>5, <1>6, <1>7, AgreesMore

\* An element is removed.
LEMMA AgreesRemove ==
  ASSUME NEW m, MirrorOK(m), NEW s, IsSequence(s), Ready(m, s, 0), NEW E, NEW links, NEW gone,
         Pipeline(E, links, gone), Agrees(m, s, E, links, gone), NEW e \in E,
         NEW t, t = <<[what |-> "removed", of |-> e]>> \o AllFrames(links, "unlinked", Own(links, e))
  PROVE  /\ Pipeline(Left(E, e), LeftLinks(links, e), gone \cup Own(links, e))
         /\ Agrees(m, s \o t, Left(E, e), LeftLinks(links, e), gone \cup Own(links, e))
<1> DEFINE f == [what |-> "removed", of |-> e]
           r == AllFrames(links, "unlinked", Own(links, e))
           more == gone \cup Own(links, e)
<1>1. PICK v : /\ Trace(v, m, s) /\ \A i \in 0..Len(s) : Fits(v[i], gone)
               /\ Shows(v[Len(s)], E, links, gone)
  BY DEF Agrees
<1>2. Len(s) \in Nat /\ Len(s) \in 0..Len(s)
  BY LenIsNatural
<1> DEFINE o == v[Len(s)]
           n == Process(o, f)
<1>3. MirrorOK(o) /\ Fits(o, gone) /\ Shows(o, E, links, gone)
  BY <1>1, <1>2, TraceKeeps
<1>4. Pipeline(Left(E, e), LeftLinks(links, e), more)
  BY RemoveIsPipeline
<1>5. IsSequence(r)
  <2>1. Own(links, e) \in SUBSET links /\ Matching(links)
    BY DEF Own, Pipeline
  <2>2. Gathers(links, "unlinked", Own(links, e), AllFrames(links, "unlinked", Own(links, e)))
    BY <2>1, FramesOfAll
  <2> QED  BY <2>2 DEF Gathers
<1>6. IsSequence(<<f>>) /\ Len(<<f>>) = 1 /\ IsSequence(t)
  <2>1. <<f>> \in Seq({f})
    OBVIOUS
  <2>2. IsSequence(<<f>>)
    BY <2>1 DEF IsSequence
  <2> QED  BY <1>5, <2>2, ConcatIsSequence
<1> HIDE DEF o, n, r
<1>7. PICK w : Trace(w, n, r)
  BY <1>5, TraceExists
<1>8. /\ \A i \in 0..Len(r) : Fits(w[i], more)
      /\ Shows(w[Len(r)], Left(E, e), LeftLinks(links, e), more)
  BY <1>3, <1>7, RemoveShows DEF n, r
<1> HIDE DEF more
<1>9. \E u : /\ Trace(u, o, t) /\ u[0] = o /\ \A i \in 0..Len(r) : u[1 + i] = w[i]
  <2> DEFINE x == [i \in Nat |-> IF i = 0 THEN o ELSE n]
  <2>1. x[0] = o /\ x[1] = n
    OBVIOUS
  <2> HIDE DEF x
  <2>2. Trace(x, o, <<f>>)
    <3>1. \A j \in Nat : j + 1 <= 1 => j = 0
      OBVIOUS
    <3>2. <<f>>[1] = f
      OBVIOUS
    <3>3. \A j \in Nat : j + 1 <= Len(<<f>>) => x[j + 1] = Process(x[j], <<f>>[j + 1])
      <4> TAKE j \in Nat
      <4> HAVE j + 1 <= Len(<<f>>)
      <4>1. j = 0
        BY <1>6, <3>1
      <4>2. x[0 + 1] = Process(x[0], <<f>>[0 + 1])
        BY <2>1, <3>2 DEF n
      <4> QED  BY <4>1, <4>2
    <3> QED  BY <2>1, <3>3 DEF Trace
  <2>3. Trace(w, x[Len(<<f>>)], r)
    BY <1>6, <1>7, <2>1
  <2>4. PICK u : Trace(u, o, <<f>> \o r) /\ Continues(u, x, Len(<<f>>), w, Len(r))
    BY <1>5, <1>6, <2>2, <2>3, TraceJoin
  <2>5. t = <<f>> \o r
    BY DEF r
  <2> HIDE DEF f
  <2>6. u[0] = o /\ \A i \in 0..Len(r) : u[1 + i] = w[i]
    BY <1>6, <2>1, <2>4 DEF Continues
  <2>7. Trace(u, o, t)
    BY <2>4, <2>5
  <2> QED  BY <2>6, <2>7
<1>10. PICK u : Trace(u, o, t) /\ u[0] = o /\ \A i \in 0..Len(r) : u[1 + i] = w[i]
  BY <1>9
<1>11. Len(t) = 1 + Len(r) /\ Len(r) \in Nat
  <2>1. t = <<f>> \o r
    BY DEF r
  <2> HIDE DEF f
  <2> QED  BY <1>5, <1>6, <2>1, ConcatIsSequence
<1>12. ASSUME NEW i \in 0..Len(t) PROVE Fits(u[i], more)
  <2>1. CASE i = 0
    BY <1>3, <1>10, <2>1, FitsLonger DEF more
  <2>2. CASE i # 0
    <3>1. i - 1 \in 0..Len(r) /\ 1 + (i - 1) = i
      BY <1>11, <2>2
    <3> QED  BY <1>8, <1>10, <3>1
  <2> QED  BY <2>1, <2>2
<1>13. Shows(u[Len(t)], Left(E, e), LeftLinks(links, e), more)
  <2>1. Len(r) \in 0..Len(r)
    BY <1>11
  <2> QED  BY <1>8, <1>10, <1>11, <2>1
<1>14. gone \subseteq more /\ Trace(u, v[Len(s)], t)
  BY <1>10 DEF more, o
<1> QED  BY <1>1, <1>4, <1>6, <1>12, <1>13, <1>14, AgreesMore DEF more

\* A topology of which a part was handled at once.
LEMMA AgreesTopology ==
  ASSUME NEW E, NEW links, NEW gone, Pipeline(E, links, gone), NEW all, all = EntireTopology(E, links),
         NEW n \in 0..Len(all), NEW m, m = FoldLeft(Process, NoMirror, SubSeq(all, 1, n)),
         NEW t, t = SubSeq(all, n + 1, Len(all))
  PROVE  Fits(m, gone) /\ Agrees(m, t, E, links, gone)
<1> DEFINE s == SubSeq(all, 1, n)
<1>1. IsSequence(all)
  BY TopologyIsSequence DEF Pipeline, Matching
<1>2. PICK S : all \in Seq(S)
  BY <1>1 DEF IsSequence
<1>3. Len(all) \in Nat /\ \A i \in 1..Len(all) : all[i] \in S
  BY <1>2, ElementOfSeq
<1>4. s \in Seq(S) /\ Len(s) = n /\ \A i \in 1..n : s[i] = all[i]
  <2>1. \A i \in 1..n : all[i] \in S
    BY <1>3
  <2> QED  BY <1>2, <1>3, <2>1, SubSeqProperties
<1>5. t \in Seq(S) /\ Len(t) = Len(all) - n /\ \A i \in 1..Len(t) : t[i] = all[n + i]
  <2>1. \A i \in (n + 1)..Len(all) : all[i] \in S
    BY <1>3
  <2> QED  BY <1>2, <1>3, <2>1, SubSeqProperties
<1>6. IsSequence(s)
  BY <1>4 DEF IsSequence
<1> HIDE DEF s
<1>7. PICK v : Trace(v, NoMirror, all)
  BY <1>1, TraceExists
<1>8. v[0] = NoMirror /\ \A j \in Nat : j + 1 <= Len(all) => v[j + 1] = Process(v[j], all[j + 1])
  BY <1>7 DEF Trace
<1>9. PICK u : /\ u[0] = NoMirror /\ FoldLeft(Process, NoMirror, s) = u[Len(s)]
               /\ \A j \in Nat : j + 1 <= Len(s) => u[j + 1] = Process(u[j], s[j + 1])
  BY <1>6, FoldSteps
<1> DEFINE T == {j \in Nat : j <= n => u[j] = v[j]}
<1>10. 0 \in T
  BY <1>8, <1>9
<1>11. ASSUME NEW j \in Nat, j \in T, j + 1 <= n PROVE u[j + 1] = v[j + 1]
  <2>1. u[j] = v[j] /\ s[j + 1] = all[j + 1] /\ j + 1 <= Len(all) /\ j + 1 <= Len(s)
    BY <1>3, <1>4, <1>11
  <2> QED  BY <1>8, <1>9, <2>1
<1>12. Nat \subseteq T
  <2>1. \A j \in Nat : j \in T => j + 1 \in T
    BY <1>11
  <2> HIDE DEF T
  <2> QED  BY <1>10, <2>1, SetInduction
<1>13. m = v[n]
  <2>1. u[n] = v[n]
    BY <1>3, <1>12
  <2> QED  BY <1>4, <1>9, <2>1 DEF s
<1>14. /\ \A i \in 0..Len(all) : Fits(v[i], gone)
       /\ Shows(v[Len(all)], E, links, gone)
  BY <1>7, TopologyShows
<1> DEFINE w == [i \in Nat |-> v[n + i]]
<1>15. \A i \in Nat : w[i] = v[n + i]
  OBVIOUS
<1> HIDE DEF w
<1>16. Trace(w, m, t)
  <2>1. w[0] = m
    <3>1. n + 0 = n /\ 0 \in Nat
      BY <1>3
    <3> QED  BY ONLY <1>13, <1>15, <3>1
  <2>2. ASSUME NEW j \in Nat, j + 1 <= Len(t) PROVE w[j + 1] = Process(w[j], t[j + 1])
    <3>1. j + 1 \in 1..Len(t) /\ n + j \in Nat /\ n + (j + 1) = (n + j) + 1 /\ (n + j) + 1 <= Len(all)
      <4>1. n \in Nat /\ Len(all) \in Nat /\ n <= Len(all) /\ Len(t) = Len(all) - n
        BY <1>3, <1>5
      <4> QED  BY ONLY <2>2, <4>1
    <3>2. t[j + 1] = all[(n + j) + 1] /\ w[j] = v[n + j] /\ w[j + 1] = v[(n + j) + 1]
      <4>1. t[j + 1] = all[n + (j + 1)]
        BY <1>5, <3>1
      <4>2. w[j] = v[n + j] /\ w[j + 1] = v[n + (j + 1)]
        BY <1>15, <3>1
      <4> QED  BY <3>1, <4>1, <4>2
    <3> QED  BY <1>8, <3>1, <3>2
  <2> QED  BY <2>1, <2>2 DEF Trace
<1>17. ASSUME NEW i \in 0..Len(t) PROVE Fits(w[i], gone)
  <2>1. i \in Nat /\ n + i \in 0..Len(all)
    BY <1>3, <1>5
  <2> QED  BY <1>14, <1>15, <2>1
<1>18. Shows(w[Len(t)], E, links, gone)
  <2>1. Len(t) \in Nat /\ n + Len(t) = Len(all)
    BY <1>3, <1>5
  <2> QED  BY <1>14, <1>15, <2>1
<1>19. Fits(m, gone)
  BY <1>13, <1>14
<1> QED  BY <1>16, <1>17, <1>18, <1>19 DEF Agrees

\* The end of a connection.
LEMMA CleanRootFits ==
  ASSUME NEW m, MirrorOK(m), NEW gone, Fits(m, gone)
  PROVE  Fits(CleanRoot(m), gone)
<1> DEFINE n == CleanRoot(m)
<1>1. \A p \in Pads : p.of # Root
  BY OrderFacts DEF Pads
<1>2. DOMAIN m.peer \subseteq Pads /\ m.shown \subseteq Elements
  BY DEF MirrorOK
<1>3. {p \in DOMAIN m.peer : p.of # Root} = DOMAIN m.peer
  BY <1>1, <1>2
<1>4. n.shown = m.shown \ Children(Root) /\ DOMAIN n.peer = DOMAIN m.peer
      /\ \A p \in DOMAIN m.peer : n.peer[p] = m.peer[p]
  BY <1>3 DEF CleanRoot, Restrict
<1> HIDE DEF n
<1> SUFFICES ASSUME NEW s \in DOMAIN m.peer, Draws(s), m.peer[s] # NoPad
             PROVE  /\ m.peer[s] \in DOMAIN m.peer
                    /\ \E l \in Links : /\ Drawn(l) = <<s, m.peer[s]>>
                                        /\ \/ l \in gone \/ l[2].inner \/ l[2].of \in n.shown
                                           \/ (~l[1].inner /\ l[1].of \notin n.shown)
  BY <1>4 DEF Fits, n
<1>5. PICK l \in Links : /\ Drawn(l) = <<s, m.peer[s]>>
                         /\ \/ l \in gone \/ l[2].inner \/ l[2].of \in m.shown
                            \/ (~l[1].inner /\ l[1].of \notin m.shown)
  BY DEF Fits
<1>6. m.peer[s] \in DOMAIN m.peer
  BY DEF Fits
<1>7. SUFFICES ASSUME ~l[2].inner, l[2].of \in m.shown, l[2].of \in Children(Root) PROVE ~l[1].inner /\ l[1].of \notin n.shown
  BY <1>4, <1>5, <1>6
<1>8. /\ l[1].inner \in BOOLEAN /\ Level(l[1]) = Root /\ l[1].of \in Elements
  BY <1>7, LinkFacts DEF Level, Children
<1>9. ~l[1].inner /\ Parent[l[1].of] = Root
  BY <1>8, OrderFacts DEF Level
<1> QED  BY <1>4, <1>8, <1>9 DEF Children

\* Of the pipeline and what the debugger has of it: no pad is linked twice, what
\* is drawn fits, and the models follow.
PageFits(p, gone) == \A g \in p.edges : {g[1], g[2]} \subseteq p.nodes \/ \E l \in gone : Drawn(l) = g

PictureOK ==
  /\ Pipeline(exists, joined, undone)
  /\ \A n \in 1..Len(mirrors) : Fits(mirrors[n], undone)
  /\ connected => Agrees(Latest, frames, exists, joined, undone)
  /\ PageFits(page, undone)

LEMMA OnePeerMatches ==
  ASSUME NEW links, links \subseteq Links, \A p \in AllPads : Cardinality(Peers(links, p)) <= 1
  PROVE  Matching(links)
<1>1. IsFiniteSet(AllPads)
  <2> DEFINE f == [x \in AllPads \X AllPads |-> x[1]]
  <2>1. \A y \in AllPads : \E x \in AllPads \X AllPads : f[x] = y
    <3> TAKE y \in AllPads
    <3>1. <<y, y>> \in AllPads \X AllPads /\ f[<<y, y>>] = y
      OBVIOUS
    <3> QED  BY <3>1
  <2>2. DOMAIN f = AllPads \X AllPads
    OBVIOUS
  <2> HIDE DEF f
  <2> QED  BY <2>1, <2>2, LinksAreFinite, ImageIsFinite
<1>2. ASSUME NEW p \in AllPads, NEW a \in Peers(links, p), NEW b \in Peers(links, p) PROVE a = b
  <2>1. IsFiniteSet(Peers(links, p)) /\ Cardinality(Peers(links, p)) <= 1
    <3>1. Peers(links, p) \subseteq AllPads
      BY DEF Peers
    <3> QED  BY <1>1, <3>1, FS_Subset
  <2> SUFFICES ASSUME a # b PROVE FALSE
    OBVIOUS
  <2>2. IsFiniteSet({a}) /\ Cardinality({a}) = 1
    BY FS_Singleton
  <2>3. IsFiniteSet({a} \cup {b}) /\ Cardinality({a} \cup {b}) = 2
    <3> DEFINE A == {a}
    <3>1. b \notin A /\ IsFiniteSet(A) /\ Cardinality(A) = 1
      BY <2>2
    <3> HIDE DEF A
    <3>2. IsFiniteSet(A \cup {b}) /\ Cardinality(A \cup {b}) = 2
      BY ONLY <3>1, FS_AddElement
    <3> QED  BY <3>2 DEF A
  <2>4. ({a} \cup {b}) \subseteq Peers(links, p)
    OBVIOUS
  <2>5. Cardinality({a} \cup {b}) <= Cardinality(Peers(links, p))
    BY <2>1, <2>4, FS_Subset
  <2>6. Cardinality(Peers(links, p)) \in Nat
    BY <2>1, FS_CardinalityType
  <2> QED  BY <2>1, <2>3, <2>5, <2>6
<1>3. \A l \in links : l[2] \in Peers(links, l[1]) /\ l[1] \in Peers(links, l[2]) /\ l = <<l[1], l[2]>>
                       /\ l[1] \in AllPads /\ l[2] \in AllPads
  <2> TAKE l \in links
  <2>1. l \in Links
    OBVIOUS
  <2>2. l = <<l[1], l[2]>> /\ l[1] \in AllPads /\ l[2] \in AllPads
    BY <2>1, LinkFacts
  <2> DEFINE a == l[1]
             b == l[2]
  <2>3. <<a, b>> \in links
    BY <2>2
  <2> HIDE DEF a, b
  <2>4. a \in AllPads /\ b \in AllPads
    BY <2>2 DEF a, b
  <2>5. b \in Peers(links, a) /\ a \in Peers(links, b)
    BY <2>3, <2>4 DEF Peers
  <2> QED  BY <2>2, <2>5 DEF a, b
<1>4. ASSUME NEW l \in links, NEW k \in links, l[1] = k[1] \/ l[2] = k[2] PROVE l = k
  BY <1>2, <1>3, <1>4
<1> QED  BY <1>4 DEF Matching

LEMMA PictureInit == Init => PictureOK
<1> SUFFICES ASSUME Init PROVE PictureOK
  OBVIOUS
<1>1. joined \subseteq Links /\ exists = Elements /\ undone = {} /\ mirrors = <<>> /\ connected = FALSE /\ page = BlankPage
      /\ \A p \in AllPads : Cardinality(Peers(joined, p)) <= 1
  BY DEF Init
<1>2. Matching(joined)
  BY <1>1, OnePeerMatches
<1>3. Tree(exists)
  BY <1>1, OrderFacts DEF Tree
<1>4. \A l \in joined : l[1].of \in exists /\ l[2].of \in exists
  <2>1. \A l \in Links : l[1].of \in Elements /\ l[2].of \in Elements
    BY LinkFacts
  <2> QED  BY <1>1, <2>1
<1>5. PageFits(page, undone)
  BY <1>1 DEF PageFits, BlankPage
<1>6. Pipeline(exists, joined, undone)
  BY <1>1, <1>2, <1>3, <1>4 DEF Pipeline
<1> QED  BY <1>1, <1>5, <1>6 DEF PictureOK

LEMMA PageFitsLonger ==
  ASSUME NEW p, NEW gone, PageFits(p, gone), NEW more, gone \subseteq more
  PROVE  PageFits(p, more)
BY DEF PageFits

\* What the application changes.
LEMMA ChangesKeepPicture ==
  ASSUME QueueOK, FramesOK, MirrorsOK, PictureOK, NEW sent, Changes(sent),
         Pipeline(exists', joined', undone'), undone \subseteq undone',
         Agrees(Latest, frames \o sent, exists', joined', undone')
  PROVE  PictureOK'
<1>1. frames' = frames \o sent /\ mirrors' = mirrors /\ connected' = connected /\ connected /\ page' = page
  BY DEF Changes, guiVars
<1>2. Latest' = Latest
  BY <1>1 DEF Latest
<1>3. \A n \in 1..Len(mirrors') : Fits(mirrors'[n], undone')
  BY <1>1, FitsLonger DEF PictureOK
<1>4. PageFits(page', undone')
  BY <1>1, PageFitsLonger DEF PictureOK
<1> QED  BY <1>1, <1>2, <1>3, <1>4 DEF PictureOK

LEMMA ApplicationKeepsPicture ==
  ASSUME QueueOK, FramesOK, MirrorsOK, PictureOK, PadUnlink \/ BinRemove
  PROVE  PictureOK'
<1>1. connected /\ mirrors # <<>> /\ IsSequence(mirrors) /\ IsSequence(frames)
  BY DEF PadUnlink, BinRemove, Changes, QueueOK, FramesOK
<1>2. Len(mirrors) \in 1..Len(mirrors)
  BY <1>1 DEF IsSequence
<1> DEFINE m == Latest
<1>3. MirrorOK(m) /\ Ready(m, frames, 0) /\ Agrees(m, frames, exists, joined, undone)
  BY <1>1, <1>2 DEF MirrorsOK, PictureOK, Latest
<1>4. Pipeline(exists, joined, undone)
  BY DEF PictureOK
<1> HIDE DEF m
<1>5. CASE PadUnlink
  <2>1. PICK l \in joined : /\ Changes(LinkFrames(joined, "unlinked", l))
                            /\ joined' = joined \ {l} /\ undone' = undone \cup {l} /\ exists' = exists
    BY <1>5 DEF PadUnlink
  <2> DEFINE t == LinkFrames(joined, "unlinked", l)
  <2>2. Pipeline(exists, joined \ {l}, undone \cup {l}) /\ Agrees(m, frames \o t, exists, joined \ {l}, undone \cup {l})
    BY <1>1, <1>3, <1>4, AgreesUnlink
  <2> HIDE DEF t
  <2>3. Pipeline(exists', joined', undone') /\ Agrees(Latest, frames \o t, exists', joined', undone')
    BY <2>1, <2>2 DEF m
  <2>4. undone \subseteq undone' /\ Changes(t)
    BY <2>1 DEF t
  <2> QED  BY <2>3, <2>4, ChangesKeepPicture
<1>6. CASE BinRemove
  <2> DEFINE Sent(e) == <<[what |-> "removed", of |-> e]>> \o AllFrames(joined, "unlinked", Own(joined, e))
  <2>1. PICK e \in exists : /\ Changes(Sent(e)) /\ exists' = Left(exists, e)
                            /\ joined' = LeftLinks(joined, e) /\ undone' = undone \cup Own(joined, e)
    BY <1>6 DEF BinRemove, AllFrames, Own, Left, LeftLinks
  <2> DEFINE t == Sent(e)
  <2>2. /\ Pipeline(Left(exists, e), LeftLinks(joined, e), undone \cup Own(joined, e))
        /\ Agrees(m, frames \o t, Left(exists, e), LeftLinks(joined, e), undone \cup Own(joined, e))
    BY <1>1, <1>3, <1>4, AgreesRemove
  <2> HIDE DEF t
  <2>3. Pipeline(exists', joined', undone') /\ Agrees(Latest, frames \o t, exists', joined', undone')
    BY <2>1, <2>2 DEF m
  <2>4. undone \subseteq undone' /\ Changes(t)
    BY <2>1 DEF t
  <2> QED  BY <2>3, <2>4, ChangesKeepPicture
<1> QED  BY <1>5, <1>6

LEMMA PictureStep ==
  QueueOK /\ FramesOK /\ MirrorsOK /\ ControlOK /\ PictureOK /\ [Next]_vars => PictureOK'
<1> SUFFICES ASSUME QueueOK, FramesOK, MirrorsOK, ControlOK, PictureOK, [Next]_vars PROVE PictureOK'
  OBVIOUS
<1>1. Len(mirrors) \in Nat
  BY LenIsNatural DEF QueueOK
<1>2. ASSUME UNCHANGED <<exists, joined, undone, mirrors, connected, frames>>, PageFits(page', undone) PROVE PictureOK'
  BY <1>2 DEF PictureOK, Latest
<1>3. ASSUME UNCHANGED <<exists, joined, undone, mirrors, connected, frames, page>> PROVE PictureOK'
  BY <1>2, <1>3 DEF PictureOK
<1>4. CASE ProcessFrame
  <2> DEFINE n == Process(Latest, Head(frames))
  <2>1. /\ UNCHANGED <<exists, joined, undone, connected, page>> /\ connected /\ frames # <<>> /\ frames' = Tail(frames)
        /\ mirrors' = [mirrors EXCEPT ![Len(mirrors)] = n]
    BY <1>4 DEF ProcessFrame, pipelineVars, guiVars, Latest
  <2>2. mirrors # <<>> /\ IsSequence(mirrors) /\ IsSequence(frames)
    BY <2>1 DEF QueueOK, FramesOK
  <2>3. DOMAIN mirrors = 1..Len(mirrors) /\ Len(mirrors) \in 1..Len(mirrors)
    BY <2>2 DEF IsSequence
  <2>4. Fits(n, undone) /\ Agrees(n, frames', exists, joined, undone)
    <3> DEFINE m == Latest
    <3>1. Agrees(m, frames, exists, joined, undone)
      BY <2>1 DEF PictureOK
    <3> HIDE DEF m
    <3>2. Fits(Process(m, Head(frames)), undone) /\ Agrees(Process(m, Head(frames)), Tail(frames), exists, joined, undone)
      BY <2>1, <2>2, <3>1, AgreesNext
    <3> QED  BY <2>1, <3>2 DEF m
  <2> HIDE DEF n
  <2>5. Len(mirrors') = Len(mirrors) /\ \A i \in 1..Len(mirrors) : mirrors'[i] = IF i = Len(mirrors) THEN n ELSE mirrors[i]
    BY <2>1, <2>2, <2>3, ExceptIsSequence
  <2>6. Latest' = n
    BY <2>3, <2>5 DEF Latest
  <2>7. \A i \in 1..Len(mirrors') : Fits(mirrors'[i], undone')
    BY <2>1, <2>4, <2>5 DEF PictureOK
  <2>8. Agrees(Latest', frames', exists', joined', undone')
    BY <2>1, <2>4, <2>6
  <2> QED  BY <2>1, <2>7, <2>8 DEF PictureOK
<1>5. CASE ClientDisconnected
  <2> DEFINE n == CleanRoot(Latest)
  <2>1. /\ UNCHANGED <<exists, joined, undone, page>> /\ ~connected' /\ connected
        /\ mirrors' = [mirrors EXCEPT ![Len(mirrors)] = n]
    BY <1>5 DEF ClientDisconnected, pipelineVars, guiVars, Latest
  <2>2. mirrors # <<>> /\ IsSequence(mirrors)
    BY <2>1 DEF QueueOK
  <2>3. DOMAIN mirrors = 1..Len(mirrors) /\ Len(mirrors) \in 1..Len(mirrors)
    BY <2>2 DEF IsSequence
  <2>4. Fits(n, undone)
    BY <2>3, CleanRootFits DEF MirrorsOK, PictureOK, Latest
  <2> HIDE DEF n
  <2>5. Len(mirrors') = Len(mirrors) /\ \A i \in 1..Len(mirrors) : mirrors'[i] = IF i = Len(mirrors) THEN n ELSE mirrors[i]
    BY <2>1, <2>2, <2>3, ExceptIsSequence
  <2>6. \A i \in 1..Len(mirrors') : Fits(mirrors'[i], undone')
    BY <2>1, <2>4, <2>5 DEF PictureOK
  <2> QED  BY <2>1, <2>6 DEF PictureOK
<1>6. CASE Quit \/ Push \/ Emit
  BY <1>3, <1>6 DEF Quit, Push, Emit, pipelineVars, guiVars
<1>7. CASE WakeUp \/ Draw
  BY <1>3, <1>7 DEF WakeUp, Draw, pipelineVars, readerVars
<1>8. CASE Take \/ FreeGraph
  <2>1. UNCHANGED <<exists, joined, undone, mirrors, connected, frames>> /\ (page' = page \/ page' = BlankPage)
    BY <1>8 DEF Take, FreeGraph, pipelineVars, readerVars
  <2>2. PageFits(BlankPage, undone)
    BY DEF PageFits, BlankPage
  <2> QED  BY <1>2, <2>1, <2>2 DEF PictureOK
<1>9. CASE Convert
  <2>1. /\ UNCHANGED <<exists, joined, undone, mirrors, connected, frames>> /\ gui = "converting"
        /\ page' = ToDotData(MirrorOf(taken), taken.bin)
    BY <1>9 DEF Convert, pipelineVars, readerVars
  <2>2. taken \in Known
    BY <2>1 DEF ControlOK
  <2>3. taken.bin \in Bins /\ (taken.bin = Root <=> taken.no = 0) /\ taken.no <= Len(mirrors) /\ taken.no \in Nat
    BY <2>2, DrawingBounds DEF Known, Model
  <2>4. MirrorOK(MirrorOf(taken)) /\ Fits(MirrorOf(taken), undone)
    <3>1. CASE mirrors = <<>>
      <4>1. MirrorOK(NoMirror) /\ Fits(NoMirror, undone)
        BY DEF MirrorOK, NoMirror, Fits
      <4> QED  BY <3>1, <4>1 DEF MirrorOf
    <3>2. CASE mirrors # <<>>
      <4>1. Len(mirrors) \in 1..Len(mirrors)
        BY <3>2 DEF QueueOK, IsSequence
      <4>2. \E i \in 1..Len(mirrors) : MirrorOf(taken) = mirrors[i]
        BY <1>1, <2>3, <3>2, <4>1 DEF MirrorOf, Latest
      <4> QED  BY <4>2 DEF MirrorsOK, PictureOK
    <3> QED  BY <3>1, <3>2
  <2> DEFINE m == MirrorOf(taken)
             b == taken.bin
  <2>5. PageFits(page', undone)
    <3>1. MirrorOK(m) /\ Fits(m, undone) /\ b \in Bins /\ page' = ToDotData(m, b)
      BY <2>1, <2>3, <2>4
    <3> HIDE DEF m, b
    <3> QED  BY <3>1, FitsPage DEF PageFits
  <2> QED  BY <1>2, <2>1, <2>5
<1>10. CASE ModelDown \/ ModelUp \/ Close
  BY <1>3, <1>10 DEF ModelDown, ModelUp, Close, Show, Clicks, pipelineVars, readerVars
<1>11. CASE Connect
  <2> DEFINE all == EntireTopology(exists, joined)
             k == IF Len(all) > MaxFrames THEN Len(all) - MaxFrames ELSE 0
             m == FoldLeft(Process, NoMirror, SubSeq(all, 1, k))
             t == SubSeq(all, k + 1, Len(all))
  <2>1. UNCHANGED <<exists, joined, undone, page>> /\ mirrors' = Append(mirrors, m) /\ frames' = t
    BY <1>11 DEF Connect, Clicks, pipelineVars
  <2>2. Len(all) \in Nat
    BY TopologyIsSequence, LenIsNatural DEF FramesOK
  <2>3. k \in 0..Len(all)
    BY <2>2, DrawingBounds
  <2>4. Pipeline(exists, joined, undone)
    BY DEF PictureOK
  <2> HIDE DEF k, all
  <2>5. Fits(m, undone) /\ Agrees(m, t, exists, joined, undone)
    <3>1. all = EntireTopology(exists, joined)
      BY DEF all
    <3> QED  BY <2>3, <2>4, <3>1, AgreesTopology
  <2> HIDE DEF m, t
  <2>6. Len(mirrors') = Len(mirrors) + 1 /\ mirrors'[Len(mirrors) + 1] = m /\ \A i \in 1..Len(mirrors) : mirrors'[i] = mirrors[i]
    <3>1. IsSequence(mirrors)
      BY DEF QueueOK
    <3> QED  BY <2>1, <3>1, AppendedItems
  <2>7. \A i \in 1..Len(mirrors') : Fits(mirrors'[i], undone')
    <3>1. \A i \in 1..Len(mirrors') : i \in 1..Len(mirrors) \/ i = Len(mirrors) + 1
      BY <1>1, <2>6
    <3> QED  BY <2>1, <2>5, <2>6, <3>1 DEF PictureOK
  <2>8. Latest' = m
    BY <2>6 DEF Latest
  <2>9. Agrees(Latest', frames', exists', joined', undone')
    BY <2>1, <2>5, <2>8
  <2> QED  BY <2>1, <2>7, <2>9 DEF PictureOK
<1>12. CASE PadUnlink \/ BinRemove
  BY <1>12, ApplicationKeepsPicture
<1>13. CASE UNCHANGED vars
  BY <1>3, <1>13 DEF vars, pipelineVars, readerVars, guiVars
<1> QED  BY <1>4, <1>5, <1>6, <1>7, <1>8, <1>9, <1>10, <1>11, <1>12, <1>13 DEF Next, Reader, Loop, User

\* send_link, process_link and the converter: at rest the picture of a bin is true
\* but for the links that are hidden, and an edge has both its ends in the picture
\* at any time, unless its link was undone.
THEOREM PictureStaysTrue == Spec => []PictureIsTrue
<1>1. QueueOK /\ MirrorsOK /\ ControlOK /\ NewestOK /\ PictureOK => PictureIsTrue
  <2> SUFFICES ASSUME QueueOK, MirrorsOK, ControlOK, NewestOK, PictureOK PROVE PictureIsTrue
    OBVIOUS
  <2> DEFINE there == TruePicture(exists, joined, current.bin)
  <2>1. ASSUME Rest, ~closed, connected, ~astray, current = RootModel \/ (current.no = Len(mirrors) /\ current.bin \in exists)
        PROVE  /\ page.clusters = there.clusters /\ page.nodes = there.nodes
               /\ \A l \in joined : Level(l[1]) = current.bin => Drawn(l) \in page.edges \/ Hidden(l)
               /\ \A g \in page.edges \ there.edges : \E l \in undone : l[1].inner /\ Drawn(l) = g
    <3>1. mirrors # <<>> /\ frames = <<>> /\ Len(frames) = 0 /\ Latest = mirrors[Len(mirrors)]
      BY <2>1 DEF Rest, QueueOK, Latest
    <3>2. page = ToDotData(MirrorOf(current), current.bin)
      <4>1. reader = "idle" /\ posted = 0 /\ gui = "idle" /\ Len(queue) <= 0
        BY <2>1 DEF Rest, NewestOK, Due, One
      <4>2. queue = <<>>
        BY <4>1 DEF QueueOK, IsSequence
      <4> QED  BY <2>1, <3>1, <4>1, <4>2 DEF NewestOK, OnItsWay
    <3> DEFINE m == Latest
               b == current.bin
    <3>3. MirrorOf(current) = m
      <4>1. current = RootModel => current.bin = Root
        BY DEF RootModel
      <4> QED  BY <2>1, <3>1, <4>1 DEF MirrorOf
    <3>4. b \in Bins /\ b \in exists \cup {Root}
      BY <2>1 DEF ControlOK, Known, Model, RootModel
    <3>5. MirrorOK(m) /\ Shows(m, exists, joined, undone)
      <4>1. Len(mirrors) \in 1..Len(mirrors)
        BY <3>1 DEF QueueOK, IsSequence
      <4>2. MirrorOK(m)
        BY <4>1 DEF MirrorsOK, Latest
      <4>3. Agrees(m, frames, exists, joined, undone)
        BY <2>1 DEF PictureOK
      <4> HIDE DEF m
      <4>4. PICK v : Trace(v, m, frames) /\ Shows(v[Len(frames)], exists, joined, undone)
        BY <4>3 DEF Agrees
      <4>5. v[Len(frames)] = m
        BY <3>1, <4>4 DEF Trace
      <4> QED  BY <4>2, <4>4, <4>5
    <3>6. Pipeline(exists, joined, undone) /\ page = ToDotData(m, b)
      BY <3>2, <3>3 DEF PictureOK
    <3> HIDE DEF m
    <3>7. /\ page.clusters = there.clusters /\ page.nodes = there.nodes
          /\ \A l \in joined : Level(l[1]) = b => Drawn(l) \in page.edges \/ HiddenIn(l, exists, joined, undone)
          /\ \A g \in page.edges \ there.edges : \E l \in undone : l[1].inner /\ Drawn(l) = g
      BY <3>4, <3>5, <3>6, ShowsPage
    <3>8. \A l : HiddenIn(l, exists, joined, undone) => Hidden(l)
      BY DEF HiddenIn, Hidden
    <3> QED  BY <3>7, <3>8
  <2>2. \A g \in page.edges : {g[1], g[2]} \subseteq page.nodes \/ \E l \in undone : Drawn(l) = g
    BY DEF PictureOK, PageFits
  <2> QED  BY <2>1, <2>2 DEF PictureIsTrue
<1> QED  BY <1>1, QueueInit, QueueStep, FramesInit, FramesStep, MirrorsInit, MirrorsStep, ControlInit, ControlStep,
            NewestInit, NewestStep, PictureInit, PictureStep, PTL DEF Spec

=============================================================================
