------------------------- MODULE HookProtocolProofs -------------------------
(***************************************************************************)
(* What holds of the hook protocol for every kind of hub, every number of  *)
(* connections, every set of keys and every bound: listener lists, types   *)
(* and unshadowed lists, the abstract registry, and then the rows of the   *)
(* debugger.                                                               *)
(***************************************************************************)
EXTENDS HookProtocol, ListFacts

(***************************************************************************)
(* Listener lists.                                                         *)
(***************************************************************************)

\* A listener covers the request that names its own key.
LEMMA CoversOwnKey ==
  ASSUME NEW h \in Hook
  PROVE  Covers(h, KeyOf(h))
<1>1. KeyOf(h).n = h.n /\ KeyOf(h).name = h.name
  BY DEF KeyOf
<1>2. h.n \in Numbers
  BY DEF Hook
<1>3. h.n >= h.n
  <2>1. h.n \in Int
    BY <1>2, NumbersAssumption DEF NumbersAssumption
  <2> QED  BY <2>1
<1> QED
  BY <1>1, <1>3, KindAssumption
  DEF Covers, DebugHookCompare, QeHookCompare, BufferHookCompare, MessageCompare

\* A comparison reads nothing but the key of the request: a removal, which
\* names a key, meets the same listeners as an addition of that key would.
LEMMA CoversReadsTheKey ==
  ASSUME NEW g, NEW h, NEW b, KeyOf(h) = KeyOf(b)
  PROVE  Covers(g, h) <=> Covers(g, b)
<1>1. h.n = b.n /\ h.name = b.name
  BY DEF KeyOf
<1> QED
  BY <1>1 DEF Covers, DebugHookCompare, QeHookCompare, BufferHookCompare, MessageCompare

-----------------------------------------------------------------------------
\* No listener of the list is covered by an earlier one.
Unshadowed(list) == \A i, j \in DOMAIN list : i < j => ~Covers(list[i], list[j])

\* add_hook keeps a list unshadowed.
LEMMA AddKeepsUnshadowed ==
  ASSUME NEW list \in Seq(Hook), Unshadowed(list), NEW h \in Hook,
         NEW new \in AddHook(list, h)
  PROVE  new \in Seq(Hook) /\ Unshadowed(new)
<1>1. new = Append(list, h) /\ \A i \in DOMAIN list : ~Covers(list[i], h)
  BY DEF AddHook, IsCovered
<1>2. /\ new \in Seq(Hook)
      /\ Len(new) = Len(list) + 1
      /\ \A i \in 1..Len(list) : new[i] = list[i]
      /\ new[Len(list) + 1] = h
  BY <1>1, AppendProperties
<1>3. DOMAIN list = 1..Len(list) /\ DOMAIN new = 1..Len(new) /\ Len(list) \in Nat
  BY <1>2, LenProperties
<1>4. ASSUME NEW i \in DOMAIN new, NEW j \in DOMAIN new, i < j
      PROVE  ~Covers(new[i], new[j])
  <2>1. i \in DOMAIN list /\ new[i] = list[i]
    BY <1>2, <1>3, <1>4
  <2>2. CASE j \in DOMAIN list
    BY <1>2, <1>3, <1>4, <2>1, <2>2 DEF Unshadowed
  <2>3. CASE j = Len(list) + 1
    BY <1>1, <1>2, <2>1, <2>3
  <2> QED  BY <1>2, <1>3, <2>2, <2>3
<1> QED  BY <1>2, <1>4 DEF Unshadowed

\* remove_hook keeps a list unshadowed, whichever listener it takes out.
LEMMA RemoveKeepsUnshadowed ==
  ASSUME NEW list \in Seq(Hook), Unshadowed(list), NEW i \in DOMAIN list
  PROVE  RemoveAt(list, i) \in Seq(Hook) /\ Unshadowed(RemoveAt(list, i))
<1> DEFINE new == RemoveAt(list, i)
<1>1. DOMAIN list = 1..Len(list) /\ Len(list) \in Nat
  BY LenProperties
<1>2. /\ new \in Seq(Hook)
      /\ Len(new) = Len(list) - 1
      /\ \A j \in 1..(Len(list) - 1) : new[j] = IF j < i THEN list[j] ELSE list[j + 1]
  BY <1>1, RemoveAtProperties
<1> HIDE DEF new
<1>3. DOMAIN new = 1..Len(new)
  BY <1>2, LenProperties
<1>4. ASSUME NEW j \in DOMAIN new, NEW k \in DOMAIN new, j < k
      PROVE  ~Covers(new[j], new[k])
  <2>1. PICK a \in DOMAIN list : new[j] = list[a] /\ a = IF j < i THEN j ELSE j + 1
    BY <1>1, <1>2, <1>3
  <2>2. PICK b \in DOMAIN list : new[k] = list[b] /\ b = IF k < i THEN k ELSE k + 1
    BY <1>1, <1>2, <1>3
  <2>3. a < b
    BY <1>1, <1>3, <1>4, <2>1, <2>2, <1>2
  <2> QED  BY <2>1, <2>2, <2>3 DEF Unshadowed
<1> QED  BY <1>2, <1>4 DEF Unshadowed, new

\* The first listener that covers a key the list holds is the holder of that
\* key: a removal in an unshadowed list is exact.
LEMMA FirstCoveringIsTheKey ==
  ASSUME NEW list \in Seq(Hook), Unshadowed(list), NEW k \in Key,
         NEW m \in DOMAIN list, KeyOf(list[m]) = k,
         NEW i \in FirstCovering(list, k)
  PROVE  i = m
<1>1. DOMAIN list = 1..Len(list) /\ Len(list) \in Nat /\ list[m] \in Hook
  BY LenProperties, ElementOfSeq
<1>2. /\ i \in DOMAIN list
      /\ Covers(list[i], k)
      /\ \A j \in 1..(i - 1) : ~Covers(list[j], k)
  BY DEF FirstCovering
<1>3. Covers(list[m], k)
  BY <1>1, CoversOwnKey
<1>4. i <= m
  BY <1>1, <1>2, <1>3
<1>5. Covers(list[i], list[m])
  <2>1. KeyOf(list[m]) = KeyOf(k)
    BY DEF KeyOf, Key
  <2> QED  BY <1>2, <2>1, CoversReadsTheKey
<1> QED  BY <1>1, <1>2, <1>4, <1>5 DEF Unshadowed

\* An unshadowed list never holds a key twice.
LEMMA KeysAreUnique ==
  ASSUME NEW list \in Seq(Hook), Unshadowed(list),
         NEW i \in DOMAIN list, NEW j \in DOMAIN list, KeyOf(list[i]) = KeyOf(list[j])
  PROVE  i = j
<1>1. DOMAIN list = 1..Len(list) /\ Len(list) \in Nat /\ list[i] \in Hook /\ list[j] \in Hook
  BY LenProperties, ElementOfSeq
<1>2. Covers(list[i], list[j]) /\ Covers(list[j], list[i])
  <2>1. KeyOf(KeyOf(list[i])) = KeyOf(list[i]) /\ KeyOf(KeyOf(list[j])) = KeyOf(list[j])
    BY DEF KeyOf
  <2>2. Covers(list[i], KeyOf(list[i])) /\ Covers(list[j], KeyOf(list[j]))
    BY <1>1, CoversOwnKey
  <2> QED  BY <2>1, <2>2, CoversReadsTheKey
<1> QED  BY <1>1, <1>2 DEF Unshadowed

(***************************************************************************)
(* Types, unshadowed lists, and the registry the hubs implement.           *)
(***************************************************************************)

\* Sequences that grow at the end or shrink at the head stay sequences.
LEMMA QueueOps ==
  ASSUME NEW S, NEW q \in Seq(S)
  PROVE  /\ \A x \in S : Append(q, x) \in Seq(S)
         /\ \A p \in Seq(S) : q \o p \in Seq(S)
         /\ q # <<>> => Head(q) \in S /\ Tail(q) \in Seq(S)
BY HeadTailProperties, AppendProperties, ConcatProperties

\* The hook a request asks for is a hook, and it has the key of the request.
LEMMA RequestedIsAHook ==
  ASSUME NEW k \in Key
  PROVE  Requested(k) \in Hook /\ KeyOf(Requested(k)) = k
<1>1. k.n \in Numbers /\ k.name \in Names /\ k = [n |-> k.n, name |-> k.name]
  BY DEF Key
<1>2. (PadKind /\ k.name \notin resolvable) \in BOOLEAN
  BY DEF PadKind
<1> QED  BY <1>1, <1>2 DEF Requested, Hook, KeyOf

\* Both ways to change a list keep it a list of hooks, and unshadowed.
LEMMA ListStep ==
  ASSUME NEW c \in Conns, hub[c] \in Seq(Hook), Unshadowed(hub[c]), NEW list,
         \/ \E k \in Key : list \in AddHook(hub[c], Requested(k))
         \/ \E k \in Key : list \in RemoveHook(hub[c], k)
  PROVE  list \in Seq(Hook) /\ Unshadowed(list)
<1>1. CASE \E k \in Key : list \in AddHook(hub[c], Requested(k))
  BY <1>1, RequestedIsAHook, AddKeepsUnshadowed
<1>2. CASE \E k \in Key : list \in RemoveHook(hub[c], k)
  BY <1>2, RemoveKeepsUnshadowed DEF RemoveHook, FirstCovering
<1> QED  BY <1>1, <1>2

-----------------------------------------------------------------------------
\* Each list of the hub is a list of hooks with none covered by an earlier one.
HubOK == hub \in [Conns -> Seq(Hook)] /\ NoShadowedHook

LEMMA HubInit == Init => HubOK
<1> SUFFICES ASSUME Init PROVE HubOK
  OBVIOUS
<1>1. \A c \in Conns : hub[c] = <<>>
  BY DEF Init
<1> QED  BY <1>1 DEF Init, HubOK, NoShadowedHook

\* Only the thread that serves a connection touches the connection's list.
LEMMA HubStep == HubOK /\ [Next]_vars => HubOK'
<1> SUFFICES ASSUME HubOK, [Next]_vars PROVE HubOK'
  OBVIOUS
<1>0. hub \in [Conns -> Seq(Hook)] /\ \A c \in Conns : Unshadowed(hub[c])
  BY DEF HubOK, NoShadowedHook, Unshadowed
<1>1. ASSUME NEW c \in Conns, NEW list \in Seq(Hook), Unshadowed(list),
             hub' = [hub EXCEPT ![c] = list]
      PROVE  HubOK'
  <2>1. hub' \in [Conns -> Seq(Hook)]
    BY <1>0, <1>1
  <2>2. \A d \in Conns : hub'[d] = IF d = c THEN list ELSE hub[d]
    BY <1>0, <1>1
  <2> QED  BY <1>0, <1>1, <2>1, <2>2 DEF HubOK, NoShadowedHook, Unshadowed
<1>2. ASSUME UNCHANGED hub PROVE HubOK'
  BY <1>2 DEF HubOK, NoShadowedHook
<1>3. ASSUME NEW c \in Conns, ProcessHookRequest(c) PROVE HubOK'
  <2>1. CASE ProcessAdd(c)
    <3>1. PICK k \in Key : \E list \in AddHook(hub[c], Requested(k)) : hub' = [hub EXCEPT ![c] = list]
      BY <2>1 DEF ProcessAdd, Granted
    <3>2. PICK list \in AddHook(hub[c], Requested(k)) : hub' = [hub EXCEPT ![c] = list]
      BY <3>1
    <3> QED  BY <1>0, <1>1, <3>2, ListStep
  <2>2. CASE ProcessRemove(c)
    <3>1. PICK k \in Key : \E list \in RemoveHook(hub[c], k) : hub' = [hub EXCEPT ![c] = list]
      BY <2>2 DEF ProcessRemove, Granted
    <3>2. PICK list \in RemoveHook(hub[c], k) : hub' = [hub EXCEPT ![c] = list]
      BY <3>1
    <3> QED  BY <1>0, <1>1, <3>2, ListStep
  <2>3. CASE ProcessRefused(c)
    BY <1>2, <2>3 DEF ProcessRefused
  <2> QED  BY <1>3, <2>1, <2>2, <2>3 DEF ProcessHookRequest
<1>4. ASSUME NEW c \in Conns, ClientGone(c) PROVE HubOK'
  <2>1. <<>> \in Seq(Hook) /\ Unshadowed(<<>>)
    BY DEF Unshadowed
  <2> QED  BY <1>1, <1>4, <2>1 DEF ClientGone
<1>5. ASSUME NEW c \in Conns, SendConfirmation(c) PROVE HubOK'
  BY <1>2, <1>5 DEF SendConfirmation
<1>6. CASE Connect
  BY <1>2, <1>6 DEF Connect
<1>7. CASE EndSession
  BY <1>2, <1>7 DEF EndSession
<1>8. CASE ClickAdd \/ ClickRemove
  BY <1>2, <1>8 DEF ClickAdd, ClickRemove, Click
<1>9. CASE ConfirmationReceived
  BY <1>2, <1>9 DEF ConfirmationReceived
<1>10. CASE ReadFrame
  BY <1>2, <1>10 DEF ReadFrame
<1>11. CASE \E e \in Event : SendData(e)
  BY <1>2, <1>11 DEF SendData
<1>12. CASE PipelineChanges
  BY <1>2, <1>12 DEF PipelineChanges
<1>13. CASE UNCHANGED vars
  BY <1>2, <1>13 DEF vars
<1> QED
  BY <1>3, <1>4, <1>5, <1>6, <1>7, <1>8, <1>9, <1>10, <1>11, <1>12, <1>13 DEF Next

LEMMA HubCorrect == Spec => []HubOK
BY HubInit, HubStep, PTL DEF Spec

\* Whatever clients ask, in whatever order and as the pipeline changes under
\* them, add_hook and remove_hook never leave a listener behind a covering one.
THEOREM NeverShadowed == Spec => []NoShadowedHook
<1>1. HubOK => NoShadowedHook
  BY DEF HubOK
<1> QED  BY <1>1, HubCorrect, PTL

-----------------------------------------------------------------------------
\* Type correctness.

LEMMA TypeInit == Init => TypeOK
<1> SUFFICES ASSUME Init PROVE TypeOK
  OBVIOUS
<1>1. resolvable \subseteq Names \ {NoName}
  BY DEF Init
<1> QED  BY <1>1, EmptySeq, BoundsAssumption DEF Init, TypeOK, BoundsAssumption

LEMMA TypeStep == TypeOK /\ HubOK' /\ [Next]_vars => TypeOK'
<1> SUFFICES ASSUME TypeOK, HubOK', [Next]_vars PROVE TypeOK'
  OBVIOUS
<1> USE DEF TypeOK
<1>0. hub' \in [Conns -> Seq(Hook)]
  BY DEF HubOK
<1>1. CASE Connect
  BY <1>0, <1>1 DEF Connect
<1>2. CASE EndSession
  BY <1>0, <1>2, EmptySeq DEF EndSession
<1>3. ASSUME NEW tag \in {"ADD", "REMOVE"}, NEW k \in Key, Click(tag, k) PROVE TypeOK'
  <2>1. [tag |-> tag, key |-> k] \in Command
    BY DEF Command
  <2>2. Written([tag |-> tag, key |-> k]) \in Seq(Command)
    BY <2>1 DEF Written
  <2>3. commands[conn] \o Written([tag |-> tag, key |-> k]) \in Seq(Command)
    BY <1>3, <2>2, QueueOps DEF Click
  <2>4. clicks' \in 0..MaxClicks
    BY <1>3, BoundsAssumption DEF Click, BoundsAssumption
  <2> QED  BY <1>0, <1>3, <2>3, <2>4 DEF Click
<1>4. CASE ClickAdd \/ ClickRemove
  BY <1>3, <1>4 DEF ClickAdd, ClickRemove
<1>5. CASE ConfirmationReceived
  <2>1. Head(guiQueue) \in Command /\ Tail(guiQueue) \in Seq(Command)
    BY <1>5, QueueOps DEF ConfirmationReceived
  <2>2. Head(guiQueue).key \in Key
    BY <2>1 DEF Command
  <2>3. rows' \in [Key -> Nat]
    BY <1>5, <2>2 DEF ConfirmationReceived
  <2> QED  BY <1>0, <1>5, <2>1, <2>3 DEF ConfirmationReceived
<1>6. CASE ReadFrame
  <2>1. Head(frames[conn]) \in Frame /\ Tail(frames[conn]) \in Seq(Frame)
    BY <1>6, QueueOps DEF ReadFrame
  <2>2. Head(frames[conn]).tag # "data" => Head(frames[conn]) \in Command
    BY <2>1 DEF Frame, Command
  <2>3. guiQueue' \in Seq(Command)
    BY <1>6, <2>2, QueueOps DEF ReadFrame
  <2> QED  BY <1>0, <1>6, <2>1, <2>3 DEF ReadFrame
<1>7. ASSUME NEW c \in Conns, NEW cmd \in Command, TakeCommand(c, cmd),
             reply' = reply \/ reply' = [reply EXCEPT ![c] = <<cmd>>]
      PROVE  TypeOK'
  <2>1. Tail(commands[c]) \in Seq(Command)
    BY <1>7, QueueOps DEF TakeCommand
  <2>2. <<cmd>> \in Seq(Command)
    OBVIOUS
  <2>3. reply' \in [Conns -> Seq(Command)]
    BY <1>7, <2>2
  <2> QED  BY <1>0, <1>7, <2>1, <2>3 DEF TakeCommand
<1>8. ASSUME NEW c \in Conns, ProcessHookRequest(c) PROVE TypeOK'
  <2>1. \A tag \in {"ADD", "REMOVE"}, k \in Key : [tag |-> tag, key |-> k] \in Command
    BY DEF Command
  <2> QED
    BY <1>7, <1>8, <2>1 DEF ProcessHookRequest, ProcessAdd, ProcessRemove,
       ProcessRefused, Granted
<1>9. ASSUME NEW c \in Conns, SendConfirmation(c) PROVE TypeOK'
  <2>1. reply[c] \in Seq(Frame) /\ <<>> \in Seq(Command)
    <3>1. Command \subseteq Frame
      BY DEF Command, Frame
    <3> QED  BY <3>1, SeqMonotonic
  <2>2. frames[c] \o reply[c] \in Seq(Frame)
    BY <2>1, QueueOps
  <2> QED  BY <1>0, <1>9, <2>1, <2>2 DEF SendConfirmation
<1>10. ASSUME NEW c \in Conns, ClientGone(c) PROVE TypeOK'
  BY <1>0, <1>10, EmptySeq DEF ClientGone
<1>11. ASSUME NEW e \in Event, SendData(e) PROVE TypeOK'
  <2>1. ASSUME NEW c \in Conns, Listening(c, e)
        PROVE  [tag |-> "data",
                key |-> KeyOf(hub[c][CHOOSE i \in FirstPassing(hub[c], e) : TRUE])]
               \in Frame
    <3> DEFINE i == CHOOSE i \in FirstPassing(hub[c], e) : TRUE
    <3>1. i \in FirstPassing(hub[c], e)
      BY <2>1 DEF Listening
    <3>2. i \in DOMAIN hub[c]
      BY <3>1 DEF FirstPassing
    <3> HIDE DEF i
    <3>3. hub[c][i] \in Hook
      BY <3>2
    <3>4. KeyOf(hub[c][i]) \in Key
      BY <3>3 DEF Hook
    <3> QED  BY <3>4 DEF Frame, i
  <2>2. frames' \in [Conns -> Seq(Frame)]
    BY <1>11, <2>1, QueueOps DEF SendData
  <2>3. events' \in 0..MaxEvents
    BY <1>11, BoundsAssumption DEF SendData, BoundsAssumption
  <2> QED  BY <1>0, <1>11, <2>2, <2>3 DEF SendData
<1>12. CASE PipelineChanges
  BY <1>0, <1>12 DEF PipelineChanges
<1>13. CASE UNCHANGED vars
  BY <1>0, <1>13 DEF vars
<1> QED
  BY <1>1, <1>2, <1>4, <1>5, <1>6, <1>8, <1>9, <1>10, <1>11, <1>12, <1>13 DEF Next

\* Every variable keeps its type.
THEOREM TypeCorrect == Spec => []TypeOK
<1>1. Init => TypeOK
  BY TypeInit
<1>2. TypeOK /\ HubOK' /\ [Next]_vars => TypeOK'
  BY TypeStep
<1> QED  BY <1>1, <1>2, HubCorrect, PTL DEF Spec

-----------------------------------------------------------------------------
\* The first listener that covers the key of a removal is the listener of that
\* very key whenever the client holds it: the removal takes that one only.
LEMMA RemovalStep ==
  ASSUME HubOK, reply \in [Conns -> Seq(Command)], [Next]_vars,
         NEW c \in Conns, NEW k \in Key,
         reply[c] = <<>>, reply'[c] = <<[tag |-> "REMOVE", key |-> k]>>, Holds(c, k)
  PROVE  \E i \in DOMAIN hub[c] : /\ KeyOf(hub[c][i]) = k
                                /\ hub'[c] = RemoveAt(hub[c], i)
<1>0. hub \in [Conns -> Seq(Hook)] /\ Unshadowed(hub[c])
  BY DEF HubOK, NoShadowedHook, Unshadowed
<1>1. reply'[c] # reply[c]
  OBVIOUS
<1>2. ~UNCHANGED reply
  BY <1>1
<1>3. PICK d \in Conns : ProcessAdd(d) \/ ProcessRemove(d) \/ SendConfirmation(d)
  BY <1>2 DEF Next, vars, Connect, EndSession, ClickAdd, ClickRemove, Click,
     ConfirmationReceived, ReadFrame, ProcessHookRequest, ProcessRefused, ClientGone,
     SendData, PipelineChanges
<1>4. CASE SendConfirmation(d)
  BY <1>1, <1>4 DEF SendConfirmation
<1>5. CASE ProcessAdd(d)
  BY <1>1, <1>5 DEF ProcessAdd, Granted
<1>6. CASE ProcessRemove(d)
  <2>1. PICK m \in Key :
          \E list \in RemoveHook(hub[d], m) :
            Granted(d, [tag |-> "REMOVE", key |-> m], list)
    BY <1>6 DEF ProcessRemove
  <2>2. d = c
    BY <1>1, <2>1 DEF Granted
  <2>3. m = k
    BY <2>1, <2>2 DEF Granted
  <2>4. PICK i \in FirstCovering(hub[c], k) : hub'[c] = RemoveAt(hub[c], i)
    BY <1>0, <2>1, <2>2, <2>3 DEF Granted, RemoveHook
  <2>5. PICK j \in DOMAIN hub[c] : KeyOf(hub[c][j]) = k
    BY DEF Holds
  <2>6. i = j
    BY <1>0, <2>4, <2>5, FirstCoveringIsTheKey
  <2> QED  BY <2>4, <2>5, <2>6
<1> QED  BY <1>3, <1>4, <1>5, <1>6

\* A removal of a key the client holds removes that hook and no other one.
THEOREM RemovalExact == Spec => RemovalIsExact
<1>1. TypeOK => reply \in [Conns -> Seq(Command)]
  BY DEF TypeOK
<1>2. HubOK /\ TypeOK /\ [Next]_vars => [RemovesTheKey]_vars
  BY <1>1, RemovalStep DEF RemovesTheKey
<1> QED  BY <1>2, HubCorrect, TypeCorrect, PTL DEF Spec, RemovalIsExact
-----------------------------------------------------------------------------
\* The lists of a hub implement the registry of hooks: the registry of a client
\* is the set of the elements of its list.

Elements(list) == {list[i] : i \in DOMAIN list}

\* The registry's copies of the hook definitions are the ones of the lists.
LEMMA SameHooks ==
  /\ Registry!Hook = Hook
  /\ Registry!Key = Key
  /\ \A a, b : Registry!Covers(a, b) <=> Covers(a, b)
  /\ \A h : Registry!KeyOf(h) = KeyOf(h)
BY DEF Registry!Hook, Hook, Registry!Key, Key, Registry!KeyOf, KeyOf,
   Registry!Covers, Covers, Registry!DebugHookCompare, DebugHookCompare,
   Registry!QeHookCompare, QeHookCompare, Registry!BufferHookCompare,
   BufferHookCompare, Registry!MessageCompare, MessageCompare

\* Appending a hook to a list adds it to the set.
LEMMA AppendAddsOne ==
  ASSUME NEW list \in Seq(Hook), NEW h \in Hook
  PROVE  Elements(Append(list, h)) = Elements(list) \cup {h}
<1> DEFINE new == Append(list, h)
<1>1. /\ DOMAIN list = 1..Len(list) /\ Len(list) \in Nat
      /\ new \in Seq(Hook)
      /\ Len(new) = Len(list) + 1
      /\ \A i \in 1..Len(list) : new[i] = list[i]
      /\ new[Len(list) + 1] = h
  BY LenProperties, AppendProperties
<1>2. DOMAIN new = 1..(Len(list) + 1)
  BY <1>1, LenProperties
<1> HIDE DEF new
<1>3. \A i \in DOMAIN new : new[i] \in Elements(list) \cup {h}
  BY <1>1, <1>2 DEF Elements
<1>4. \A i \in DOMAIN list : i \in DOMAIN new /\ new[i] = list[i]
  BY <1>1, <1>2
<1>5. Len(list) + 1 \in DOMAIN new
  BY <1>1, <1>2
<1>6. Elements(new) = Elements(list) \cup {h}
  BY <1>1, <1>3, <1>4, <1>5 DEF Elements
<1> QED  BY <1>6 DEF new

\* Taking a listener out of an unshadowed list takes its hook out of the set:
\* no other listener of the list is the same hook.
LEMMA RemoveAtTakesOne ==
  ASSUME NEW list \in Seq(Hook), Unshadowed(list), NEW i \in DOMAIN list
  PROVE  Elements(RemoveAt(list, i)) = Elements(list) \ {list[i]}
<1> DEFINE new == RemoveAt(list, i)
<1>1. DOMAIN list = 1..Len(list) /\ Len(list) \in Nat
  BY LenProperties
<1>2. /\ new \in Seq(Hook)
      /\ Len(new) = Len(list) - 1
      /\ \A j \in 1..(Len(list) - 1) : new[j] = IF j < i THEN list[j] ELSE list[j + 1]
  BY <1>1, RemoveAtProperties
<1>3. DOMAIN new = 1..(Len(list) - 1)
  BY <1>2, LenProperties
<1> HIDE DEF new
<1>4. \A j \in DOMAIN list : list[j] = list[i] => j = i
  BY KeysAreUnique
<1>5. ASSUME NEW j \in DOMAIN new PROVE new[j] \in Elements(list) \ {list[i]}
  <2>1. PICK a \in DOMAIN list : a # i /\ new[j] = list[a]
    <3> DEFINE a == IF j < i THEN j ELSE j + 1
    <3>1. a \in DOMAIN list /\ a # i /\ new[j] = list[a]
      BY <1>1, <1>2, <1>3
    <3> QED  BY <3>1
  <2> QED  BY <1>4, <2>1 DEF Elements
<1>6. ASSUME NEW a \in DOMAIN list, a # i PROVE \E j \in DOMAIN new : new[j] = list[a]
  <2>1. CASE a < i
    <3>1. a \in DOMAIN new /\ new[a] = list[a]
      BY <1>1, <1>2, <1>3, <2>1
    <3> QED  BY <3>1
  <2>2. CASE a > i
    <3>1. a - 1 \in DOMAIN new /\ new[a - 1] = list[(a - 1) + 1] /\ (a - 1) + 1 = a
      BY <1>1, <1>2, <1>3, <2>2
    <3> QED  BY <3>1
  <2> QED  BY <1>1, <1>6, <2>1, <2>2
<1>7. Elements(new) = Elements(list) \ {list[i]}
  <2>1. Elements(new) \subseteq Elements(list) \ {list[i]}
    BY <1>5 DEF Elements
  <2>2. ASSUME NEW x \in Elements(list) \ {list[i]} PROVE x \in Elements(new)
    <3>1. PICK a \in DOMAIN list : x = list[a]
      BY DEF Elements
    <3>2. a # i
      BY <3>1
    <3> QED  BY <1>6, <3>1, <3>2 DEF Elements
  <2> QED  BY <2>1, <2>2
<1> QED  BY <1>7 DEF new

-----------------------------------------------------------------------------
\* The refinement mapping, named.
Mapped == [c \in Conns |-> {hub[c][i] : i \in DOMAIN hub[c]}]

\* A new list of one client changes the registry at that client only.
LEMMA MappedAt ==
  ASSUME hub \in [Conns -> Seq(Hook)], NEW c \in Conns, NEW list \in Seq(Hook),
         hub' = [hub EXCEPT ![c] = list]
  PROVE  Mapped' = [Mapped EXCEPT ![c] = Elements(list)]
<1>1. \A d \in Conns : hub'[d] = IF d = c THEN list ELSE hub[d]
  OBVIOUS
<1>2. \A d \in Conns : Mapped'[d] = IF d = c THEN Elements(list) ELSE Mapped[d]
  BY <1>1 DEF Mapped, Elements
<1> QED  BY <1>2 DEF Mapped

\* Initially no client holds a hook.
LEMMA RegistryStarts == Init => Registry!RegistryInit
<1> SUFFICES ASSUME Init PROVE Registry!RegistryInit
  OBVIOUS
<1>1. \A c \in Conns : hub[c] = <<>>
  BY DEF Init
<1>2. \A c \in Conns : {hub[c][i] : i \in DOMAIN hub[c]} = {}
  BY <1>1
<1> QED  BY <1>2 DEF Registry!RegistryInit

\* An accepted ADD grants the hook it asks for.
LEMMA AddGrants ==
  ASSUME HubOK, NEW c \in Conns, ProcessAdd(c)
  PROVE  Registry!Grant(c)
<1>0. hub \in [Conns -> Seq(Hook)]
  BY DEF HubOK
<1>1. PICK k \in Key : \E list \in AddHook(hub[c], Requested(k)) : hub' = [hub EXCEPT ![c] = list]
  BY DEF ProcessAdd, Granted
<1> DEFINE h == Requested(k)
<1>2. h \in Hook
  BY RequestedIsAHook
<1> HIDE DEF h
<1>3. ~IsCovered(hub[c], h) /\ hub' = [hub EXCEPT ![c] = Append(hub[c], h)]
  BY <1>1 DEF AddHook, h
<1>4. Append(hub[c], h) \in Seq(Hook)
  BY <1>0, <1>2, AppendProperties
<1>5. Mapped' = [Mapped EXCEPT ![c] = Elements(hub[c]) \cup {h}]
  BY <1>0, <1>2, <1>3, <1>4, MappedAt, AppendAddsOne
<1>6. Mapped[c] = Elements(hub[c])
  BY DEF Mapped, Elements
<1>7. \A g \in Mapped[c] : ~Covers(g, h)
  BY <1>3, <1>6 DEF IsCovered, Elements
<1>8. Mapped' = [Mapped EXCEPT ![c] = @ \cup {h}]
  BY <1>5, <1>6
<1> QED  BY <1>2, <1>7, <1>8, SameHooks DEF Registry!Grant, Mapped

\* An accepted REMOVE revokes one hook, the one of its key if it is held.
LEMMA RemoveRevokes ==
  ASSUME HubOK, NEW c \in Conns, ProcessRemove(c)
  PROVE  Registry!Revoke(c)
<1>0. hub \in [Conns -> Seq(Hook)] /\ Unshadowed(hub[c])
  BY DEF HubOK, NoShadowedHook, Unshadowed
<1>1. PICK k \in Key : \E list \in RemoveHook(hub[c], k) : hub' = [hub EXCEPT ![c] = list]
  BY DEF ProcessRemove, Granted
<1>2. PICK i \in FirstCovering(hub[c], k) : hub' = [hub EXCEPT ![c] = RemoveAt(hub[c], i)]
  BY <1>1 DEF RemoveHook
<1>3. i \in DOMAIN hub[c] /\ Covers(hub[c][i], k)
  BY <1>2 DEF FirstCovering
<1>4. RemoveAt(hub[c], i) \in Seq(Hook)
  BY <1>0, <1>3, RemoveKeepsUnshadowed
<1>5. Mapped[c] = Elements(hub[c])
  BY DEF Mapped, Elements
<1>6. Mapped' = [Mapped EXCEPT ![c] = @ \ {hub[c][i]}]
  <2>1. Elements(RemoveAt(hub[c], i)) = Elements(hub[c]) \ {hub[c][i]}
    BY <1>0, <1>3, RemoveAtTakesOne
  <2>2. Mapped' = [Mapped EXCEPT ![c] = Elements(RemoveAt(hub[c], i))]
    BY <1>0, <1>2, <1>4, MappedAt
  <2> QED  BY <1>5, <2>1, <2>2
<1>7. hub[c][i] \in Mapped[c]
  BY <1>3, <1>5 DEF Elements
<1>8. ASSUME NEW g \in Mapped[c], KeyOf(g) = k PROVE KeyOf(hub[c][i]) = k
  <2>1. PICK m \in DOMAIN hub[c] : g = hub[c][m]
    BY <1>5 DEF Elements
  <2>2. i = m
    BY <1>0, <1>2, <1>8, <2>1, FirstCoveringIsTheKey
  <2> QED  BY <1>8, <2>1, <2>2
<1> QED  BY <1>3, <1>6, <1>7, <1>8, SameHooks DEF Registry!Revoke, Mapped

\* A client that is gone has no hook left.
LEMMA GoneLeaves ==
  ASSUME HubOK, NEW c \in Conns, ClientGone(c)
  PROVE  Registry!Leave(c)
<1>1. hub \in [Conns -> Seq(Hook)] /\ hub' = [hub EXCEPT ![c] = <<>>]
  BY DEF HubOK, ClientGone
<1>2. Elements(<<>>) = {}
  BY DEF Elements
<1>3. Mapped' = [Mapped EXCEPT ![c] = {}]
  BY <1>1, <1>2, MappedAt, EmptySeq
<1> QED  BY <1>3 DEF Registry!Leave, Mapped

\* Every step of the protocol is a step of the registry or leaves it as it is.
LEMMA RegistrySteps ==
  ASSUME HubOK, [Next]_vars
  PROVE  [Registry!RegistryNext]_Mapped
<1>1. CASE UNCHANGED hub
  BY <1>1 DEF Mapped
<1>2. CASE ~UNCHANGED hub
  <2>1. PICK c \in Conns : ProcessAdd(c) \/ ProcessRemove(c) \/ ClientGone(c)
    BY <1>2 DEF Next, vars, Connect, EndSession, ClickAdd, ClickRemove, Click,
       ConfirmationReceived, ReadFrame, ProcessHookRequest, ProcessRefused,
       SendConfirmation, SendData, PipelineChanges
  <2> QED  BY <2>1, AddGrants, RemoveRevokes, GoneLeaves DEF Registry!RegistryNext
<1> QED  BY <1>1, <1>2

\* However clicks, requests, confirmations, data and reconnections interleave,
\* the lists add_hook and remove_hook work on behave as sets of hooks from which
\* a removal takes exactly one hook, the one of the key if the client has it.
THEOREM RegistryImplemented == Spec => ImplementsRegistry
<1>1. Init => Registry!RegistryInit
  BY RegistryStarts
<1>2. HubOK /\ [Next]_vars => [Registry!RegistryNext]_Mapped
  BY RegistrySteps
<1> QED
  BY <1>1, <1>2, HubCorrect, PTL
  DEF Spec, ImplementsRegistry, Registry!RegistrySpec, Mapped

(***************************************************************************)
(* Every hook the server holds for the debugger has a row, or a            *)
(* confirmation under way that will make one.                              *)
(***************************************************************************)

\* How Takes and Gives read a sequence piece by piece.
LEMMA TakesGivesConcat ==
  ASSUME NEW S, NEW p \in Seq(S), NEW q \in Seq(S), NEW k
  PROVE  /\ Takes(k, p \o q) <=> Takes(k, p) \/ Takes(k, q)
         /\ Gives(k, p \o q) <=> Gives(k, q) \/ (Gives(k, p) /\ ~Takes(k, q))
<1> DEFINE rem == [tag |-> "REMOVE", key |-> k]
           add == [tag |-> "ADD", key |-> k]
           r == p \o q
<1>1. /\ DOMAIN p = 1..Len(p) /\ Len(p) \in Nat
      /\ DOMAIN q = 1..Len(q) /\ Len(q) \in Nat
  BY LenProperties
<1>2. /\ DOMAIN r = 1..(Len(p) + Len(q))
      /\ \A i \in DOMAIN p : i \in DOMAIN r /\ r[i] = p[i]
      /\ \A i \in DOMAIN q : Len(p) + i \in DOMAIN r /\ r[Len(p) + i] = q[i]
  <2>1. /\ r \in Seq(S)
        /\ Len(r) = Len(p) + Len(q)
        /\ \A i \in 1..(Len(p) + Len(q)) : r[i] = IF i <= Len(p) THEN p[i] ELSE q[i - Len(p)]
    BY ConcatProperties
  <2>2. DOMAIN r = 1..(Len(p) + Len(q))
    BY <2>1, LenProperties
  <2> QED  BY <1>1, <2>1, <2>2
<1>3. \A i \in DOMAIN r : i \in DOMAIN p \/ \E j \in DOMAIN q : i = Len(p) + j
  <2> SUFFICES ASSUME NEW i \in DOMAIN r, i \notin DOMAIN p
               PROVE  \E j \in DOMAIN q : i = Len(p) + j
    OBVIOUS
  <2>1. i - Len(p) \in DOMAIN q /\ i = Len(p) + (i - Len(p))
    BY <1>1, <1>2
  <2> QED  BY <2>1
<1> HIDE DEF r
<1>4. Takes(k, r) <=> Takes(k, p) \/ Takes(k, q)
  <2>1. ASSUME NEW i \in DOMAIN r, r[i] = rem PROVE Takes(k, p) \/ Takes(k, q)
    BY <1>2, <1>3, <2>1 DEF Takes
  <2>2. ASSUME NEW i \in DOMAIN p, p[i] = rem PROVE Takes(k, r)
    BY <1>2, <2>2 DEF Takes
  <2>3. ASSUME NEW i \in DOMAIN q, q[i] = rem PROVE Takes(k, r)
    BY <1>2, <2>3 DEF Takes
  <2> QED  BY <2>1, <2>2, <2>3 DEF Takes
<1>5. Gives(k, r) => Gives(k, q) \/ (Gives(k, p) /\ ~Takes(k, q))
  <2> SUFFICES ASSUME NEW i \in DOMAIN r, r[i] = add,
                      \A j \in DOMAIN r : j > i => r[j] # rem
               PROVE  Gives(k, q) \/ (Gives(k, p) /\ ~Takes(k, q))
    BY DEF Gives
  <2>1. CASE i \in DOMAIN p
    <3>1. \A j \in DOMAIN p : j > i => p[j] # rem
      BY <1>2
    <3>2. \A j \in DOMAIN q : q[j] # rem
      BY <1>1, <1>2, <2>1
    <3> QED  BY <1>2, <2>1, <3>1, <3>2 DEF Gives, Takes
  <2>2. CASE i \notin DOMAIN p
    <3>1. PICK m \in DOMAIN q : i = Len(p) + m
      BY <1>3, <2>2
    <3>2. \A j \in DOMAIN q : j > m => q[j] # rem
      BY <1>1, <1>2, <3>1
    <3> QED  BY <1>2, <3>1, <3>2 DEF Gives
  <2> QED  BY <2>1, <2>2
<1>6. Gives(k, q) => Gives(k, r)
  <2> SUFFICES ASSUME NEW m \in DOMAIN q, q[m] = add,
                      \A j \in DOMAIN q : j > m => q[j] # rem
               PROVE  Gives(k, r)
    BY DEF Gives
  <2>1. ASSUME NEW j \in DOMAIN r, j > Len(p) + m PROVE r[j] # rem
    BY <1>1, <1>2, <1>3, <2>1
  <2> QED  BY <1>2, <2>1 DEF Gives
<1>7. Gives(k, p) /\ ~Takes(k, q) => Gives(k, r)
  <2> SUFFICES ASSUME NEW m \in DOMAIN p, p[m] = add,
                      \A j \in DOMAIN p : j > m => p[j] # rem,
                      ~Takes(k, q)
               PROVE  Gives(k, r)
    BY DEF Gives
  <2>1. ASSUME NEW j \in DOMAIN r, j > m PROVE r[j] # rem
    BY <1>1, <1>2, <1>3, <2>1 DEF Takes
  <2> QED  BY <1>2, <2>1 DEF Gives
<1> QED  BY <1>4, <1>5, <1>6, <1>7 DEF r

\* The same for no confirmation and for one.
LEMMA TakesGivesOne ==
  ASSUME NEW k, NEW x
  PROVE  /\ ~Takes(k, <<>>) /\ ~Gives(k, <<>>)
         /\ Takes(k, <<x>>) <=> x = [tag |-> "REMOVE", key |-> k]
         /\ Gives(k, <<x>>) <=> x = [tag |-> "ADD", key |-> k]
BY DEF Takes, Gives

\* A nonempty queue is its head before its tail.
LEMMA HeadBeforeTail ==
  ASSUME NEW S, NEW q \in Seq(S), q # <<>>
  PROVE  /\ Head(q) \in S /\ Tail(q) \in Seq(S)
         /\ <<Head(q)>> \in Seq(S)
         /\ q = <<Head(q)>> \o Tail(q)
<1>1. /\ Head(q) \in S /\ Tail(q) \in Seq(S) /\ Len(Tail(q)) = Len(q) - 1
      /\ \A i \in 1..Len(Tail(q)) : Tail(q)[i] = q[i + 1]
  BY HeadTailProperties
<1>2. <<Head(q)>> \in Seq(S) /\ Len(<<Head(q)>>) = 1 /\ <<Head(q)>>[1] = q[1]
  BY <1>1
<1>3. Len(q) \in Nat
  BY LenProperties
<1>4. /\ <<Head(q)>> \o Tail(q) \in Seq(S)
      /\ Len(<<Head(q)>> \o Tail(q)) = Len(q)
      /\ \A i \in 1..Len(q) : (<<Head(q)>> \o Tail(q))[i] = q[i]
  <2>1. /\ <<Head(q)>> \o Tail(q) \in Seq(S)
        /\ Len(<<Head(q)>> \o Tail(q)) = Len(<<Head(q)>>) + Len(Tail(q))
        /\ \A i \in 1..(Len(<<Head(q)>>) + Len(Tail(q))) :
             (<<Head(q)>> \o Tail(q))[i] =
               IF i <= Len(<<Head(q)>>) THEN <<Head(q)>>[i] ELSE Tail(q)[i - Len(<<Head(q)>>)]
    BY <1>1, <1>2, ConcatProperties
  <2> QED  BY <1>1, <1>2, <1>3, <2>1
<1> QED  BY <1>1, <1>2, <1>4, SeqEqual

-----------------------------------------------------------------------------
\* What makes a row of k, read off the three queues a confirmation passes: the
\* last of them that gives k counts, unless a later one takes k back.
ShownBy(k, n, q1, q2, q3) ==
  \/ Gives(k, q3)
  \/ ~Takes(k, q3) /\ \/ Gives(k, q2)
                      \/ ~Takes(k, q2) /\ \/ Gives(k, q1)
                                          \/ ~Takes(k, q1) /\ n > 0

LEMMA ShownByParts ==
  ASSUME NEW S, NEW q1 \in Seq(S), NEW q2 \in Seq(S), NEW q3 \in Seq(S), NEW k
  PROVE  Shown(k, q1 \o q2 \o q3) <=> ShownBy(k, rows[k], q1, q2, q3)
<1>1. q1 \o q2 \in Seq(S)
  BY ConcatProperties
<1>2. /\ Takes(k, q1 \o q2 \o q3) <=> Takes(k, q1 \o q2) \/ Takes(k, q3)
      /\ Gives(k, q1 \o q2 \o q3) <=> Gives(k, q3) \/ (Gives(k, q1 \o q2) /\ ~Takes(k, q3))
  BY <1>1, TakesGivesConcat
<1>3. /\ Takes(k, q1 \o q2) <=> Takes(k, q1) \/ Takes(k, q2)
      /\ Gives(k, q1 \o q2) <=> Gives(k, q2) \/ (Gives(k, q1) /\ ~Takes(k, q2))
  BY TakesGivesConcat
<1> QED  BY <1>2, <1>3, Zenon DEF Shown, ShownBy

\* The inductive invariant: besides the rows, a connection not yet used has an
\* empty list, so that connecting does not bring in hooks without rows.
ShownHook(c) == \A i \in DOMAIN hub[c] :
  LET k == KeyOf(hub[c][i]) IN ShownBy(k, rows[k], guiQueue, frames[c], reply[c])
FreshOK == \A c \in Conns : thread[c] = "unused" => hub[c] = <<>>
RowsOK == FreshOK /\ \A c \in Conns : c = conn => ShownHook(c)

LEMMA QueueTypes ==
  ASSUME TypeOK, NEW c \in Conns
  PROVE  guiQueue \in Seq(Frame) /\ frames[c] \in Seq(Frame) /\ reply[c] \in Seq(Frame)
<1>1. Command \subseteq Frame
  BY DEF Command, Frame
<1> QED  BY <1>1, SeqMonotonic DEF TypeOK

LEMMA RowsInit == Init => RowsOK
<1> SUFFICES ASSUME Init PROVE RowsOK
  OBVIOUS
<1>1. \A c \in Conns : c # conn
  BY ConnsAssumption DEF Init, ConnsAssumption
<1>2. \A c \in Conns : hub[c] = <<>>
  BY DEF Init
<1> QED  BY <1>1, <1>2 DEF RowsOK, FreshOK

\* A granted addition: the new hook's ADD is the confirmation about to be sent.
LEMMA AddShown ==
  ASSUME TypeOK, HubOK, NEW c \in Conns, ShownHook(c), ProcessAdd(c)
  PROVE  ShownHook(c)'
<1>1. PICK k \in Key : /\ TakeCommand(c, [tag |-> "ADD", key |-> k])
                       /\ \E list \in AddHook(hub[c], Requested(k)) :
                            Granted(c, [tag |-> "ADD", key |-> k], list)
  BY DEF ProcessAdd
<1>2. /\ hub'[c] = Append(hub[c], Requested(k))
      /\ reply'[c] = <<[tag |-> "ADD", key |-> k]>>
      /\ reply[c] = <<>>
      /\ UNCHANGED <<rows, guiQueue, frames>>
  BY <1>1 DEF AddHook, Granted, TakeCommand, Reading, TypeOK
<1>3. Requested(k) \in Hook /\ KeyOf(Requested(k)) = k
  BY RequestedIsAHook
<1>4. /\ hub[c] \in Seq(Hook) /\ DOMAIN hub[c] = 1..Len(hub[c]) /\ Len(hub[c]) \in Nat
      /\ hub'[c] \in Seq(Hook) /\ Len(hub'[c]) = Len(hub[c]) + 1
      /\ DOMAIN hub'[c] = 1..Len(hub'[c])
      /\ \A i \in 1..Len(hub[c]) : hub'[c][i] = hub[c][i]
      /\ hub'[c][Len(hub[c]) + 1] = Requested(k)
  <2>1. hub[c] \in Seq(Hook)
    BY DEF TypeOK
  <2> QED  BY <1>2, <1>3, <2>1, AppendProperties, LenProperties
<1>5. ASSUME NEW i \in DOMAIN hub'[c]
      PROVE  ShownBy(KeyOf(hub'[c][i]), rows'[KeyOf(hub'[c][i])], guiQueue', frames'[c], reply'[c])
  <2>1. CASE i \in DOMAIN hub[c]
    <3>1. ShownBy(KeyOf(hub[c][i]), rows[KeyOf(hub[c][i])], guiQueue, frames[c], reply[c])
      BY <2>1 DEF ShownHook
    <3>2. hub'[c][i] = hub[c][i]
      BY <1>4, <2>1
    <3>3. ~Takes(KeyOf(hub[c][i]), reply[c]) /\ ~Gives(KeyOf(hub[c][i]), reply[c])
      BY <1>2, TakesGivesOne
    <3>4. ~Takes(KeyOf(hub[c][i]), reply'[c])
      BY <1>2, TakesGivesOne
    <3> QED  BY <1>2, <3>1, <3>2, <3>3, <3>4 DEF ShownBy
  <2>2. CASE i = Len(hub[c]) + 1
    <3>1. KeyOf(hub'[c][i]) = k
      BY <1>3, <1>4, <2>2
    <3>2. Gives(k, reply'[c])
      BY <1>2, TakesGivesOne
    <3> QED  BY <3>1, <3>2 DEF ShownBy
  <2> QED  BY <1>4, <2>1, <2>2
<1> QED  BY <1>5 DEF ShownHook

\* A granted removal: no listener that stays has the key the reply takes away.
LEMMA RemoveShown ==
  ASSUME TypeOK, HubOK, NEW c \in Conns, ShownHook(c), ProcessRemove(c)
  PROVE  ShownHook(c)'
<1>1. PICK k \in Key : /\ TakeCommand(c, [tag |-> "REMOVE", key |-> k])
                       /\ \E list \in RemoveHook(hub[c], k) :
                            Granted(c, [tag |-> "REMOVE", key |-> k], list)
  BY DEF ProcessRemove
<1>2. PICK r \in FirstCovering(hub[c], k) : hub'[c] = RemoveAt(hub[c], r)
  BY <1>1 DEF Granted, RemoveHook, TypeOK
<1>3. /\ reply'[c] = <<[tag |-> "REMOVE", key |-> k]>>
      /\ reply[c] = <<>>
      /\ UNCHANGED <<rows, guiQueue, frames>>
  BY <1>1 DEF Granted, TakeCommand, Reading, TypeOK
<1>4. /\ hub[c] \in Seq(Hook) /\ DOMAIN hub[c] = 1..Len(hub[c]) /\ Len(hub[c]) \in Nat
      /\ Unshadowed(hub[c]) /\ r \in DOMAIN hub[c]
  BY LenProperties DEF TypeOK, HubOK, NoShadowedHook, Unshadowed, FirstCovering
<1>5. /\ DOMAIN hub'[c] = 1..(Len(hub[c]) - 1)
      /\ \A i \in 1..(Len(hub[c]) - 1) :
           hub'[c][i] = IF i < r THEN hub[c][i] ELSE hub[c][i + 1]
  BY <1>2, <1>4, RemoveAtProperties, LenProperties
<1>6. ASSUME NEW i \in DOMAIN hub'[c]
      PROVE  ShownBy(KeyOf(hub'[c][i]), rows'[KeyOf(hub'[c][i])], guiQueue', frames'[c], reply'[c])
  <2>1. PICK a \in DOMAIN hub[c] : hub'[c][i] = hub[c][a] /\ a # r
    <3>1. CASE i < r
      BY <1>4, <1>5, <3>1
    <3>2. CASE ~(i < r)
      <4>1. i + 1 \in DOMAIN hub[c] /\ i + 1 # r /\ hub'[c][i] = hub[c][i + 1]
        BY <1>4, <1>5, <3>2
      <4> QED  BY <4>1
    <3> QED  BY <3>1, <3>2
  <2>2. KeyOf(hub[c][a]) # k
    BY <1>4, <2>1, FirstCoveringIsTheKey
  <2>3. ShownBy(KeyOf(hub[c][a]), rows[KeyOf(hub[c][a])], guiQueue, frames[c], reply[c])
    BY <2>1 DEF ShownHook
  <2>4. ~Takes(KeyOf(hub[c][a]), reply[c]) /\ ~Gives(KeyOf(hub[c][a]), reply[c])
    BY <1>3, TakesGivesOne
  <2>5. ~Takes(KeyOf(hub[c][a]), reply'[c])
    BY <1>3, <2>2, TakesGivesOne
  <2> QED  BY <1>3, <2>1, <2>3, <2>4, <2>5 DEF ShownBy
<1> QED  BY <1>6 DEF ShownHook

\* The confirmation moves from the server thread to the end of the stream.
LEMMA SendShown ==
  ASSUME TypeOK, NEW c \in Conns, c = conn, ShownHook(c), SendConfirmation(c)
  PROVE  ShownHook(c)'
<1>1. /\ frames'[c] = frames[c] \o reply[c] /\ reply'[c] = <<>>
      /\ UNCHANGED <<rows, guiQueue, hub>>
  BY DEF SendConfirmation, Deliverable, TypeOK
<1>2. ASSUME NEW k, ShownBy(k, rows[k], guiQueue, frames[c], reply[c])
      PROVE  ShownBy(k, rows'[k], guiQueue', frames'[c], reply'[c])
  <2>1. /\ Takes(k, frames'[c]) <=> Takes(k, frames[c]) \/ Takes(k, reply[c])
        /\ Gives(k, frames'[c]) <=>
             Gives(k, reply[c]) \/ (Gives(k, frames[c]) /\ ~Takes(k, reply[c]))
    BY <1>1, QueueTypes, TakesGivesConcat
  <2>2. ~Takes(k, reply'[c]) /\ ~Gives(k, reply'[c])
    BY <1>1, TakesGivesOne
  <2> QED  BY <1>1, <1>2, <2>1, <2>2 DEF ShownBy
<1> QED  BY <1>1, <1>2 DEF ShownHook

\* The reader moves a confirmation on to the GUI's queue and drops the data: what
\* came before some point of the stream says the same after the step.
LEMMA ReadKeeps ==
  ASSUME TypeOK, ReadFrame, NEW rest \in Seq(Frame), NEW q, NEW k,
         ShownBy(k, rows[k], guiQueue, <<Head(frames[conn])>> \o rest, q)
  PROVE  ShownBy(k, rows'[k], guiQueue', rest, q)
<1> DEFINE f == Head(frames[conn])
<1>0. conn \in Conns
  BY DEF ReadFrame, TypeOK
<1>1. f \in Frame /\ <<f>> \in Seq(Frame)
  BY <1>0, QueueTypes, HeadBeforeTail DEF ReadFrame
<1>2. guiQueue' = (IF f.tag = "data" THEN guiQueue ELSE Append(guiQueue, f)) /\ UNCHANGED rows
  BY DEF ReadFrame
<1>3. ShownBy(k, rows[k], guiQueue, <<f>> \o rest, q)
  OBVIOUS
<1> HIDE DEF f
<1>4. /\ Takes(k, <<f>> \o rest) <=> Takes(k, <<f>>) \/ Takes(k, rest)
      /\ Gives(k, <<f>> \o rest) <=> Gives(k, rest) \/ (Gives(k, <<f>>) /\ ~Takes(k, rest))
  BY <1>1, TakesGivesConcat
<1>5. CASE f.tag = "data"
  <2>1. ~Takes(k, <<f>>) /\ ~Gives(k, <<f>>)
    BY <1>5, TakesGivesOne
  <2> QED  BY <1>2, <1>3, <1>4, <1>5, <2>1 DEF ShownBy
<1>6. CASE f.tag # "data"
  <2>1. guiQueue \in Seq(Frame)
    BY <1>0, QueueTypes
  <2>2. guiQueue' = guiQueue \o <<f>>
    BY <1>1, <1>2, <1>6, <2>1, AppendIsConcat
  <2>3. /\ Takes(k, guiQueue') <=> Takes(k, guiQueue) \/ Takes(k, <<f>>)
        /\ Gives(k, guiQueue') <=> Gives(k, <<f>>) \/ (Gives(k, guiQueue) /\ ~Takes(k, <<f>>))
    BY <1>1, <2>1, <2>2, TakesGivesConcat
  <2>4. ~(Takes(k, <<f>>) /\ Gives(k, <<f>>))
    BY TakesGivesOne
  <2> QED  BY <1>2, <1>3, <1>4, <2>3, <2>4 DEF ShownBy
<1> QED  BY <1>5, <1>6

LEMMA ReadShown ==
  ASSUME TypeOK, NEW c \in Conns, c = conn, ShownHook(c), ReadFrame
  PROVE  ShownHook(c)'
<1>1. /\ Tail(frames[c]) \in Seq(Frame)
      /\ frames[c] = <<Head(frames[c])>> \o Tail(frames[c])
  BY QueueTypes, HeadBeforeTail DEF ReadFrame
<1>2. frames'[c] = Tail(frames[c]) /\ UNCHANGED <<rows, reply, hub>>
  BY DEF ReadFrame, TypeOK
<1>3. ASSUME NEW k, ShownBy(k, rows[k], guiQueue, frames[c], reply[c])
      PROVE  ShownBy(k, rows'[k], guiQueue', frames'[c], reply'[c])
  <2>1. ShownBy(k, rows[k], guiQueue, <<Head(frames[conn])>> \o Tail(frames[c]), reply[c])
    BY <1>1, <1>3
  <2> QED  BY <1>1, <1>2, <2>1, ReadKeeps
<1> QED  BY <1>2, <1>3 DEF ShownHook

\* The GUI turns the confirmation at the head of its queue into the rows.
LEMMA DisplayKeeps ==
  ASSUME TypeOK, ConfirmationReceived, NEW k \in Key, NEW q2, NEW q3,
         ShownBy(k, rows[k], guiQueue, q2, q3)
  PROVE  ShownBy(k, rows'[k], guiQueue', q2, q3)
<1> DEFINE m == Head(guiQueue)
           rest == Tail(guiQueue)
<1>1. /\ m \in Command /\ rest \in Seq(Command) /\ <<m>> \in Seq(Command)
      /\ guiQueue = <<m>> \o rest
  BY HeadBeforeTail DEF ConfirmationReceived, TypeOK
<1>2. /\ guiQueue' = rest
      /\ rows' = [rows EXCEPT ![m.key] =
                     IF m.tag = "ADD" THEN @ + 1 ELSE IF @ > 0 THEN @ - 1 ELSE 0]
  BY DEF ConfirmationReceived
<1> HIDE DEF m, rest
<1>3. /\ m.tag \in {"ADD", "REMOVE"} /\ m.key \in Key
      /\ m = [tag |-> m.tag, key |-> m.key]
  BY <1>1 DEF Command
<1>4. /\ Takes(k, guiQueue) <=> Takes(k, <<m>>) \/ Takes(k, guiQueue')
      /\ Gives(k, guiQueue) <=>
           Gives(k, guiQueue') \/ (Gives(k, <<m>>) /\ ~Takes(k, guiQueue'))
  <2>1. /\ Takes(k, <<m>> \o rest) <=> Takes(k, <<m>>) \/ Takes(k, rest)
        /\ Gives(k, <<m>> \o rest) <=> Gives(k, rest) \/ (Gives(k, <<m>>) /\ ~Takes(k, rest))
    BY <1>1, TakesGivesConcat
  <2> QED  BY <1>1, <1>2, <2>1
<1>5. Gives(k, <<m>>) => rows'[k] > 0
  <2> SUFFICES ASSUME Gives(k, <<m>>) PROVE rows'[k] > 0
    OBVIOUS
  <2>1. m = [tag |-> "ADD", key |-> k]
    BY TakesGivesOne
  <2>2. rows'[k] = rows[k] + 1 /\ rows[k] \in Nat
    BY <1>2, <2>1 DEF TypeOK
  <2> QED  BY <2>2
<1>6. ~Takes(k, <<m>>) /\ rows[k] > 0 => rows'[k] > 0
  <2> SUFFICES ASSUME ~Takes(k, <<m>>), rows[k] > 0 PROVE rows'[k] > 0
    OBVIOUS
  <2>1. m.tag = "ADD" \/ m.key # k
    BY <1>3, TakesGivesOne
  <2>2. CASE m.key # k
    BY <1>2, <1>3, <2>2 DEF TypeOK
  <2>3. CASE m.tag = "ADD" /\ m.key = k
    BY <1>2, <2>3 DEF TypeOK
  <2> QED  BY <2>1, <2>2, <2>3
<1> QED  BY <1>4, <1>5, <1>6 DEF ShownBy

LEMMA DisplayShown ==
  ASSUME TypeOK, NEW c \in Conns, HubOK, ShownHook(c), ConfirmationReceived
  PROVE  ShownHook(c)'
<1>1. \A i \in DOMAIN hub[c] : KeyOf(hub[c][i]) \in Key
  <2>1. hub[c] \in Seq(Hook)
    BY DEF HubOK
  <2>2. \A i \in DOMAIN hub[c] : hub[c][i] \in Hook
    BY <2>1, ElementOfSeq, LenProperties
  <2> QED  BY <2>2 DEF Hook
<1>2. UNCHANGED <<frames, reply, hub>>
  BY DEF ConfirmationReceived
<1> QED  BY <1>1, <1>2, DisplayKeeps DEF ShownHook

\* A data frame at the end of the stream neither gives nor takes a key.
LEMMA DataShown ==
  ASSUME TypeOK, TypeOK', NEW c \in Conns, ShownHook(c), NEW e \in Event, SendData(e)
  PROVE  ShownHook(c)'
<1>1. UNCHANGED <<rows, guiQueue, reply, hub>>
  BY DEF SendData
<1>2. CASE frames'[c] = frames[c]
  BY <1>1, <1>2 DEF ShownHook
<1>3. CASE frames'[c] # frames[c]
  <2>1. PICK key : frames'[c] = Append(frames[c], [tag |-> "data", key |-> key])
    BY <1>3 DEF SendData
  <2> DEFINE d == [tag |-> "data", key |-> key]
  <2>2. frames'[c] = frames[c] \o <<d>>
    <3>1. frames[c] \in Seq(Frame \cup {d})
      BY QueueTypes, SeqMonotonic
    <3> QED  BY <2>1, <3>1, AppendIsConcat
  <2>3. ASSUME NEW k
        PROVE  /\ Takes(k, frames'[c]) <=> Takes(k, frames[c])
               /\ Gives(k, frames'[c]) <=> Gives(k, frames[c])
    <3>1. frames[c] \in Seq(Frame \cup {d}) /\ <<d>> \in Seq(Frame \cup {d})
      BY QueueTypes, SeqMonotonic
    <3>2. ~Takes(k, <<d>>) /\ ~Gives(k, <<d>>)
      BY TakesGivesOne
    <3>3. /\ Takes(k, frames[c] \o <<d>>) <=> Takes(k, frames[c]) \/ Takes(k, <<d>>)
          /\ Gives(k, frames[c] \o <<d>>) <=>
               Gives(k, <<d>>) \/ (Gives(k, frames[c]) /\ ~Takes(k, <<d>>))
      BY <3>1, TakesGivesConcat
    <3> HIDE DEF d
    <3> QED  BY <2>2, <3>2, <3>3
  <2> QED  BY <1>1, <2>3 DEF ShownHook, ShownBy
<1> QED  BY <1>2, <1>3

-----------------------------------------------------------------------------
LEMMA RowsStep == RowsOK /\ TypeOK /\ TypeOK' /\ HubOK /\ [Next]_vars => RowsOK'
<1> SUFFICES ASSUME RowsOK, TypeOK, TypeOK', HubOK, [Next]_vars PROVE RowsOK'
  OBVIOUS
<1>1. FreshOK'
  <2>1. ASSUME NEW c \in Conns, thread'[c] = "unused" PROVE hub'[c] = <<>>
    <3>1. thread[c] = "unused" /\ hub[c] = <<>>
      BY <2>1 DEF RowsOK, FreshOK, TypeOK, Next, vars, Connect, EndSession, ClickAdd,
         ClickRemove, Click, ConfirmationReceived, ReadFrame, ProcessHookRequest,
         ProcessAdd, ProcessRemove, ProcessRefused, TakeCommand, ClientGone,
         SendConfirmation, SendData, PipelineChanges
    <3>2. ASSUME NEW d \in Conns, Reading(d) PROVE d # c
      BY <3>1, <3>2 DEF Reading
    <3> QED
      BY <3>1, <3>2, ZenonT(40) DEF TypeOK, Next, vars, Connect, EndSession, ClickAdd,
         ClickRemove, Click, ConfirmationReceived, ReadFrame, ProcessHookRequest,
         ProcessAdd, ProcessRemove, ProcessRefused, TakeCommand, Granted, ClientGone,
         SendConfirmation, SendData, PipelineChanges
  <2> QED  BY <2>1 DEF FreshOK
<1>2. ASSUME NEW c \in Conns, c = conn' PROVE ShownHook(c)'
  <2>1. CASE Connect
    <3>1. hub'[c] = <<>>
      BY <1>2, <2>1 DEF Connect, RowsOK, FreshOK
    <3> QED  BY <3>1 DEF ShownHook
  <2>2. CASE EndSession
    BY <1>2, <2>2, ConnsAssumption DEF EndSession, ConnsAssumption
  <2> SUFFICES ASSUME ~Connect, ~EndSession PROVE ShownHook(c)'
    BY <2>1, <2>2
  <2>3. c = conn /\ ShownHook(c)
    BY <1>2 DEF RowsOK, Next, vars, ClickAdd, ClickRemove, Click,
       ConfirmationReceived, ReadFrame, ProcessHookRequest, ProcessAdd,
       ProcessRemove, ProcessRefused, TakeCommand, ClientGone, SendConfirmation,
       SendData, PipelineChanges
  <2>4. ASSUME UNCHANGED <<rows, guiQueue, frames[c], reply[c], hub[c]>>
        PROVE  ShownHook(c)'
    BY <2>3, <2>4 DEF ShownHook
  <2>5. CASE ClickAdd \/ ClickRemove
    BY <2>4, <2>5 DEF ClickAdd, ClickRemove, Click
  <2>6. CASE ConfirmationReceived
    BY <2>3, <2>6, DisplayShown
  <2>7. CASE ReadFrame
    BY <2>3, <2>7, ReadShown
  <2>8. ASSUME NEW d \in Conns, ProcessHookRequest(d) PROVE ShownHook(c)'
    <3>1. CASE d = c /\ ProcessAdd(c)
      BY <2>3, <3>1, AddShown
    <3>2. CASE d = c /\ ProcessRemove(c)
      BY <2>3, <3>2, RemoveShown
    <3>3. CASE d # c \/ ProcessRefused(d)
      BY <2>4, <2>8, <3>3 DEF ProcessHookRequest, ProcessAdd, ProcessRemove,
         ProcessRefused, TakeCommand, Granted, TypeOK
    <3> QED  BY <2>8, <3>1, <3>2, <3>3 DEF ProcessHookRequest
  <2>9. ASSUME NEW d \in Conns, SendConfirmation(d) PROVE ShownHook(c)'
    <3>1. CASE d = c
      BY <2>3, <2>9, <3>1, SendShown
    <3>2. CASE d # c
      BY <2>4, <2>9, <3>2 DEF SendConfirmation, TypeOK
    <3> QED  BY <3>1, <3>2
  <2>10. ASSUME NEW d \in Conns, ClientGone(d) PROVE ShownHook(c)'
    BY <2>3, <2>4, <2>10 DEF ClientGone, TypeOK
  <2>11. ASSUME NEW e \in Event, SendData(e) PROVE ShownHook(c)'
    BY <2>3, <2>11, DataShown
  <2>12. CASE PipelineChanges
    BY <2>4, <2>12 DEF PipelineChanges
  <2>13. CASE UNCHANGED vars
    BY <2>4, <2>13 DEF vars
  <2> QED
    BY <2>5, <2>6, <2>7, <2>8, <2>9, <2>10, <2>11, <2>12, <2>13 DEF Next
<1> QED  BY <1>1, <1>2 DEF RowsOK

\* Every hook the server holds for the debugger has a row or is about to get
\* one: for every kind of hub, with duplicated commands, double clicks,
\* reconnections and a pipeline that changes meanwhile.
THEOREM HooksAreVisible == Spec => []EveryHookHasARow
<1>1. Init => RowsOK
  BY RowsInit
<1>2. RowsOK /\ TypeOK /\ TypeOK' /\ HubOK /\ [Next]_vars => RowsOK'
  BY RowsStep
<1>3. RowsOK /\ TypeOK => EveryHookHasARow
  <2> SUFFICES ASSUME RowsOK, TypeOK, NEW c \in Conns, c = conn, NEW i \in DOMAIN hub[c]
               PROVE  Shown(KeyOf(hub[c][i]), Pending(c))
    BY DEF EveryHookHasARow
  <2>1. ShownBy(KeyOf(hub[c][i]), rows[KeyOf(hub[c][i])], guiQueue, frames[c], reply[c])
    BY DEF RowsOK, ShownHook
  <2> QED  BY <2>1, QueueTypes, ShownByParts DEF Pending
<1> QED  BY <1>1, <1>2, <1>3, TypeCorrect, HubCorrect, PTL DEF Spec
-----------------------------------------------------------------------------
\* Why a data frame is on its way: by the time the GUI sees it, the key has a
\* row, or the confirmation of its hook is right behind.
Before(c, i) == SubSeq(frames[c], 1, i - 1)

ExplainedFrame(c, i) == LET k == frames[c][i].key IN
  \/ ShownBy(k, rows[k], guiQueue, Before(c, i), <<>>)
  \/ \E j \in DOMAIN frames[c] : j > i /\ frames[c][j] = [tag |-> "ADD", key |-> k]
  \/ reply[c] = <<[tag |-> "ADD", key |-> k]>>

ExplainedData(c) == \A i \in DOMAIN frames[c] : frames[c][i].tag = "data" => ExplainedFrame(c, i)

\* A connection not yet used has nothing under way, and a server thread has at
\* most one confirmation to send.
DataOK ==
  /\ \A c \in Conns : thread[c] = "unused" => c # conn /\ frames[c] = <<>>
  /\ \A c \in Conns : reply[c] = <<>> \/ \E cmd \in Command : reply[c] = <<cmd>>
  /\ \A c \in Conns : c = conn => ExplainedData(c)

LEMMA FramesAreList ==
  ASSUME TypeOK, NEW c \in Conns
  PROVE  /\ frames[c] \in Seq(Frame) /\ Len(frames[c]) \in Nat /\ DOMAIN frames[c] = 1..Len(frames[c])
         /\ \A i \in DOMAIN frames[c] : frames[c][i] \in Frame /\ Before(c, i) \in Seq(Frame)
<1>1. frames[c] \in Seq(Frame) /\ Len(frames[c]) \in Nat /\ DOMAIN frames[c] = 1..Len(frames[c])
  BY QueueTypes, LenProperties
<1>2. ASSUME NEW i \in DOMAIN frames[c] PROVE frames[c][i] \in Frame /\ Before(c, i) \in Seq(Frame)
  <2>1. i \in 1..Len(frames[c]) /\ i - 1 \in 0..Len(frames[c])
    BY <1>1
  <2> QED  BY <1>1, <2>1, ElementOfSeq, PrefixIsList DEF Before
<1> QED  BY <1>1, <1>2

\* The stream grows at its end, with the confirmation or with data.
LEMMA ExplainedStays ==
  ASSUME TypeOK, NEW c \in Conns, NEW S, frames[c] \in Seq(S), NEW q \in Seq(S),
         frames'[c] = frames[c] \o q, UNCHANGED <<rows, guiQueue>>,
         reply'[c] = reply[c] \/ q = reply[c], NEW i \in DOMAIN frames[c], ExplainedFrame(c, i)
  PROVE  ExplainedFrame(c, i)' /\ frames'[c][i] = frames[c][i]
<1> DEFINE s == frames[c]
           k == s[i].key
<1>1. /\ Len(s) \in Nat /\ Len(q) \in Nat /\ DOMAIN s = 1..Len(s) /\ DOMAIN q = 1..Len(q)
      /\ DOMAIN (s \o q) = 1..(Len(s) + Len(q))
      /\ \A j \in 1..(Len(s) + Len(q)) : (s \o q)[j] = IF j <= Len(s) THEN s[j] ELSE q[j - Len(s)]
  BY ConcatProperties, LenProperties
<1>2. DOMAIN s \subseteq DOMAIN (s \o q) /\ \A j \in DOMAIN s : (s \o q)[j] = s[j]
  BY <1>1
<1>3. Before(c, i)' = Before(c, i)
  <2>1. i - 1 \in 0..Len(s)
    BY <1>1
  <2> QED  BY <2>1, PrefixOfLonger DEF Before
<1>4. s[i].key = k /\ frames'[c] = s \o q /\ frames'[c][i] = s[i]
  BY <1>2
<1>5. CASE ShownBy(k, rows[k], guiQueue, Before(c, i), <<>>)
  BY <1>3, <1>4, <1>5 DEF ExplainedFrame, ShownBy
<1>6. CASE \E j \in DOMAIN s : j > i /\ s[j] = [tag |-> "ADD", key |-> k]
  BY <1>2, <1>4, <1>6 DEF ExplainedFrame
<1>7. CASE reply[c] = <<[tag |-> "ADD", key |-> k]>>
  <2>1. CASE reply'[c] = reply[c]
    BY <1>4, <1>7, <2>1 DEF ExplainedFrame
  <2>2. CASE q = reply[c]
    <3>1. q[1] = [tag |-> "ADD", key |-> k] /\ Len(q) = 1
      BY <1>7, <2>2
    <3>2. Len(s) + 1 \in DOMAIN (s \o q) /\ Len(s) + 1 > i /\ (s \o q)[Len(s) + 1] = q[1]
      BY <1>1, <3>1
    <3> QED  BY <1>4, <3>1, <3>2 DEF ExplainedFrame
  <2> QED  BY <2>1, <2>2
<1> QED  BY <1>4, <1>5, <1>6, <1>7 DEF ExplainedFrame

LEMMA SendExplains ==
  ASSUME TypeOK, NEW c \in Conns, c = conn, DataOK, SendConfirmation(c)
  PROVE  ExplainedData(c)'
<1> DEFINE s == frames[c]
           q == reply[c]
<1>1. frames'[c] = s \o q /\ UNCHANGED <<rows, guiQueue>>
  BY DEF SendConfirmation, Deliverable, TypeOK
<1>2. s \in Seq(Frame) /\ q \in Seq(Frame) /\ q # <<>>
  BY QueueTypes DEF SendConfirmation
<1>3. PICK cmd \in Command : q = <<cmd>>
  BY <1>2 DEF DataOK
<1>4. /\ Len(s) \in Nat /\ DOMAIN s = 1..Len(s) /\ DOMAIN (s \o q) = 1..(Len(s) + 1)
      /\ (s \o q)[Len(s) + 1] = cmd /\ \A i \in DOMAIN s : (s \o q)[i] = s[i]
  BY <1>2, <1>3, ConcatProperties, LenProperties
<1>5. ASSUME NEW i \in DOMAIN frames'[c], frames'[c][i].tag = "data" PROVE ExplainedFrame(c, i)'
  <2>1. i # Len(s) + 1
    BY <1>1, <1>4, <1>5 DEF Command
  <2>2. i \in DOMAIN s
    BY <1>1, <1>4, <2>1
  <2>3. frames'[c][i] = s[i]
    BY <1>1, <1>4, <2>2
  <2>4. ExplainedFrame(c, i)
    BY <1>5, <2>2, <2>3 DEF DataOK, ExplainedData
  <2> QED  BY <1>1, <1>2, <2>2, <2>4, ExplainedStays
<1> QED  BY <1>5 DEF ExplainedData

\* The data of a listener: its hook is shown already, or its ADD is what the
\* server thread is about to send.
LEMMA DataExplained ==
  ASSUME TypeOK, NEW c \in Conns, c = conn, DataOK, ShownHook(c), NEW e \in Event, SendData(e)
  PROVE  ExplainedData(c)'
<1> DEFINE s == frames[c]
<1>1. UNCHANGED <<rows, guiQueue, reply>>
  BY DEF SendData
<1>2. CASE frames'[c] = s
  BY <1>1, <1>2 DEF DataOK, ExplainedData, ExplainedFrame, Before
<1>3. CASE frames'[c] # s
  <2> DEFINE m == CHOOSE i \in FirstPassing(hub[c], e) : TRUE
             k == KeyOf(hub[c][m])
             d == [tag |-> "data", key |-> k]
  <2>1. frames'[c] = Append(s, d) /\ m \in DOMAIN hub[c]
    BY <1>3 DEF SendData, Listening, FirstPassing
  <2>2. ShownBy(k, rows[k], guiQueue, s, reply[c])
    BY <2>1 DEF ShownHook
  <2> HIDE DEF m, k
  <2>3. s \in Seq(Frame \cup {d}) /\ <<d>> \in Seq(Frame \cup {d})
    BY QueueTypes, SeqMonotonic
  <2>4. frames'[c] = s \o <<d>>
    BY <2>1, <2>3, AppendIsConcat
  <2>5. /\ Len(s) \in Nat /\ DOMAIN s = 1..Len(s) /\ DOMAIN (s \o <<d>>) = 1..(Len(s) + 1)
        /\ (s \o <<d>>)[Len(s) + 1] = d
        /\ \A i \in 1..Len(s) : (s \o <<d>>)[i] = s[i]
    BY <2>3, ConcatProperties, LenProperties
  <2>6. ASSUME NEW i \in DOMAIN frames'[c], frames'[c][i].tag = "data" PROVE ExplainedFrame(c, i)'
    <3>1. CASE i \in DOMAIN s
      <4>1. ExplainedFrame(c, i)
        BY <2>4, <2>5, <2>6, <3>1 DEF DataOK, ExplainedData
      <4> QED  BY <1>1, <2>3, <2>4, <3>1, <4>1, ExplainedStays
    <3>2. CASE i = Len(s) + 1
      <4>1. frames'[c][i] = d /\ frames'[c][i].key = k
        BY <2>4, <2>5, <3>2
      <4>2. Before(c, i)' = s
        <5>1. i - 1 = Len(s) /\ Len(s) \in 0..Len(s)
          BY <2>5, <3>2
        <5>2. SubSeq(s \o <<d>>, 1, Len(s)) = SubSeq(s, 1, Len(s)) /\ SubSeq(s, 1, Len(s)) = s
          BY <2>3, <5>1, PrefixOfLonger, SubSeqFull
        <5> QED  BY <2>4, <5>1, <5>2 DEF Before
      <4>3. CASE Gives(k, reply[c])
        <5>1. reply[c] # <<>>
          BY <4>3 DEF Gives
        <5>2. PICK cmd \in Command : reply[c] = <<cmd>>
          BY <5>1 DEF DataOK
        <5>3. cmd = [tag |-> "ADD", key |-> k]
          BY <4>3, <5>2, TakesGivesOne
        <5> QED  BY <1>1, <4>1, <5>2, <5>3 DEF ExplainedFrame
      <4>4. CASE ~Gives(k, reply[c])
        <5>1. ShownBy(k, rows[k], guiQueue, s, <<>>)
          BY <2>2, <4>4, TakesGivesOne DEF ShownBy
        <5> QED  BY <1>1, <4>1, <4>2, <5>1 DEF ExplainedFrame
      <4> QED  BY <4>3, <4>4
    <3> QED  BY <2>4, <2>5, <3>1, <3>2
  <2> QED  BY <2>6 DEF ExplainedData
<1> QED  BY <1>2, <1>3

LEMMA ReadExplains ==
  ASSUME TypeOK, NEW c \in Conns, c = conn, DataOK, ReadFrame
  PROVE  ExplainedData(c)'
<1> DEFINE s == frames[c]
           r == Tail(frames[c])
<1>1. s \in Seq(Frame) /\ s # <<>> /\ frames'[c] = r /\ UNCHANGED <<rows, reply>>
  BY QueueTypes DEF ReadFrame, TypeOK
<1>2. /\ Len(s) \in Nat /\ DOMAIN s = 1..Len(s) /\ r \in Seq(Frame) /\ DOMAIN r = 1..(Len(s) - 1)
      /\ Len(r) = Len(s) - 1
      /\ \A i \in 1..(Len(s) - 1) : r[i] = s[i + 1]
  BY <1>1, HeadTailProperties, LenProperties
<1>3. ASSUME NEW i \in DOMAIN r, r[i].tag = "data" PROVE ExplainedFrame(c, i)'
  <2> DEFINE k == r[i].key
  <2>1. i + 1 \in DOMAIN s /\ r[i] = s[i + 1] /\ ExplainedFrame(c, i + 1)
    BY <1>2, <1>3 DEF DataOK, ExplainedData
  <2>2. CASE ShownBy(k, rows[k], guiQueue, Before(c, i + 1), <<>>)
    <3>1. i - 1 \in 0..Len(r) /\ i \in 1..Len(s) /\ (i + 1) - 1 = i
      BY <1>2
    <3>2. SubSeq(s, 1, i) = <<Head(s)>> \o SubSeq(r, 1, i - 1) /\ SubSeq(r, 1, i - 1) \in Seq(Frame)
      BY <1>1, <1>2, <3>1, PrefixLosesHead, PrefixIsList
    <3>3. Before(c, i + 1) = <<Head(frames[conn])>> \o SubSeq(r, 1, i - 1) /\ Before(c, i)' = SubSeq(r, 1, i - 1)
      BY <1>1, <3>1, <3>2 DEF Before
    <3>4. ShownBy(k, rows[k], guiQueue, <<Head(frames[conn])>> \o SubSeq(r, 1, i - 1), <<>>)
      BY <2>2, <3>3
    <3>5. ShownBy(k, rows'[k], guiQueue', Before(c, i)', <<>>)
      BY <3>2, <3>3, <3>4, ReadKeeps
    <3> QED  BY <1>1, <3>5 DEF ExplainedFrame
  <2>3. CASE \E j \in DOMAIN s : j > i + 1 /\ s[j] = [tag |-> "ADD", key |-> k]
    <3>1. PICK j \in DOMAIN s : j > i + 1 /\ s[j] = [tag |-> "ADD", key |-> k]
      BY <2>3
    <3>2. j - 1 \in DOMAIN r /\ j - 1 > i /\ r[j - 1] = s[(j - 1) + 1] /\ (j - 1) + 1 = j
      BY <1>2, <3>1
    <3> QED  BY <1>1, <3>1, <3>2 DEF ExplainedFrame
  <2>4. CASE reply[c] = <<[tag |-> "ADD", key |-> k]>>
    BY <1>1, <2>4 DEF ExplainedFrame
  <2> QED  BY <2>1, <2>2, <2>3, <2>4 DEF ExplainedFrame
<1> QED  BY <1>1, <1>3 DEF ExplainedData

LEMMA DisplayExplains ==
  ASSUME TypeOK, NEW c \in Conns, c = conn, DataOK, ConfirmationReceived
  PROVE  ExplainedData(c)'
<1>1. UNCHANGED <<frames, reply>>
  BY DEF ConfirmationReceived
<1>2. ASSUME NEW i \in DOMAIN frames[c], ExplainedFrame(c, i) PROVE ExplainedFrame(c, i)'
  <2> DEFINE k == frames[c][i].key
  <2>1. k \in Key
    BY FramesAreList DEF Frame
  <2>2. Before(c, i)' = Before(c, i)
    BY <1>1 DEF Before
  <2>3. CASE ShownBy(k, rows[k], guiQueue, Before(c, i), <<>>)
    <3>1. ShownBy(k, rows'[k], guiQueue', Before(c, i), <<>>)
      BY <2>1, <2>3, DisplayKeeps
    <3> QED  BY <1>1, <2>2, <3>1 DEF ExplainedFrame
  <2> QED  BY <1>1, <1>2, <2>3 DEF ExplainedFrame
<1> QED  BY <1>1, <1>2 DEF DataOK, ExplainedData

LEMMA DataInit == Init => DataOK
BY ConnsAssumption DEF Init, DataOK, ConnsAssumption, ExplainedData

LEMMA DataStep ==
  ASSUME TypeOK, TypeOK', HubOK, RowsOK, DataOK, [Next]_vars
  PROVE  DataOK'
<1>1. ASSUME NEW c \in Conns, thread'[c] = "unused" PROVE c # conn' /\ frames'[c] = <<>>
  <2>1. thread[c] = "unused"
    BY <1>1 DEF TypeOK, Next, vars, Connect, EndSession, ClickAdd, ClickRemove, Click,
       ConfirmationReceived, ReadFrame, ProcessHookRequest, ProcessAdd, ProcessRemove,
       ProcessRefused, TakeCommand, ClientGone, SendConfirmation, SendData, PipelineChanges
  <2>2. c # conn /\ frames[c] = <<>>
    BY <2>1 DEF DataOK
  <2>3. c # conn'
    BY <1>1, <2>2, ConnsAssumption DEF ConnsAssumption, TypeOK, Next, vars, Connect, EndSession,
       ClickAdd, ClickRemove, Click, ConfirmationReceived, ReadFrame, ProcessHookRequest,
       ProcessAdd, ProcessRemove, ProcessRefused, TakeCommand, ClientGone, SendConfirmation,
       SendData, PipelineChanges
  <2>4. frames'[c] = <<>>
    <3>1. CASE EndSession \/ ReadFrame
      BY <2>2, <3>1 DEF EndSession, ReadFrame, TypeOK
    <3>2. ASSUME NEW d \in Conns, SendConfirmation(d) PROVE frames'[c] = frames[c]
      BY <2>2, <3>2 DEF SendConfirmation, Deliverable, TypeOK
    <3>3. ASSUME NEW e \in Event, SendData(e) PROVE frames'[c] = frames[c]
      BY <2>2, <3>3 DEF SendData, Deliverable
    <3>4. ASSUME NEW d \in Conns, ProcessHookRequest(d) \/ ClientGone(d) PROVE UNCHANGED frames
      BY <3>4 DEF ProcessHookRequest, ProcessAdd, ProcessRemove, ProcessRefused, TakeCommand, ClientGone
    <3>5. CASE Connect \/ ClickAdd \/ ClickRemove \/ ConfirmationReceived \/ PipelineChanges \/ UNCHANGED vars
      BY <2>2, <3>5 DEF Connect, ClickAdd, ClickRemove, Click, ConfirmationReceived, PipelineChanges, vars
    <3> QED  BY <2>2, <3>1, <3>2, <3>3, <3>4, <3>5 DEF Next
  <2> QED  BY <2>3, <2>4
<1>2. ASSUME NEW c \in Conns PROVE reply'[c] = <<>> \/ \E cmd \in Command : reply'[c] = <<cmd>>
  <2>1. reply[c] = <<>> \/ \E cmd \in Command : reply[c] = <<cmd>>
    BY DEF DataOK
  <2>2. ASSUME NEW d \in Conns, ProcessAdd(d) \/ ProcessRemove(d)
        PROVE  \E cmd \in Command : reply' = [reply EXCEPT ![d] = <<cmd>>]
    BY <2>2 DEF ProcessAdd, ProcessRemove, Granted, Command
  <2>3. \/ UNCHANGED reply
        \/ \E d \in Conns : ProcessAdd(d) \/ ProcessRemove(d) \/ reply' = [reply EXCEPT ![d] = <<>>]
    BY DEF Next, vars, Connect, EndSession, ClickAdd, ClickRemove, Click, ConfirmationReceived,
       ReadFrame, ProcessHookRequest, ProcessRefused, TakeCommand, ClientGone, SendConfirmation,
       SendData, PipelineChanges
  <2> QED  BY <2>1, <2>2, <2>3 DEF TypeOK
<1>3. ASSUME NEW c \in Conns, c = conn' PROVE ExplainedData(c)'
  <2>1. CASE Connect \/ EndSession
    <3>1. frames'[c] = <<>>
      BY <1>3, <2>1, ConnsAssumption DEF ConnsAssumption, Connect, EndSession, DataOK, TypeOK
    <3> QED  BY <3>1 DEF ExplainedData
  <2> SUFFICES ASSUME ~Connect, ~EndSession PROVE ExplainedData(c)'
    BY <2>1
  <2>2. c = conn /\ ShownHook(c) /\ ExplainedData(c)
    BY <1>3 DEF RowsOK, DataOK, Next, vars, ClickAdd, ClickRemove, Click, ConfirmationReceived,
       ReadFrame, ProcessHookRequest, ProcessAdd, ProcessRemove, ProcessRefused, TakeCommand,
       ClientGone, SendConfirmation, SendData, PipelineChanges
  <2>3. ASSUME UNCHANGED <<rows, guiQueue, frames[c]>>, reply'[c] = reply[c] \/ reply[c] = <<>>
        PROVE  ExplainedData(c)'
    BY <2>2, <2>3 DEF ExplainedData, ExplainedFrame, Before
  <2>4. CASE ConfirmationReceived
    BY <2>2, <2>4, DisplayExplains
  <2>5. CASE ReadFrame
    BY <2>2, <2>5, ReadExplains
  <2>6. ASSUME NEW d \in Conns, SendConfirmation(d) PROVE ExplainedData(c)'
    <3>1. CASE d = c
      BY <2>2, <2>6, <3>1, SendExplains
    <3>2. CASE d # c
      BY <2>3, <2>6, <3>2 DEF SendConfirmation, TypeOK
    <3> QED  BY <3>1, <3>2
  <2>7. ASSUME NEW d \in Conns, ProcessHookRequest(d) \/ ClientGone(d) PROVE ExplainedData(c)'
    BY <2>3, <2>7, ZenonT(40) DEF ProcessHookRequest, ProcessAdd, ProcessRemove, ProcessRefused, TakeCommand,
       Reading, Granted, ClientGone, TypeOK
  <2>8. ASSUME NEW e \in Event, SendData(e) PROVE ExplainedData(c)'
    BY <2>2, <2>8, DataExplained
  <2>9. CASE ClickAdd \/ ClickRemove \/ PipelineChanges \/ UNCHANGED vars
    BY <2>3, <2>9 DEF ClickAdd, ClickRemove, Click, PipelineChanges, vars
  <2> QED  BY <2>4, <2>5, <2>6, <2>7, <2>8, <2>9 DEF Next
<1> QED  BY <1>1, <1>2, <1>3 DEF DataOK

\* Data never reaches the debugger on behalf of a hook whose removal was already
\* confirmed, nor long before its addition is.
THEOREM DataHasAHook == Spec => []DataIsExplained
<1>1. RowsOK /\ TypeOK /\ TypeOK' /\ HubOK /\ [Next]_vars => RowsOK'
  BY RowsStep
<1>2. TypeOK /\ TypeOK' /\ HubOK /\ RowsOK /\ DataOK /\ [Next]_vars => DataOK'
  BY DataStep
<1>3. TypeOK /\ DataOK => DataIsExplained
  <2> SUFFICES ASSUME TypeOK, DataOK, NEW c \in Conns, c = conn,
                      NEW i \in DOMAIN frames[c], frames[c][i].tag = "data"
               PROVE  LET k == frames[c][i].key IN
                      \/ Shown(k, guiQueue \o Before(c, i))
                      \/ \E j \in DOMAIN frames[c] : j > i /\ frames[c][j] = [tag |-> "ADD", key |-> k]
                      \/ reply[c] = <<[tag |-> "ADD", key |-> k]>>
    BY DEF DataIsExplained, Before
  <2> DEFINE k == frames[c][i].key
  <2>1. ExplainedFrame(c, i)
    BY DEF DataOK, ExplainedData
  <2>2. guiQueue \in Seq(Frame) /\ Before(c, i) \in Seq(Frame)
    BY QueueTypes, FramesAreList
  <2>3. ShownBy(k, rows[k], guiQueue, Before(c, i), <<>>) => Shown(k, guiQueue \o Before(c, i))
    <3> DEFINE q1 == guiQueue
               q2 == Before(c, i)
    <3>1. /\ Takes(k, q1 \o q2) <=> Takes(k, q1) \/ Takes(k, q2)
          /\ Gives(k, q1 \o q2) <=> Gives(k, q2) \/ (Gives(k, q1) /\ ~Takes(k, q2))
      BY <2>2, TakesGivesConcat
    <3>2. ~Gives(k, <<>>) /\ ~Takes(k, <<>>)
      BY TakesGivesOne
    <3> HIDE DEF k, q1, q2
    <3>3. ShownBy(k, rows[k], q1, q2, <<>>) => Shown(k, q1 \o q2)
      BY <3>1, <3>2, Zenon DEF ShownBy, Shown
    <3> QED  BY <3>3 DEF q1, q2
  <2> QED  BY <2>1, <2>3 DEF ExplainedFrame
<1> QED  BY <1>1, <1>2, <1>3, RowsInit, DataInit, TypeCorrect, HubCorrect, PTL DEF Spec
-----------------------------------------------------------------------------
\* The converse, for hooks that only cover themselves and one session: the
\* confirmations of a key give it and take it in turns.

\* The confirmations in q give k before they take it.
Opens(k, q) == \E i \in DOMAIN q :
  /\ q[i] = [tag |-> "ADD", key |-> k]
  /\ \A j \in DOMAIN q : j < i => q[j] # [tag |-> "REMOVE", key |-> k]

Alternates(k, q) == \A i, j \in DOMAIN q :
  i < j /\ q[i] = [tag |-> "ADD", key |-> k] /\ q[j] = [tag |-> "ADD", key |-> k] =>
    \E m \in DOMAIN q : i < m /\ m < j /\ q[m] = [tag |-> "REMOVE", key |-> k]

\* Nothing that is read off p for k differs in q.
Agree(k, p, q) ==
  /\ Takes(k, p) <=> Takes(k, q)
  /\ Gives(k, p) <=> Gives(k, q)
  /\ Opens(k, p) <=> Opens(k, q)
  /\ Alternates(k, p) <=> Alternates(k, q)

LEMMA OpensConcat ==
  ASSUME NEW S, NEW p \in Seq(S), NEW q \in Seq(S), NEW k
  PROVE  Opens(k, p \o q) <=> Opens(k, p) \/ (~Takes(k, p) /\ Opens(k, q))
<1> DEFINE rem == [tag |-> "REMOVE", key |-> k]
           add == [tag |-> "ADD", key |-> k]
           r == p \o q
<1>1. /\ DOMAIN p = 1..Len(p) /\ Len(p) \in Nat /\ DOMAIN q = 1..Len(q) /\ Len(q) \in Nat
      /\ DOMAIN r = 1..(Len(p) + Len(q))
      /\ \A i \in 1..(Len(p) + Len(q)) : r[i] = IF i <= Len(p) THEN p[i] ELSE q[i - Len(p)]
  BY ConcatProperties, LenProperties
<1> HIDE DEF r
<1>2. /\ \A i \in DOMAIN p : i \in DOMAIN r /\ r[i] = p[i]
      /\ \A i \in DOMAIN q : Len(p) + i \in DOMAIN r /\ r[Len(p) + i] = q[i]
  BY <1>1
<1>3. \A i \in DOMAIN r : i \in DOMAIN p \/ \E j \in DOMAIN q : i = Len(p) + j
  <2> SUFFICES ASSUME NEW i \in DOMAIN r, i \notin DOMAIN p PROVE \E j \in DOMAIN q : i = Len(p) + j
    OBVIOUS
  <2>1. i - Len(p) \in DOMAIN q /\ i = Len(p) + (i - Len(p))
    BY <1>1
  <2> QED  BY <2>1
<1>4. Opens(k, p) => Opens(k, r)
  <2> SUFFICES ASSUME NEW i \in DOMAIN p, p[i] = add, \A j \in DOMAIN p : j < i => p[j] # rem
               PROVE  Opens(k, r)
    BY DEF Opens
  <2>1. \A j \in DOMAIN r : j < i => r[j] # rem
    BY <1>1, <1>2, <1>3
  <2> QED  BY <1>2, <2>1 DEF Opens
<1>5. ~Takes(k, p) /\ Opens(k, q) => Opens(k, r)
  <2> SUFFICES ASSUME ~Takes(k, p), NEW i \in DOMAIN q, q[i] = add, \A j \in DOMAIN q : j < i => q[j] # rem
               PROVE  Opens(k, r)
    BY DEF Opens
  <2>1. \A j \in DOMAIN r : j < Len(p) + i => r[j] # rem
    BY <1>1, <1>2, <1>3 DEF Takes
  <2> QED  BY <1>2, <2>1 DEF Opens
<1>6. Opens(k, r) => Opens(k, p) \/ (~Takes(k, p) /\ Opens(k, q))
  <2> SUFFICES ASSUME NEW i \in DOMAIN r, r[i] = add, \A j \in DOMAIN r : j < i => r[j] # rem
               PROVE  Opens(k, p) \/ (~Takes(k, p) /\ Opens(k, q))
    BY DEF Opens
  <2>1. CASE i \in DOMAIN p
    BY <1>2, <2>1 DEF Opens
  <2>2. CASE i \notin DOMAIN p
    <3>1. PICK m \in DOMAIN q : i = Len(p) + m
      BY <1>3, <2>2
    <3>2. \A j \in DOMAIN p : p[j] # rem
      BY <1>1, <1>2, <3>1
    <3>3. \A j \in DOMAIN q : j < m => q[j] # rem
      BY <1>1, <1>2, <3>1
    <3> QED  BY <1>2, <3>1, <3>2, <3>3 DEF Opens, Takes
  <2> QED  BY <2>1, <2>2
<1> QED  BY <1>4, <1>5, <1>6 DEF r

LEMMA AlternatesConcat ==
  ASSUME NEW S, NEW p \in Seq(S), NEW q \in Seq(S), NEW k
  PROVE  Alternates(k, p \o q) <=>
           Alternates(k, p) /\ Alternates(k, q) /\ ~(Gives(k, p) /\ Opens(k, q))
<1> DEFINE rem == [tag |-> "REMOVE", key |-> k]
           add == [tag |-> "ADD", key |-> k]
           r == p \o q
           n == Len(p)
<1>1. /\ DOMAIN p = 1..n /\ n \in Nat /\ DOMAIN q = 1..Len(q) /\ Len(q) \in Nat
      /\ DOMAIN r = 1..(n + Len(q))
      /\ \A i \in 1..(n + Len(q)) : r[i] = IF i <= n THEN p[i] ELSE q[i - n]
  BY ConcatProperties, LenProperties
<1> HIDE DEF r, n
<1>2. /\ \A i \in DOMAIN p : i \in DOMAIN r /\ r[i] = p[i]
      /\ \A i \in DOMAIN q : n + i \in DOMAIN r /\ r[n + i] = q[i]
  BY <1>1
<1>3. \A i \in DOMAIN r : i \in DOMAIN p \/ \E j \in DOMAIN q : i = n + j
  <2> SUFFICES ASSUME NEW i \in DOMAIN r, i \notin DOMAIN p PROVE \E j \in DOMAIN q : i = n + j
    OBVIOUS
  <2>1. i - n \in DOMAIN q /\ i = n + (i - n)
    BY <1>1
  <2> QED  BY <2>1
<1>4. ASSUME Alternates(k, r)
      PROVE  Alternates(k, p) /\ Alternates(k, q) /\ ~(Gives(k, p) /\ Opens(k, q))
  <2>1. Alternates(k, p)
    <3> SUFFICES ASSUME NEW i \in DOMAIN p, NEW j \in DOMAIN p, i < j, p[i] = add, p[j] = add
                 PROVE  \E m \in DOMAIN p : i < m /\ m < j /\ p[m] = rem
      BY DEF Alternates
    <3>1. PICK m \in DOMAIN r : i < m /\ m < j /\ r[m] = rem
      BY <1>2, <1>4 DEF Alternates
    <3>2. m \in DOMAIN p
      BY <1>1, <3>1
    <3> QED  BY <1>2, <3>1, <3>2
  <2>2. Alternates(k, q)
    <3> SUFFICES ASSUME NEW i \in DOMAIN q, NEW j \in DOMAIN q, i < j, q[i] = add, q[j] = add
                 PROVE  \E m \in DOMAIN q : i < m /\ m < j /\ q[m] = rem
      BY DEF Alternates
    <3>1. n + i \in DOMAIN r /\ n + j \in DOMAIN r /\ n + i < n + j /\ r[n + i] = add /\ r[n + j] = add
      BY <1>1, <1>2
    <3>2. PICK m \in DOMAIN r : n + i < m /\ m < n + j /\ r[m] = rem
      BY <1>4, <3>1 DEF Alternates
    <3>3. PICK l \in DOMAIN q : m = n + l
      BY <1>1, <1>3, <3>2
    <3>4. i < l /\ l < j
      BY <1>1, <3>2, <3>3
    <3>5. q[l] = rem
      BY <1>2, <3>2, <3>3
    <3> QED  BY <3>4, <3>5
  <2>3. ~(Gives(k, p) /\ Opens(k, q))
    <3> SUFFICES ASSUME NEW i \in DOMAIN p, p[i] = add, \A j \in DOMAIN p : j > i => p[j] # rem,
                        NEW l \in DOMAIN q, q[l] = add, \A j \in DOMAIN q : j < l => q[j] # rem
                 PROVE  FALSE
      BY DEF Gives, Opens
    <3>1. i \in DOMAIN r /\ n + l \in DOMAIN r /\ i < n + l /\ r[i] = add /\ r[n + l] = add
      BY <1>1, <1>2
    <3>2. PICK m \in DOMAIN r : i < m /\ m < n + l /\ r[m] = rem
      BY <1>4, <3>1 DEF Alternates
    <3>3. m \in DOMAIN p \/ \E j \in DOMAIN q : m = n + j /\ j < l
      BY <1>1, <1>3, <3>2
    <3> QED  BY <1>1, <1>2, <3>2, <3>3
  <2> QED  BY <2>1, <2>2, <2>3
<1>5. ASSUME Alternates(k, p), Alternates(k, q), ~(Gives(k, p) /\ Opens(k, q))
      PROVE  Alternates(k, r)
  <2> SUFFICES ASSUME NEW i \in DOMAIN r, NEW j \in DOMAIN r, i < j, r[i] = add, r[j] = add
               PROVE  \E m \in DOMAIN r : i < m /\ m < j /\ r[m] = rem
    BY DEF Alternates
  <2>1. CASE i \in DOMAIN p /\ j \in DOMAIN p
    <3>1. PICK m \in DOMAIN p : i < m /\ m < j /\ p[m] = rem
      BY <1>2, <1>5, <2>1 DEF Alternates
    <3> QED  BY <1>2, <3>1
  <2>2. CASE i \notin DOMAIN p
    <3>1. PICK a \in DOMAIN q, b \in DOMAIN q : i = n + a /\ j = n + b
      BY <1>1, <1>3, <2>2
    <3>2. a < b /\ q[a] = add /\ q[b] = add
      BY <1>1, <1>2, <3>1
    <3>3. PICK m \in DOMAIN q : a < m /\ m < b /\ q[m] = rem
      BY <1>5, <3>2 DEF Alternates
    <3>4. n + m \in DOMAIN r /\ r[n + m] = rem
      BY <1>2, <3>3
    <3>5. i < n + m /\ n + m < j
      BY <1>1, <3>1, <3>3
    <3> QED  BY <3>4, <3>5
  <2>3. CASE i \in DOMAIN p /\ j \notin DOMAIN p
    <3>1. PICK b \in DOMAIN q : j = n + b
      BY <1>3, <2>3
    <3>2. p[i] = add /\ q[b] = add
      BY <1>2, <2>3, <3>1
    <3>3. CASE ~Gives(k, p)
      <4>1. PICK m \in DOMAIN p : m > i /\ p[m] = rem
        BY <2>3, <3>2, <3>3 DEF Gives
      <4> QED  BY <1>1, <1>2, <3>1, <4>1
    <3>4. CASE ~Opens(k, q)
      <4>1. PICK m \in DOMAIN q : m < b /\ q[m] = rem
        BY <3>2, <3>4 DEF Opens
      <4>2. i < n + m /\ n + m < j
        BY <1>1, <2>3, <3>1, <4>1
      <4> QED  BY <1>2, <4>1, <4>2
    <3> QED  BY <1>5, <3>3, <3>4
  <2> QED  BY <1>1, <2>1, <2>2, <2>3
<1> QED  BY <1>4, <1>5 DEF r

\* What no confirmation of k is in says nothing about k, and one tells all.
LEMMA OneConfirmation ==
  ASSUME NEW k, NEW x
  PROVE  /\ ~Opens(k, <<>>) /\ Alternates(k, <<>>) /\ Alternates(k, <<x>>)
         /\ Opens(k, <<x>>) <=> x = [tag |-> "ADD", key |-> k]
BY DEF Opens, Alternates

LEMMA AgreeConcat ==
  ASSUME NEW S, NEW p1 \in Seq(S), NEW q1 \in Seq(S), NEW p2 \in Seq(S), NEW q2 \in Seq(S), NEW k,
         Agree(k, p1, p2), Agree(k, q1, q2)
  PROVE  Agree(k, p1 \o q1, p2 \o q2)
<1>1. /\ Takes(k, p1 \o q1) <=> Takes(k, p1) \/ Takes(k, q1)
      /\ Gives(k, p1 \o q1) <=> Gives(k, q1) \/ (Gives(k, p1) /\ ~Takes(k, q1))
      /\ Takes(k, p2 \o q2) <=> Takes(k, p2) \/ Takes(k, q2)
      /\ Gives(k, p2 \o q2) <=> Gives(k, q2) \/ (Gives(k, p2) /\ ~Takes(k, q2))
  BY TakesGivesConcat
<1>2. /\ Opens(k, p1 \o q1) <=> Opens(k, p1) \/ (~Takes(k, p1) /\ Opens(k, q1))
      /\ Opens(k, p2 \o q2) <=> Opens(k, p2) \/ (~Takes(k, p2) /\ Opens(k, q2))
  BY OpensConcat
<1>3. /\ Alternates(k, p1 \o q1) <=>
            Alternates(k, p1) /\ Alternates(k, q1) /\ ~(Gives(k, p1) /\ Opens(k, q1))
      /\ Alternates(k, p2 \o q2) <=>
            Alternates(k, p2) /\ Alternates(k, q2) /\ ~(Gives(k, p2) /\ Opens(k, q2))
  BY AlternatesConcat
<1> QED  BY <1>1, <1>2, <1>3, Zenon DEF Agree

LEMMA OthersDoNotMatter ==
  ASSUME NEW k, NEW x, x # [tag |-> "ADD", key |-> k], x # [tag |-> "REMOVE", key |-> k]
  PROVE  Agree(k, <<x>>, <<>>)
BY OneConfirmation, TakesGivesOne DEF Agree

\* So they may be put in front or at the end.
LEMMA OthersAddNothing ==
  ASSUME NEW S, NEW q \in Seq(S), NEW x \in S, NEW k,
         x # [tag |-> "ADD", key |-> k], x # [tag |-> "REMOVE", key |-> k]
  PROVE  Agree(k, q \o <<x>>, q) /\ Agree(k, <<x>> \o q, q)
<1>1. <<x>> \in Seq(S) /\ <<>> \in Seq(S) /\ Agree(k, <<x>>, <<>>) /\ Agree(k, q, q)
  BY OthersDoNotMatter DEF Agree
<1>2. q \o <<>> = q /\ <<>> \o q = q
  BY ConcatEmptySeq
<1>3. Agree(k, q \o <<x>>, q \o <<>>) /\ Agree(k, <<x>> \o q, <<>> \o q)
  BY <1>1, AgreeConcat
<1> QED  BY <1>2, <1>3

\* The invariant of a key: its confirmations alternate, starting with what the
\* rows are not, and the outcome is what the hub holds.
InTurns(c, k) ==
  /\ Shown(k, Pending(c)) => Holds(c, k)
  /\ Alternates(k, Pending(c))
  /\ rows[k] \in {0, 1}
  /\ rows[k] = 1 => ~Opens(k, Pending(c))

LEMMA NothingNewForKey ==
  ASSUME NEW c, NEW k, InTurns(c, k), Agree(k, Pending(c), Pending(c)'), rows'[k] = rows[k],
         Holds(c, k) => Holds(c, k)'
  PROVE  InTurns(c, k)'
<1> DEFINE p == Pending(c)
           q == Pending(c)'
<1>1. /\ Takes(k, p) <=> Takes(k, q)
      /\ Gives(k, p) <=> Gives(k, q)
      /\ Opens(k, p) <=> Opens(k, q)
      /\ Alternates(k, p) <=> Alternates(k, q)
  BY DEF Agree
<1>2. (Gives(k, q) \/ (rows'[k] > 0 /\ ~Takes(k, q))) <=> Shown(k, p)
  BY <1>1 DEF Shown
<1>3. Shown(k, Pending(c))' <=> (Gives(k, q) \/ (rows'[k] > 0 /\ ~Takes(k, q)))
  BY DEF Shown, Gives, Takes
<1>4. (Opens(k, Pending(c))' <=> Opens(k, q)) /\ (Alternates(k, Pending(c))' <=> Alternates(k, q))
  BY DEF Opens, Alternates
<1> HIDE DEF p, q
<1> QED  BY <1>1, <1>2, <1>3, <1>4 DEF InTurns, p

LEMMA PendingIsList ==
  ASSUME TypeOK, NEW c \in Conns
  PROVE  /\ guiQueue \in Seq(Frame) /\ frames[c] \in Seq(Frame) /\ reply[c] \in Seq(Frame)
         /\ guiQueue \o frames[c] \in Seq(Frame) /\ Pending(c) \in Seq(Frame)
<1>1. guiQueue \in Seq(Frame) /\ frames[c] \in Seq(Frame) /\ reply[c] \in Seq(Frame)
  BY QueueTypes
<1>2. guiQueue \o frames[c] \in Seq(Frame)
  BY <1>1, ConcatProperties
<1> QED  BY <1>1, <1>2, ConcatProperties DEF Pending

\* A message hook covers its own type only.
LEMMA MessageCovers ==
  ASSUME Kind = "message", NEW h \in Hook, NEW k \in Key, NEW b, b.n = k.n
  PROVE  Covers(h, b) <=> KeyOf(h) = k
<1>1. KeyOf(h) \in Key /\ KeyOf(h) = [n |-> h.n, name |-> h.name]
  BY DEF Hook, KeyOf
<1>2. h.name = NoName /\ k = [n |-> k.n, name |-> NoName]
  BY <1>1 DEF Key
<1> QED  BY <1>1, <1>2 DEF Covers, MessageCompare

LEMMA HubIsList ==
  ASSUME HubOK, NEW c \in Conns
  PROVE  /\ hub[c] \in Seq(Hook) /\ Len(hub[c]) \in Nat /\ DOMAIN hub[c] = 1..Len(hub[c])
         /\ \A i \in DOMAIN hub[c] : hub[c][i] \in Hook
<1>1. hub[c] \in Seq(Hook)
  BY DEF HubOK
<1> QED  BY <1>1, LenProperties, ElementOfSeq

LEMMA FramesAssociate ==
  \A s, t, u \in Seq(Frame) : (s \o t) \o u = s \o (t \o u)
<1> SUFFICES ASSUME NEW s \in Seq(Frame), NEW t \in Seq(Frame), NEW u \in Seq(Frame)
             PROVE  (s \o t) \o u = s \o (t \o u)
  OBVIOUS
<1> QED  BY ConcatAssociative

LEMMA AddInTurns ==
  ASSUME Kind = "message", TypeOK, HubOK, NEW c \in Conns, NEW k \in Key, InTurns(c, k), ProcessAdd(c)
  PROVE  InTurns(c, k)'
<1> DEFINE q == guiQueue \o frames[c]
<1>1. PICK a \in Key : /\ TakeCommand(c, [tag |-> "ADD", key |-> a])
                       /\ \E list \in AddHook(hub[c], Requested(a)) :
                            Granted(c, [tag |-> "ADD", key |-> a], list)
  BY DEF ProcessAdd
<1> DEFINE cmd == [tag |-> "ADD", key |-> a]
<1>2. /\ ~IsCovered(hub[c], Requested(a)) /\ hub'[c] = Append(hub[c], Requested(a))
      /\ reply[c] = <<>> /\ reply'[c] = <<cmd>> /\ UNCHANGED <<rows, guiQueue, frames>>
  BY <1>1 DEF AddHook, Granted, TakeCommand, Reading, TypeOK
<1>3. q \in Seq(Frame) /\ cmd \in Frame /\ <<cmd>> \in Seq(Frame) /\ Pending(c) = q /\ Pending(c)' = q \o <<cmd>>
  <2>1. q \in Seq(Frame) /\ q \o <<>> = q
    BY PendingIsList, ConcatEmptySeq
  <2> QED  BY <1>2, <2>1 DEF Pending, Frame
<1>4. Requested(a) \in Hook /\ KeyOf(Requested(a)) = a /\ Requested(a).n = a.n
  BY RequestedIsAHook DEF Requested
<1>5. /\ hub[c] \in Seq(Hook) /\ DOMAIN hub[c] = 1..Len(hub[c]) /\ Len(hub[c]) \in Nat
      /\ DOMAIN hub'[c] = 1..(Len(hub[c]) + 1)
      /\ \A i \in 1..Len(hub[c]) : hub'[c][i] = hub[c][i]
      /\ hub'[c][Len(hub[c]) + 1] = Requested(a)
  BY <1>2, <1>4, HubIsList, AppendProperties, LenProperties
<1>6. (Holds(c, k) \/ k = a) => Holds(c, k)'
  <2>1. ASSUME NEW i \in DOMAIN hub[c], KeyOf(hub[c][i]) = k PROVE Holds(c, k)'
    BY <1>5, <2>1 DEF Holds
  <2>2. Len(hub[c]) + 1 \in DOMAIN hub'[c] /\ KeyOf(hub'[c][Len(hub[c]) + 1]) = a
    BY <1>4, <1>5
  <2> QED  BY <2>1, <2>2 DEF Holds
<1>7. CASE a # k
  <2>1. Agree(k, q \o <<cmd>>, q)
    BY <1>3, <1>7, OthersAddNothing
  <2> QED  BY <1>2, <1>3, <1>6, <2>1, NothingNewForKey DEF Agree
<1>8. CASE a = k
  <2>1. ~Holds(c, k)
    <3>1. \A i \in DOMAIN hub[c] : ~Covers(hub[c][i], Requested(a)) /\ hub[c][i] \in Hook
      BY <1>2, HubIsList DEF IsCovered
    <3> QED  BY <1>4, <1>8, <3>1, MessageCovers DEF Holds
  <2>2. ~Gives(k, q) /\ (rows[k] > 0 => Takes(k, q))
    BY <1>3, <2>1 DEF InTurns, Shown
  <2>3. Alternates(k, q) /\ (rows[k] = 1 => ~Opens(k, q)) /\ rows[k] \in {0, 1}
    BY <1>3 DEF InTurns
  <2> HIDE DEF q, cmd
  <2>4. /\ Opens(k, q \o <<cmd>>) <=> Opens(k, q) \/ (~Takes(k, q) /\ Opens(k, <<cmd>>))
        /\ Alternates(k, q \o <<cmd>>) <=>
             Alternates(k, q) /\ Alternates(k, <<cmd>>) /\ ~(Gives(k, q) /\ Opens(k, <<cmd>>))
        /\ Alternates(k, <<cmd>>)
    <3>1. q \in Seq(Frame) /\ <<cmd>> \in Seq(Frame)
      BY <1>3
    <3>2. Opens(k, q \o <<cmd>>) <=> Opens(k, q) \/ (~Takes(k, q) /\ Opens(k, <<cmd>>))
      BY <3>1, OpensConcat
    <3>3. Alternates(k, q \o <<cmd>>) <=>
            Alternates(k, q) /\ Alternates(k, <<cmd>>) /\ ~(Gives(k, q) /\ Opens(k, <<cmd>>))
      BY <3>1, AlternatesConcat
    <3>4. Alternates(k, <<cmd>>)
      BY OneConfirmation
    <3> QED  BY <3>2, <3>3, <3>4
  <2>5. Alternates(k, q \o <<cmd>>) /\ (rows'[k] = 1 => ~Opens(k, q \o <<cmd>>)) /\ rows'[k] \in {0, 1}
    BY <1>2, <2>2, <2>3, <2>4
  <2>6. (Alternates(k, Pending(c))' <=> Alternates(k, q \o <<cmd>>)) /\ (Opens(k, Pending(c))' <=> Opens(k, q \o <<cmd>>))
    BY <1>3 DEF Alternates, Opens
  <2> QED  BY <1>6, <1>8, <2>5, <2>6 DEF InTurns
<1> QED  BY <1>7, <1>8

LEMMA RemoveInTurns ==
  ASSUME Kind = "message", TypeOK, HubOK, NEW c \in Conns, NEW k \in Key, InTurns(c, k), ProcessRemove(c)
  PROVE  InTurns(c, k)'
<1> DEFINE q == guiQueue \o frames[c]
<1>1. PICK a \in Key : /\ TakeCommand(c, [tag |-> "REMOVE", key |-> a])
                       /\ \E list \in RemoveHook(hub[c], a) :
                            Granted(c, [tag |-> "REMOVE", key |-> a], list)
  BY DEF ProcessRemove
<1> DEFINE cmd == [tag |-> "REMOVE", key |-> a]
<1>2. PICK r \in FirstCovering(hub[c], a) : hub'[c] = RemoveAt(hub[c], r)
  BY <1>1 DEF Granted, RemoveHook, TypeOK
<1>3. reply[c] = <<>> /\ reply'[c] = <<cmd>> /\ UNCHANGED <<rows, guiQueue, frames>>
  BY <1>1 DEF Granted, TakeCommand, Reading, TypeOK
<1>4. q \in Seq(Frame) /\ cmd \in Frame /\ <<cmd>> \in Seq(Frame) /\ Pending(c) = q /\ Pending(c)' = q \o <<cmd>>
  <2>1. q \in Seq(Frame) /\ q \o <<>> = q
    BY PendingIsList, ConcatEmptySeq
  <2> QED  BY <1>3, <2>1 DEF Pending, Frame
<1>5. CASE a # k
  <2>1. Agree(k, q \o <<cmd>>, q)
    BY <1>4, <1>5, OthersAddNothing
  <2>2. r \in DOMAIN hub[c] /\ KeyOf(hub[c][r]) = a
    BY <1>2, HubIsList, MessageCovers DEF FirstCovering
  <2>3. /\ DOMAIN hub[c] = 1..Len(hub[c]) /\ Len(hub[c]) \in Nat /\ DOMAIN hub'[c] = 1..(Len(hub[c]) - 1)
        /\ \A i \in 1..(Len(hub[c]) - 1) : hub'[c][i] = IF i < r THEN hub[c][i] ELSE hub[c][i + 1]
    <3>1. hub[c] \in Seq(Hook) /\ r \in 1..Len(hub[c])
      BY <2>2, HubIsList
    <3> DEFINE list == hub[c]
               new == RemoveAt(list, r)
    <3>2. list \in Seq(Hook) /\ r \in 1..Len(list) /\ hub'[c] = new
      BY <1>2, <3>1
    <3> HIDE DEF list
    <3>3. /\ new \in Seq(Hook) /\ Len(new) = Len(list) - 1
          /\ \A i \in 1..(Len(list) - 1) : new[i] = IF i < r THEN list[i] ELSE list[i + 1]
      BY <3>2, RemoveAtProperties
    <3> HIDE DEF new
    <3>4. DOMAIN new = 1..(Len(list) - 1) /\ DOMAIN list = 1..Len(list) /\ Len(list) \in Nat
      BY <3>2, <3>3, LenProperties
    <3>5. /\ DOMAIN list = 1..Len(list) /\ Len(list) \in Nat /\ DOMAIN hub'[c] = 1..(Len(list) - 1)
          /\ \A i \in 1..(Len(list) - 1) : hub'[c][i] = IF i < r THEN list[i] ELSE list[i + 1]
      BY <3>2, <3>3, <3>4
    <3> QED  BY <3>5 DEF list
  <2>4. ASSUME NEW i \in DOMAIN hub[c], KeyOf(hub[c][i]) = k PROVE Holds(c, k)'
    <3>1. i # r
      BY <1>5, <2>2, <2>4
    <3>2. CASE i < r
      <4>1. i \in DOMAIN hub'[c] /\ hub'[c][i] = hub[c][i]
        BY <2>2, <2>3, <3>2
      <4> QED  BY <2>4, <4>1 DEF Holds
    <3>3. CASE i > r
      <4>1. i - 1 \in DOMAIN hub'[c] /\ ~(i - 1 < r) /\ (i - 1) + 1 = i
        BY <2>2, <2>3, <3>3
      <4>2. hub'[c][i - 1] = hub[c][i]
        BY <2>3, <4>1
      <4> QED  BY <2>4, <4>1, <4>2 DEF Holds
    <3> QED  BY <2>2, <2>3, <3>1, <3>2, <3>3
  <2>5. Holds(c, k) => Holds(c, k)'
    BY <2>4 DEF Holds
  <2> QED  BY <1>3, <1>4, <2>1, <2>5, NothingNewForKey DEF Agree
<1>6. CASE a = k
  <2>1. Alternates(k, q) /\ (rows[k] = 1 => ~Opens(k, q)) /\ rows[k] \in {0, 1}
    BY <1>4 DEF InTurns
  <2>2. /\ Takes(k, <<cmd>>) /\ ~Gives(k, <<cmd>>) /\ ~Opens(k, <<cmd>>) /\ Alternates(k, <<cmd>>)
    BY <1>6, TakesGivesOne, OneConfirmation
  <2> HIDE DEF q, cmd
  <2>3. /\ Takes(k, q \o <<cmd>>) <=> Takes(k, q) \/ Takes(k, <<cmd>>)
        /\ Gives(k, q \o <<cmd>>) <=> Gives(k, <<cmd>>) \/ (Gives(k, q) /\ ~Takes(k, <<cmd>>))
        /\ Opens(k, q \o <<cmd>>) <=> Opens(k, q) \/ (~Takes(k, q) /\ Opens(k, <<cmd>>))
        /\ Alternates(k, q \o <<cmd>>) <=>
             Alternates(k, q) /\ Alternates(k, <<cmd>>) /\ ~(Gives(k, q) /\ Opens(k, <<cmd>>))
    <3>1. q \in Seq(Frame) /\ <<cmd>> \in Seq(Frame)
      BY <1>4
    <3>2. /\ Takes(k, q \o <<cmd>>) <=> Takes(k, q) \/ Takes(k, <<cmd>>)
          /\ Gives(k, q \o <<cmd>>) <=> Gives(k, <<cmd>>) \/ (Gives(k, q) /\ ~Takes(k, <<cmd>>))
      BY <3>1, TakesGivesConcat
    <3>3. Opens(k, q \o <<cmd>>) <=> Opens(k, q) \/ (~Takes(k, q) /\ Opens(k, <<cmd>>))
      BY <3>1, OpensConcat
    <3>4. Alternates(k, q \o <<cmd>>) <=>
            Alternates(k, q) /\ Alternates(k, <<cmd>>) /\ ~(Gives(k, q) /\ Opens(k, <<cmd>>))
      BY <3>1, AlternatesConcat
    <3> QED  BY <3>2, <3>3, <3>4
  <2>4. /\ Takes(k, q \o <<cmd>>) /\ ~Gives(k, q \o <<cmd>>) /\ Alternates(k, q \o <<cmd>>)
        /\ (rows'[k] = 1 => ~Opens(k, q \o <<cmd>>)) /\ rows'[k] \in {0, 1}
    BY <1>3, <2>1, <2>2, <2>3
  <2>5. /\ Alternates(k, Pending(c))' <=> Alternates(k, q \o <<cmd>>)
        /\ Opens(k, Pending(c))' <=> Opens(k, q \o <<cmd>>)
        /\ Shown(k, Pending(c))' <=> Gives(k, q \o <<cmd>>) \/ (rows'[k] > 0 /\ ~Takes(k, q \o <<cmd>>))
    BY <1>4 DEF Alternates, Opens, Shown, Takes, Gives
  <2> QED  BY <2>4, <2>5 DEF InTurns
<1> QED  BY <1>5, <1>6

LEMMA SendInTurns ==
  ASSUME TypeOK, NEW c \in Conns, c = conn, NEW k, InTurns(c, k), SendConfirmation(c)
  PROVE  InTurns(c, k)'
<1>1. frames'[c] = frames[c] \o reply[c] /\ reply'[c] = <<>> /\ UNCHANGED <<rows, guiQueue, hub>>
  BY DEF SendConfirmation, Deliverable, TypeOK
<1>2. guiQueue \in Seq(Frame) /\ frames[c] \in Seq(Frame) /\ reply[c] \in Seq(Frame) /\ Pending(c) \in Seq(Frame)
  BY PendingIsList
<1>3. (guiQueue \o frames[c]) \o reply[c] = guiQueue \o (frames[c] \o reply[c]) /\ Pending(c) \o <<>> = Pending(c)
  <2>1. (guiQueue \o frames[c]) \o reply[c] = guiQueue \o (frames[c] \o reply[c])
    <3> DEFINE f == frames[c]
               p == reply[c]
    <3>1. guiQueue \in Seq(Frame) /\ f \in Seq(Frame) /\ p \in Seq(Frame)
      BY <1>2
    <3> HIDE DEF f, p
    <3>2. (guiQueue \o f) \o p = guiQueue \o (f \o p)
      BY <3>1, FramesAssociate, Zenon
    <3> QED  BY <3>2 DEF f, p
  <2>2. Pending(c) \o <<>> = Pending(c)
    BY <1>2, ConcatEmptySeq
  <2> QED  BY <2>1, <2>2
<1>4. Pending(c)' = Pending(c)
  BY <1>1, <1>3 DEF Pending
<1> QED  BY <1>1, <1>4, NothingNewForKey DEF Agree, Holds

LEMMA ReadInTurns ==
  ASSUME TypeOK, NEW c \in Conns, c = conn, NEW k, InTurns(c, k), ReadFrame
  PROVE  InTurns(c, k)'
<1> DEFINE f == Head(frames[c])
           r == Tail(frames[c])
<1>1. /\ guiQueue \in Seq(Frame) /\ reply[c] \in Seq(Frame) /\ f \in Frame /\ r \in Seq(Frame)
      /\ <<f>> \in Seq(Frame) /\ frames[c] = <<f>> \o r
  BY PendingIsList, HeadBeforeTail DEF ReadFrame
<1>2. /\ frames'[c] = r /\ UNCHANGED <<rows, reply, hub>>
      /\ guiQueue' = IF f.tag = "data" THEN guiQueue ELSE Append(guiQueue, f)
  BY DEF ReadFrame, TypeOK
<1> HIDE DEF f, r
<1>3. CASE f.tag = "data"
  <2>1. Agree(k, <<f>> \o r, r) /\ Agree(k, guiQueue, guiQueue) /\ Agree(k, reply[c], reply[c])
    <3>1. f # [tag |-> "ADD", key |-> k] /\ f # [tag |-> "REMOVE", key |-> k]
      BY <1>3
    <3> QED  BY <1>1, <3>1, OthersAddNothing DEF Agree
  <2>2. <<f>> \o r \in Seq(Frame) /\ guiQueue \o r \in Seq(Frame) /\ guiQueue \o (<<f>> \o r) \in Seq(Frame)
    BY <1>1, ConcatProperties
  <2>3. Agree(k, (guiQueue \o (<<f>> \o r)) \o reply[c], (guiQueue \o r) \o reply[c])
    BY <1>1, <2>1, <2>2, AgreeConcat
  <2>4. Agree(k, Pending(c), Pending(c)')
    BY <1>1, <1>2, <1>3, <2>3 DEF Pending
  <2> QED  BY <1>2, <2>4, NothingNewForKey DEF Holds
<1>4. CASE f.tag # "data"
  <2>1. Append(guiQueue, f) = guiQueue \o <<f>>
    BY <1>1, AppendIsConcat
  <2>2. (guiQueue \o <<f>>) \o r = guiQueue \o (<<f>> \o r)
    BY <1>1, ConcatAssociative
  <2>3. Pending(c)' = Pending(c)
    BY <1>1, <1>2, <1>4, <2>1, <2>2 DEF Pending
  <2> QED  BY <1>2, <2>3, NothingNewForKey DEF Agree, Holds
<1> QED  BY <1>3, <1>4

LEMMA DataInTurns ==
  ASSUME TypeOK, NEW c \in Conns, NEW k, InTurns(c, k), NEW e \in Event, SendData(e)
  PROVE  InTurns(c, k)'
<1>1. UNCHANGED <<rows, guiQueue, reply, hub>>
  BY DEF SendData
<1>2. CASE frames'[c] = frames[c]
  BY <1>1, <1>2, NothingNewForKey DEF Agree, Pending, Holds
<1>3. CASE frames'[c] # frames[c]
  <2>1. PICK key : frames'[c] = Append(frames[c], [tag |-> "data", key |-> key])
    BY <1>3 DEF SendData
  <2> DEFINE d == [tag |-> "data", key |-> key]
             S == Frame \cup {d}
  <2>2. /\ guiQueue \in Seq(S) /\ frames[c] \in Seq(S) /\ reply[c] \in Seq(S) /\ d \in S /\ <<d>> \in Seq(S)
        /\ d # [tag |-> "ADD", key |-> k] /\ d # [tag |-> "REMOVE", key |-> k]
    BY PendingIsList, SeqMonotonic
  <2> HIDE DEF S
  <2>3. frames'[c] = frames[c] \o <<d>>
    BY <2>1, <2>2, AppendIsConcat
  <2> HIDE DEF d
  <2>4. Agree(k, frames[c] \o <<d>>, frames[c]) /\ Agree(k, guiQueue, guiQueue) /\ Agree(k, reply[c], reply[c])
    BY <2>2, OthersAddNothing DEF Agree
  <2>5. /\ frames[c] \o <<d>> \in Seq(S) /\ guiQueue \o frames[c] \in Seq(S)
        /\ guiQueue \o (frames[c] \o <<d>>) \in Seq(S)
    BY <2>2, ConcatProperties
  <2>6. Agree(k, (guiQueue \o (frames[c] \o <<d>>)) \o reply[c], (guiQueue \o frames[c]) \o reply[c])
    BY <2>2, <2>4, <2>5, AgreeConcat
  <2>7. Agree(k, Pending(c), Pending(c)')
    BY <1>1, <2>3, <2>6 DEF Pending, Agree
  <2> QED  BY <1>1, <2>7, NothingNewForKey DEF Holds
<1> QED  BY <1>2, <1>3

\* The rows follow the confirmation that is displayed.
LEMMA DisplayInTurns ==
  ASSUME TypeOK, NEW c \in Conns, NEW k \in Key, InTurns(c, k), ConfirmationReceived
  PROVE  InTurns(c, k)'
<1> DEFINE m == Head(guiQueue)
           g == Tail(guiQueue)
           rest == (g \o frames[c]) \o reply[c]
<1>1. /\ m \in Frame /\ g \in Seq(Frame) /\ <<m>> \in Seq(Frame) /\ guiQueue = <<m>> \o g
      /\ m.tag \in {"ADD", "REMOVE"} /\ m.key \in Key /\ m = [tag |-> m.tag, key |-> m.key]
  <2>1. m \in Command
    BY HeadBeforeTail DEF ConfirmationReceived, TypeOK
  <2>2. guiQueue \in Seq(Frame) /\ guiQueue # <<>>
    BY PendingIsList DEF ConfirmationReceived
  <2> QED  BY <2>1, <2>2, HeadBeforeTail DEF Command
<1>2. /\ guiQueue' = g /\ UNCHANGED <<frames, reply, hub>>
      /\ rows' = [rows EXCEPT ![m.key] = IF m.tag = "ADD" THEN @ + 1 ELSE IF @ > 0 THEN @ - 1 ELSE 0]
  BY DEF ConfirmationReceived
<1> HIDE DEF m, g
<1>3. rest \in Seq(Frame) /\ Pending(c) = <<m>> \o rest /\ Pending(c)' = rest
  <2>1. frames[c] \in Seq(Frame) /\ reply[c] \in Seq(Frame) /\ g \o frames[c] \in Seq(Frame)
    BY <1>1, PendingIsList, ConcatProperties
  <2>2. (<<m>> \o g) \o frames[c] = <<m>> \o (g \o frames[c])
    BY <1>1, <2>1, FramesAssociate
  <2>3. (<<m>> \o (g \o frames[c])) \o reply[c] = <<m>> \o rest
    BY <1>1, <2>1, FramesAssociate DEF rest
  <2> QED  BY <1>1, <1>2, <2>1, <2>2, <2>3, ConcatProperties DEF Pending
<1> HIDE DEF rest
<1>4. CASE m.key # k
  <2>1. m # [tag |-> "ADD", key |-> k] /\ m # [tag |-> "REMOVE", key |-> k]
    BY <1>4
  <2>2. Agree(k, <<m>> \o rest, rest)
    BY <1>1, <1>3, <2>1, OthersAddNothing
  <2>3. rows'[k] = rows[k]
    BY <1>1, <1>2, <1>4 DEF TypeOK
  <2> QED  BY <1>2, <1>3, <2>2, <2>3, NothingNewForKey DEF Holds, Agree
<1>5. CASE m.key = k
  <2> DEFINE add == m.tag = "ADD"
  <2>1. /\ Takes(k, <<m>> \o rest) <=> Takes(k, <<m>>) \/ Takes(k, rest)
        /\ Gives(k, <<m>> \o rest) <=> Gives(k, rest) \/ (Gives(k, <<m>>) /\ ~Takes(k, rest))
        /\ Opens(k, <<m>> \o rest) <=> Opens(k, <<m>>) \/ (~Takes(k, <<m>>) /\ Opens(k, rest))
        /\ Alternates(k, <<m>> \o rest) <=>
             Alternates(k, <<m>>) /\ Alternates(k, rest) /\ ~(Gives(k, <<m>>) /\ Opens(k, rest))
    BY <1>1, <1>3, TakesGivesConcat, OpensConcat, AlternatesConcat
  <2>2. /\ Takes(k, <<m>>) <=> ~add
        /\ Gives(k, <<m>>) <=> add
        /\ Opens(k, <<m>>) <=> add
    BY <1>1, <1>5, TakesGivesOne, OneConfirmation
  <2>3. /\ Alternates(k, <<m>> \o rest) /\ rows[k] \in {0, 1} /\ (rows[k] = 1 => ~Opens(k, <<m>> \o rest))
        /\ Gives(k, <<m>> \o rest) \/ (rows[k] > 0 /\ ~Takes(k, <<m>> \o rest)) => Holds(c, k)
    BY <1>3 DEF InTurns, Shown
  <2>4. rows'[k] = IF add THEN rows[k] + 1 ELSE IF rows[k] > 0 THEN rows[k] - 1 ELSE 0
    BY <1>1, <1>2, <1>5 DEF TypeOK
  <2> HIDE DEF add
  <2>5. rows'[k] = IF add THEN 1 ELSE 0
    BY <2>1, <2>2, <2>3, <2>4
  <2>6. /\ Alternates(k, rest) /\ rows'[k] \in {0, 1} /\ (rows'[k] = 1 => ~Opens(k, rest))
        /\ Gives(k, rest) \/ (rows'[k] > 0 /\ ~Takes(k, rest)) => Holds(c, k)
    BY <2>1, <2>2, <2>3, <2>5
  <2>7. /\ Alternates(k, Pending(c))' <=> Alternates(k, rest)
        /\ Opens(k, Pending(c))' <=> Opens(k, rest)
        /\ Shown(k, Pending(c))' <=> Gives(k, rest) \/ (rows'[k] > 0 /\ ~Takes(k, rest))
        /\ Holds(c, k)' <=> Holds(c, k)
    BY <1>2, <1>3 DEF Alternates, Opens, Shown, Takes, Gives, Holds
  <2> QED  BY <2>6, <2>7 DEF InTurns
<1> QED  BY <1>4, <1>5

\* In a process's first session nothing is left of an earlier one.
FirstSession == \A c \in Conns : thread[c] = "unused" =>
  guiQueue = <<>> /\ frames[c] = <<>> /\ reply[c] = <<>> /\ \A k \in Key : rows[k] = 0

TurnsOK == FirstSession /\ \A c \in Conns : c = conn => \A k \in Key : InTurns(c, k)

LEMMA TurnsInit == Init => TurnsOK
BY ConnsAssumption DEF Init, TurnsOK, FirstSession, ConnsAssumption

LEMMA TurnsStep ==
  ASSUME Kind = "message", \A c, d \in Conns : c = d, TypeOK, HubOK, DataOK, TurnsOK, [Next]_vars
  PROVE  TurnsOK'
<1>1. ASSUME NEW c \in Conns, thread'[c] = "unused"
      PROVE  UNCHANGED <<guiQueue, frames[c], reply[c], rows>> \/ EndSession
  <2>1. thread[c] = "unused"
    BY <1>1 DEF TypeOK, Next, vars, Connect, EndSession, ClickAdd, ClickRemove, Click,
       ConfirmationReceived, ReadFrame, ProcessHookRequest, ProcessAdd, ProcessRemove,
       ProcessRefused, TakeCommand, ClientGone, SendConfirmation, SendData, PipelineChanges
  <2>2. c # conn /\ guiQueue = <<>> /\ frames[c] = <<>> /\ reply[c] = <<>>
    BY <2>1 DEF DataOK, TurnsOK, FirstSession
  <2>3. ~ReadFrame /\ ~ConfirmationReceived
    BY <2>2 DEF ReadFrame, ConfirmationReceived, TypeOK
  <2>4. ASSUME NEW d \in Conns PROVE ~ProcessHookRequest(d) /\ ~SendConfirmation(d)
    BY <2>1, <2>2 DEF ProcessHookRequest, ProcessAdd, ProcessRemove, ProcessRefused, TakeCommand,
       Reading, SendConfirmation
  <2>5. ASSUME NEW e \in Event, SendData(e) PROVE UNCHANGED <<guiQueue, frames[c], reply[c], rows>>
    BY <2>2, <2>5 DEF SendData, Deliverable
  <2> QED
    BY <2>3, <2>4, <2>5 DEF Next, vars, Connect, ClickAdd, ClickRemove, Click, ClientGone, PipelineChanges
<1>2. FirstSession'
  <2>1. ASSUME NEW c \in Conns, thread'[c] = "unused"
        PROVE  guiQueue' = <<>> /\ frames'[c] = <<>> /\ reply'[c] = <<>> /\ \A k \in Key : rows'[k] = 0
    <3>1. thread[c] = "unused"
      BY <2>1 DEF TypeOK, Next, vars, Connect, EndSession, ClickAdd, ClickRemove, Click,
         ConfirmationReceived, ReadFrame, ProcessHookRequest, ProcessAdd, ProcessRemove,
         ProcessRefused, TakeCommand, ClientGone, SendConfirmation, SendData, PipelineChanges
    <3>2. ~EndSession
      BY <3>1 DEF EndSession, DataOK, TypeOK
    <3> QED  BY <1>1, <2>1, <3>1, <3>2 DEF TurnsOK, FirstSession
  <2> QED  BY <2>1 DEF FirstSession
<1>3. ASSUME NEW c \in Conns, c = conn', NEW k \in Key PROVE InTurns(c, k)'
  <2>1. CASE Connect
    <3>1. /\ thread[c] = "unused" /\ UNCHANGED <<hub, rows, guiQueue, frames, reply>>
      BY <1>3, <2>1 DEF Connect
    <3>2. guiQueue' = <<>> /\ frames'[c] = <<>> /\ reply'[c] = <<>> /\ rows'[k] = 0
      BY <3>1 DEF TurnsOK, FirstSession
    <3>3. Pending(c)' = <<>>
      BY <3>2 DEF Pending
    <3> QED  BY <3>2, <3>3 DEF InTurns, Shown, Gives, Alternates
  <2>2. CASE EndSession
    BY <1>3, <2>2, ConnsAssumption DEF EndSession, ConnsAssumption
  <2> SUFFICES ASSUME ~Connect, ~EndSession PROVE InTurns(c, k)'
    BY <2>1, <2>2
  <2>3. c = conn /\ InTurns(c, k)
    BY <1>3 DEF TurnsOK, Next, vars, ClickAdd, ClickRemove, Click, ConfirmationReceived, ReadFrame,
       ProcessHookRequest, ProcessAdd, ProcessRemove, ProcessRefused, TakeCommand, ClientGone,
       SendConfirmation, SendData, PipelineChanges
  <2>4. ASSUME UNCHANGED <<rows, guiQueue, frames, reply, hub>> PROVE InTurns(c, k)'
    BY <2>3, <2>4, NothingNewForKey DEF Agree, Pending, Holds
  <2>5. ASSUME NEW d \in Conns, ProcessHookRequest(d) PROVE InTurns(c, k)'
    <3>1. d = c
      OBVIOUS
    <3>2. CASE ProcessAdd(c)
      BY <2>3, <3>2, AddInTurns
    <3>3. CASE ProcessRemove(c)
      BY <2>3, <3>3, RemoveInTurns
    <3>4. CASE ProcessRefused(c)
      BY <2>4, <3>4 DEF ProcessRefused, TakeCommand
    <3> QED  BY <2>5, <3>1, <3>2, <3>3, <3>4 DEF ProcessHookRequest
  <2>6. ASSUME NEW d \in Conns, SendConfirmation(d) \/ ClientGone(d) PROVE InTurns(c, k)'
    <3>1. d = c
      OBVIOUS
    <3>2. ~ClientGone(c)
      BY <2>3 DEF ClientGone
    <3> QED  BY <2>3, <2>6, <3>1, <3>2, SendInTurns
  <2>7. CASE ConfirmationReceived
    BY <2>3, <2>7, DisplayInTurns
  <2>8. CASE ReadFrame
    BY <2>3, <2>8, ReadInTurns
  <2>9. ASSUME NEW e \in Event, SendData(e) PROVE InTurns(c, k)'
    BY <2>3, <2>9, DataInTurns
  <2>10. CASE ClickAdd \/ ClickRemove \/ PipelineChanges \/ UNCHANGED vars
    BY <2>4, <2>10 DEF ClickAdd, ClickRemove, Click, PipelineChanges, vars
  <2> QED  BY <2>5, <2>6, <2>7, <2>8, <2>9, <2>10 DEF Next
<1> QED  BY <1>2, <1>3 DEF TurnsOK

\* In one session of hooks that are compared for equality, the rows the user is
\* shown are those of hooks the server holds.
THEOREM RowsStandForHooks ==
  ASSUME Kind = "message", \A c, d \in Conns : c = d
  PROVE  Spec => []RowsMatchHooks
<1>1. RowsOK /\ TypeOK /\ TypeOK' /\ HubOK /\ [Next]_vars => RowsOK'
  BY RowsStep
<1>2. TypeOK /\ TypeOK' /\ HubOK /\ RowsOK /\ DataOK /\ [Next]_vars => DataOK'
  BY DataStep
<1>3. TypeOK /\ HubOK /\ DataOK /\ TurnsOK /\ [Next]_vars => TurnsOK'
  BY TurnsStep
<1>4. TurnsOK => RowsMatchHooks
  BY DEF TurnsOK, InTurns, RowsMatchHooks
<1> QED  BY <1>1, <1>2, <1>3, <1>4, RowsInit, DataInit, TurnsInit, TypeCorrect, HubCorrect, PTL DEF Spec
=============================================================================
