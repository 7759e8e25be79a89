--------------------------- MODULE FramingProofs ---------------------------
(***************************************************************************)
(* As long as no body is cut short, what is in the stream continues what   *)
(* has been read and ends with what has been written: messages come out    *)
(* whole and in order, and no body is taken for a header.                  *)
(*                                                                         *)
(* The debugger writes commands without a lock, so what is said about      *)
(* commands needs a debugger in which one thread writes them.              *)
(***************************************************************************)
EXTENDS Framing, ListFacts

\* Nobody else writes commands: frames need no such thing.
Alone == direction = "commands" => \A s, t \in CommandWriters : s = t

TypeOK ==
  /\ direction \in {"commands", "frames"}
  /\ sent \in Seq(Message)
  /\ writing \in [Threads -> Seq(Message)]
  /\ written \in [Threads -> 0..MaxMessages]
  /\ mutex \in Threads \cup {Nobody}
  /\ stream \in Seq(Unit) /\ got \in Seq(Unit)
  /\ closed \in BOOLEAN /\ cut \in BOOLEAN
  /\ reader \in {"header", "body", "left", "aborted"}
  /\ need \in Int
  /\ delivered \in Seq(Message \cup {Garbage})

\* The mutex belongs to the thread in the middle of a frame.
MutexOK == Locked => \A t \in Threads : writing[t] # <<>> => mutex = t

WritersOK == \A t \in Threads : writing[t] # <<>> => t \in Writers

\* A thread numbers its messages: none is sent twice.
SentOnce ==
  /\ \A i \in DOMAIN sent : sent[i].no <= written[sent[i].by]
  /\ \A i, j \in DOMAIN sent : sent[i] = sent[j] => i = j

\* Unit v may follow unit u in a stream of whole messages.
Follows(u, v) ==
  \/ v.msg = u.msg /\ v.part = u.part + 1
  \/ /\ u.part = u.msg.size /\ v.part = 0
     /\ \E i \in 1..(Len(sent) - 1) : sent[i] = u.msg /\ sent[i + 1] = v.msg

ChainOK == \A i \in 1..(Len(stream) - 1) : Follows(stream[i], stream[i + 1])

Reading == reader \in {"header", "body"}

\* The message being read, and the part of it that is awaited.
Current == sent[Len(delivered) + 1]
Awaited == IF reader = "body" THEN Len(got) + 1 ELSE 0

\* The stream continues what has been read.
ReaderOK ==
  /\ stream # <<>> \/ reader = "body" => Len(delivered) < Len(sent)
  /\ stream # <<>> => stream[1] = [msg |-> Current, part |-> Awaited]
  /\ reader = "body" =>
       /\ Len(got) < Current.size /\ need = Current.size - Len(got)
       /\ \A i \in DOMAIN got : got[i] = [msg |-> Current, part |-> i]

\* The last unit on its way, or read if none is, is that part of the last message.
EndsAt(part) ==
  \/ stream # <<>> /\ sent # <<>> /\ stream[Len(stream)] = [msg |-> sent[Len(sent)], part |-> part]
  \/ stream = <<>> /\ reader = "body" /\ Len(delivered) + 1 = Len(sent) /\ Len(got) = part
  \/ /\ stream = <<>> /\ reader = "header" /\ Len(delivered) = Len(sent)
     /\ sent # <<>> => part = sent[Len(sent)].size

\* The stream ends with what has been written.
WriterOK == ~closed =>
  /\ \A t \in Threads : writing[t] # <<>> =>
       sent # <<>> /\ writing[t] = <<sent[Len(sent)]>> /\ EndsAt(0)
  /\ (\A t \in Threads : writing[t] = <<>>) => EndsAt(sent[Len(sent)].size)

DeliveredOK == \A i \in DOMAIN delivered :
  \/ i <= Len(sent) /\ delivered[i] = sent[i]
  \/ /\ closed /\ i = Len(delivered) /\ delivered[i] = Garbage
     /\ stream = <<>> /\ reader # "body"

\* Nothing is read any more once the reader has left.
StreamOK == ~cut => DeliveredOK /\ (Reading => ChainOK /\ ReaderOK /\ WriterOK)
IInv == TypeOK /\ MutexOK /\ WritersOK /\ SentOnce /\ (Alone => StreamOK)

-----------------------------------------------------------------------------
\* Types

LEMMA MessageFacts ==
  ASSUME NEW m \in Message
  PROVE  m.by \in Threads /\ m.no \in 1..MaxMessages /\ m.size \in Nat /\ m.size > 0
<1>1. m.by \in Threads /\ m.no \in 1..MaxMessages /\ m.size \in Sizes
  BY DEF Message
<1>2. \A n \in Sizes : n \in Nat /\ n > 0
  BY UnitsAssumption
<1> QED  BY <1>1, <1>2

LEMMA BodyFacts ==
  ASSUME NEW m \in Message
  PROVE  /\ [msg |-> m, part |-> 0] \in Unit
         /\ Body(m) \in Seq(Unit) /\ Len(Body(m)) = m.size
         /\ \A i \in 1..m.size : Body(m)[i] = [msg |-> m, part |-> i]
<1>1. m.size \in Nat /\ m.size > 0
  BY MessageFacts
<1>2. \A i \in 0..m.size : [msg |-> m, part |-> i] \in Unit
  BY <1>1 DEF Unit
<1>3. /\ Body(m) \in [1..m.size -> Unit] /\ DOMAIN Body(m) = 1..m.size
      /\ \A i \in 1..m.size : Body(m)[i] = [msg |-> m, part |-> i]
  BY <1>1, <1>2 DEF Body
<1>4. Body(m) \in Seq(Unit)
  BY <1>1, <1>3, SeqDef
<1>5. Len(Body(m)) = m.size
  BY <1>1, <1>3, <1>4, LenProperties
<1> QED  BY <1>1, <1>2, <1>3, <1>4, <1>5

LEMMA UnitFacts ==
  ASSUME NEW u \in Unit
  PROVE  u.msg \in Message /\ u.part \in Nat /\ u.part <= u.msg.size /\ u = [msg |-> u.msg, part |-> u.part]
BY DEF Unit

\* A stream that is read from the front and cut at the end stays one of units.
LEMMA StreamIsList ==
  ASSUME NEW s \in Seq(Unit)
  PROVE  /\ Len(s) \in Nat /\ DOMAIN s = 1..Len(s)
         /\ \A i \in 1..Len(s) : s[i] \in Unit
         /\ s # <<>> => /\ Len(s) > 0 /\ Head(s) = s[1] /\ Head(s) \in Unit
                        /\ Tail(s) \in Seq(Unit) /\ Len(Tail(s)) = Len(s) - 1
                        /\ \A i \in 1..(Len(s) - 1) : Tail(s)[i] = s[i + 1]
         /\ s = <<>> => Len(s) = 0
         /\ Len(s) = 0 => s = <<>>
BY LenProperties, ElementOfSeq, EmptySeq, HeadTailProperties

LEMMA DecodedType ==
  ASSUME NEW units
  PROVE  Decoded(units) \in Message \cup {Garbage}
<1>1. ASSUME NEW m \in Message, units = Body(m) PROVE Head(units).msg = m
  <2> DEFINE b == Body(m)
  <2>1. b \in Seq(Unit) /\ Len(b) = m.size /\ m.size > 0 /\ 1 \in 1..m.size /\ b[1] = [msg |-> m, part |-> 1]
    <3>1. m.size \in Nat /\ m.size > 0 /\ Body(m) \in Seq(Unit) /\ Len(Body(m)) = m.size
      <4>1. m.size \in Nat /\ m.size > 0
        BY MessageFacts
      <4>2. Body(m) \in Seq(Unit) /\ Len(Body(m)) = m.size
        BY BodyFacts
      <4> QED  BY <4>1, <4>2
    <3>2. \A i \in 1..m.size : Body(m)[i] = [msg |-> m, part |-> i]
      BY BodyFacts
    <3> HIDE DEF b
    <3> QED  BY <3>1, <3>2 DEF b
  <2> HIDE DEF b
  <2>2. b # <<>>
    BY <2>1, StreamIsList
  <2>3. Head(b) = b[1]
    BY <2>1, <2>2, StreamIsList
  <2> QED  BY <1>1, <2>1, <2>3 DEF b
<1>2. ASSUME NEW m \in Message, units = Body(m) PROVE Decoded(units) \in Message
  BY <1>1, <1>2 DEF Decoded
<1>3. (\A m \in Message : units # Body(m)) => Decoded(units) = Garbage
  BY DEF Decoded
<1> QED  BY <1>2, <1>3

LEMMA TypeInit == Init => TypeOK
<1>1. <<>> \in Seq(Message) /\ <<>> \in Seq(Unit) /\ <<>> \in Seq(Message \cup {Garbage})
  BY EmptySeq
<1>2. 0 \in 0..MaxMessages
  BY UnitsAssumption
<1>3. ASSUME Init PROVE writing \in [Threads -> Seq(Message)] /\ written \in [Threads -> 0..MaxMessages]
  BY <1>1, <1>2, <1>3 DEF Init
<1>4. ASSUME Init PROVE sent \in Seq(Message) /\ stream \in Seq(Unit) /\ got \in Seq(Unit)
                        /\ delivered \in Seq(Message \cup {Garbage})
  BY <1>1, <1>4 DEF Init
<1>5. Init => /\ direction \in {"commands", "frames"} /\ mutex \in Threads \cup {Nobody}
              /\ reader \in {"header", "body", "left", "aborted"}
  BY DEF Init
<1>6. Init => closed \in BOOLEAN /\ cut \in BOOLEAN
  BY Zenon DEF Init
<1>7. Init => need \in Int
  BY DEF Init
<1> QED  BY <1>3, <1>4, <1>5, <1>6, <1>7 DEF TypeOK

LEMMA HeaderWritten ==
  ASSUME TypeOK, NEW t \in Writers, WriteHeader(t)
  PROVE  TypeOK'
<1>1. t \in Threads
  BY DEF Writers, Threads
<1>2. PICK size \in Sizes :
        LET m == [by |-> t, no |-> written[t] + 1, size |-> size] IN
        /\ written[t] < MaxMessages
        /\ mutex' = IF Locked THEN t ELSE mutex
        /\ stream' = Append(stream, [msg |-> m, part |-> 0])
        /\ sent' = Append(sent, m)
        /\ writing' = [writing EXCEPT ![t] = <<m>>]
        /\ written' = [written EXCEPT ![t] = @ + 1]
        /\ UNCHANGED <<direction, readerVars, closed, cut>>
  BY DEF WriteHeader
<1> DEFINE m == [by |-> t, no |-> written[t] + 1, size |-> size]
<1>3. written[t] + 1 \in 1..MaxMessages /\ written[t] + 1 \in 0..MaxMessages
  BY <1>1, <1>2, UnitsAssumption DEF TypeOK
<1>4. m \in Message
  BY <1>1, <1>3 DEF Message
<1> HIDE DEF m
<1>5. [msg |-> m, part |-> 0] \in Unit /\ <<m>> \in Seq(Message)
  BY <1>4, BodyFacts
<1>6. sent' \in Seq(Message) /\ stream' \in Seq(Unit)
  BY <1>2, <1>4, <1>5, AppendProperties DEF TypeOK, m
<1>7. writing' \in [Threads -> Seq(Message)]
  BY <1>1, <1>2, <1>5 DEF TypeOK, m
<1>8. written' \in [Threads -> 0..MaxMessages]
  BY <1>1, <1>2, <1>3 DEF TypeOK
<1> QED  BY <1>1, <1>2, <1>6, <1>7, <1>8 DEF TypeOK, readerVars

LEMMA BodyWritten ==
  ASSUME TypeOK, NEW t \in Writers, WriteBody(t)
  PROVE  TypeOK'
<1>1. t \in Threads
  BY DEF Writers, Threads
<1>2. PICK m \in Message :
        /\ LET fits == IF m.size <= Room THEN m.size ELSE Room
           IN /\ stream' = stream \o SubSeq(Body(m), 1, fits)
              /\ cut' = (cut \/ fits < m.size)
        /\ writing' = [writing EXCEPT ![t] = <<>>]
        /\ Release(t)
        /\ UNCHANGED <<direction, sent, written, readerVars, closed>>
  BY DEF WriteBody
<1> DEFINE fits == IF m.size <= Room THEN m.size ELSE Room
           part == SubSeq(Body(m), 1, fits)
<1>3. fits \in Int /\ fits <= m.size /\ cut' \in BOOLEAN
  <2>1. Len(stream) \in Nat
    BY StreamIsList DEF TypeOK
  <2>2. m.size \in Nat
    BY MessageFacts
  <2>3. Room \in Int
    BY <2>1, UnitsAssumption DEF Room
  <2> QED  BY <1>2, <2>2, <2>3 DEF TypeOK
<1> HIDE DEF fits
<1>4. part \in Seq(Unit)
  <2>1. CASE fits < 1
    <3>1. part = <<>>
      BY <1>3, <2>1, SubSeqEmpty
    <3> QED  BY <3>1, EmptySeq
  <2>2. CASE fits >= 1
    <3>1. fits \in 0..Len(Body(m)) /\ Body(m) \in Seq(Unit)
      <4>1. Body(m) \in Seq(Unit) /\ Len(Body(m)) = m.size
        BY BodyFacts
      <4>2. fits \in 0..m.size
        BY <1>3, <2>2, MessageFacts
      <4> QED  BY <4>1, <4>2
    <3> DEFINE b == Body(m)
    <3> HIDE DEF b
    <3>2. fits \in 0..Len(b) /\ b \in Seq(Unit)
      BY <3>1 DEF b
    <3>3. SubSeq(b, 1, fits) \in Seq(Unit)
      BY <3>2, PrefixIsList
    <3> QED  BY <3>3 DEF b
  <2> QED  BY <1>3, <2>1, <2>2
<1>5. stream' \in Seq(Unit)
  <2>1. stream' = stream \o part
    BY <1>2 DEF fits
  <2> HIDE DEF part
  <2> QED  BY <1>4, <2>1, ConcatProperties DEF TypeOK
<1>6. writing' \in [Threads -> Seq(Message)] /\ mutex' \in Threads \cup {Nobody}
  <2>1. <<>> \in Seq(Message)
    BY EmptySeq
  <2> QED  BY <1>2, <2>1 DEF TypeOK, Release
<1> QED  BY <1>2, <1>3, <1>5, <1>6 DEF TypeOK, readerVars

LEMMA ReaderTypes ==
  ASSUME TypeOK, Read
  PROVE  TypeOK'
<1>1. /\ stream # <<>> => Head(stream) \in Unit /\ Tail(stream) \in Seq(Unit)
      /\ <<>> \in Seq(Unit)
  BY StreamIsList, EmptySeq DEF TypeOK
<1>2. /\ UNCHANGED <<direction, sent, writing, written, mutex, closed, cut>>
      /\ stream' \in Seq(Unit)
  BY <1>1 DEF Read, ReadHeader, ReadBody, EndOfStream, writerVars, TypeOK
<1>3. \A d \in Message \cup {Garbage} : Append(delivered, d) \in Seq(Message \cup {Garbage})
  BY AppendProperties DEF TypeOK
<1>4. CASE ReadHeader
  <2>1. PICK size \in SizeOf(Head(stream)) :
          /\ reader' \in {reader, "left", "aborted", "body"}
          /\ need' \in {need, size} /\ got' \in {got, <<>>}
          /\ delivered' \in {delivered, Append(delivered, Garbage)}
    BY <1>4 DEF ReadHeader
  <2>2. size \in Int
    <3>1. \A u \in Unit : u.msg.size \in Int
      BY UnitFacts, MessageFacts
    <3> QED  BY <1>1, <1>4, <3>1, UnitsAssumption DEF ReadHeader, SizeOf
  <2>3. /\ reader' \in {"header", "body", "left", "aborted"} /\ need' \in Int /\ got' \in Seq(Unit)
        /\ delivered' \in Seq(Message \cup {Garbage})
    BY <1>1, <1>3, <2>1, <2>2 DEF TypeOK
  <2> QED  BY <1>2, <2>3 DEF TypeOK
<1>5. CASE ReadBody
  <2>1. got' \in Seq(Unit)
    <3>1. got' = Append(got, Head(stream)) /\ Head(stream) \in Unit /\ got \in Seq(Unit)
      BY <1>1, <1>5 DEF ReadBody, TypeOK
    <3> QED  BY <3>1, AppendProperties
  <2>2. need' \in Int /\ reader' \in {"header", "body", "left", "aborted"}
    BY <1>5 DEF ReadBody, TypeOK
  <2>3. delivered' = delivered \/ delivered' = Append(delivered, Decoded(got'))
    BY <1>5 DEF ReadBody
  <2>4. delivered' \in Seq(Message \cup {Garbage})
    BY <1>3, <2>3, DecodedType DEF TypeOK
  <2> QED  BY <1>2, <2>1, <2>2, <2>4 DEF TypeOK
<1>6. CASE EndOfStream
  <2>1. /\ got' = got /\ need' \in {need, 0} /\ reader' \in {"left", "header"}
        /\ delivered' \in {delivered, Append(delivered, Garbage)}
    BY <1>6 DEF EndOfStream
  <2>2. delivered' \in Seq(Message \cup {Garbage})
    BY <1>3, <2>1 DEF TypeOK
  <2> QED  BY <1>2, <2>1, <2>2 DEF TypeOK
<1> QED  BY <1>4, <1>5, <1>6 DEF Read

LEMMA TypeStep == TypeOK /\ [Next]_vars => TypeOK'
<1> SUFFICES ASSUME TypeOK, [Next]_vars PROVE TypeOK'
  OBVIOUS
<1>1. ASSUME NEW t \in Writers, WriteFails(t) PROVE TypeOK'
  <2>1. <<>> \in Seq(Message)
    BY EmptySeq
  <2> QED  BY <1>1, <2>1 DEF WriteFails, Release, TypeOK, readerVars
<1>2. CASE Close
  <2>1. PICK k \in 0..Len(stream) : stream' = SubSeq(stream, 1, k)
    BY <1>2 DEF Close
  <2>2. stream' \in Seq(Unit)
    BY <2>1, PrefixIsList DEF TypeOK
  <2> QED  BY <1>2, <2>2 DEF Close, TypeOK, writerVars, readerVars
<1>3. CASE UNCHANGED vars
  BY <1>3 DEF vars, writerVars, readerVars, TypeOK
<1> QED  BY <1>1, <1>2, <1>3, HeaderWritten, BodyWritten, ReaderTypes DEF Next, Write
-----------------------------------------------------------------------------
\* Writers

\* Nobody else is in the middle of a message when a thread begins one.
LEMMA BeginsAlone ==
  ASSUME TypeOK, MutexOK, WritersOK, Alone, NEW t \in Writers, WriteHeader(t)
  PROVE  \A s \in Threads : writing[s] = <<>>
<1>1. CASE Locked
  <2>1. mutex = Nobody
    BY <1>1 DEF WriteHeader
  <2> QED  BY <1>1, <2>1, WritersAssumption DEF MutexOK
<1>2. CASE ~Locked
  <2>1. direction = "commands" /\ Writers = CommandWriters
    BY <1>2 DEF Locked, TypeOK, Writers
  <2>2. writing[t] = <<>>
    BY DEF WriteHeader
  <2> QED  BY <2>1, <2>2 DEF WritersOK, Alone
<1> QED  BY <1>1, <1>2

LEMMA WritersStep == TypeOK /\ MutexOK /\ WritersOK /\ [Next]_vars => MutexOK' /\ WritersOK'
<1> SUFFICES ASSUME TypeOK, MutexOK, WritersOK, [Next]_vars PROVE MutexOK' /\ WritersOK'
  OBVIOUS
<1>0. Writers \subseteq Threads
  BY DEF Writers, Threads
<1>1. ASSUME UNCHANGED <<direction, writing, mutex>> PROVE MutexOK' /\ WritersOK'
  BY <1>1 DEF MutexOK, WritersOK, Locked, Writers
<1>2. ASSUME NEW t \in Writers, WriteHeader(t) PROVE MutexOK' /\ WritersOK'
  <2>1. /\ direction' = direction /\ (Locked => mutex = Nobody)
        /\ mutex' = IF Locked THEN t ELSE mutex
        /\ \A s \in Threads : s # t => writing'[s] = writing[s]
    BY <1>0, <1>2 DEF WriteHeader, TypeOK
  <2>2. ASSUME Locked, NEW s \in Threads PROVE s # t => writing[s] = <<>>
    BY <2>1, <2>2, WritersAssumption DEF MutexOK
  <2>3. MutexOK'
    BY <2>1, <2>2 DEF MutexOK, Locked
  <2>4. WritersOK'
    BY <2>1 DEF WritersOK, Writers
  <2> QED  BY <2>3, <2>4
<1>3. ASSUME NEW t \in Writers, WriteBody(t) \/ WriteFails(t) PROVE MutexOK' /\ WritersOK'
  <2>1. /\ direction' = direction /\ writing[t] # <<>>
        /\ mutex' = IF Locked THEN Nobody ELSE mutex
        /\ writing' = [writing EXCEPT ![t] = <<>>]
    <3>1. writing[t] # <<>>
      <4>1. \A m : <<m>> # <<>>
        OBVIOUS
      <4> QED  BY <1>3, <4>1 DEF WriteBody, WriteFails
    <3> QED  BY <1>3, <3>1 DEF WriteBody, WriteFails, Release
  <2>2. \A s \in Threads : writing'[s] = IF s = t THEN <<>> ELSE writing[s]
    BY <2>1 DEF TypeOK
  <2>3. ASSUME Locked, NEW s \in Threads, s # t PROVE writing[s] = <<>>
    BY <1>0, <2>1, <2>3 DEF MutexOK
  <2>4. MutexOK'
    BY <2>1, <2>2, <2>3 DEF MutexOK, Locked
  <2>5. WritersOK'
    BY <2>1, <2>2 DEF WritersOK, Writers
  <2> QED  BY <2>4, <2>5
<1>4. CASE Close \/ Read
  BY <1>1, <1>4 DEF Close, Read, ReadHeader, ReadBody, EndOfStream, writerVars
<1>5. CASE UNCHANGED vars
  BY <1>1, <1>5 DEF vars, writerVars
<1> QED  BY <1>2, <1>3, <1>4, <1>5 DEF Next, Write

LEMMA SentStep == TypeOK /\ SentOnce /\ [Next]_vars => SentOnce'
<1> SUFFICES ASSUME TypeOK, SentOnce, [Next]_vars PROVE SentOnce'
  OBVIOUS
<1>1. ASSUME UNCHANGED <<sent, written>> PROVE SentOnce'
  BY <1>1 DEF SentOnce
<1>2. ASSUME NEW t \in Writers, WriteHeader(t) PROVE SentOnce'
  <2>1. t \in Threads
    BY DEF Writers, Threads
  <2>2. PICK m : /\ sent' = Append(sent, m) /\ m \in Message
                 /\ m.by = t /\ m.no = written[t] + 1
                 /\ written' = [written EXCEPT ![t] = @ + 1]
    <3>1. PICK size \in Sizes :
            LET m == [by |-> t, no |-> written[t] + 1, size |-> size] IN
            /\ written[t] < MaxMessages
            /\ sent' = Append(sent, m) /\ written' = [written EXCEPT ![t] = @ + 1]
      BY <1>2 DEF WriteHeader
    <3>2. written[t] + 1 \in 1..MaxMessages
      BY <2>1, <3>1, UnitsAssumption DEF TypeOK
    <3> QED  BY <2>1, <3>1, <3>2 DEF Message
  <2>3. /\ sent \in Seq(Message) /\ Len(sent) \in Nat
        /\ \A i \in DOMAIN sent : sent[i] \in Message
    BY LenProperties, ElementOfSeq DEF TypeOK
  <2>4. \A s \in Threads : written[s] \in Nat /\ written'[s] = IF s = t THEN written[s] + 1 ELSE written[s]
    BY <2>1, <2>2, UnitsAssumption DEF TypeOK
  <2>5. ASSUME NEW i \in DOMAIN sent PROVE sent[i].by \in Threads /\ sent[i].no \in Nat /\ sent[i] # m
    <3>1. sent[i].by \in Threads /\ sent[i].no \in Nat
      BY <2>3, MessageFacts
    <3>2. sent[i].no <= written[sent[i].by]
      BY DEF SentOnce
    <3> QED  BY <2>2, <2>4, <3>1, <3>2
  <2>6. \A i, j \in DOMAIN sent' : sent'[i] = sent'[j] => i = j
    <3>1. \A i, j \in DOMAIN sent : sent[i] = sent[j] => i = j
      BY DEF SentOnce
    <3>2. \A i, j \in DOMAIN Append(sent, m) : Append(sent, m)[i] = Append(sent, m)[j] => i = j
      BY <2>2, <2>3, <2>5, <3>1, AppendToInjective
    <3> QED  BY <2>2, <3>2
  <2>7. /\ DOMAIN sent' = 1..(Len(sent) + 1) /\ DOMAIN sent = 1..Len(sent)
        /\ \A i \in 1..Len(sent) : sent'[i] = sent[i]
        /\ sent'[Len(sent) + 1] = m
    BY <2>2, <2>3, AppendProperties, LenProperties
  <2>8. ASSUME NEW i \in DOMAIN sent' PROVE sent'[i].no <= written'[sent'[i].by]
    <3>1. CASE i \in DOMAIN sent
      <4>1. sent'[i] = sent[i] /\ sent[i].no <= written[sent[i].by]
        BY <2>7, <3>1 DEF SentOnce
      <4> QED  BY <2>4, <2>5, <3>1, <4>1
    <3>2. CASE i = Len(sent) + 1
      BY <2>1, <2>2, <2>4, <2>7, <3>2
    <3> QED  BY <2>3, <2>7, <3>1, <3>2
  <2> QED  BY <2>6, <2>8 DEF SentOnce
<1>3. ASSUME NEW t \in Writers, WriteBody(t) \/ WriteFails(t) PROVE SentOnce'
  BY <1>1, <1>3 DEF WriteBody, WriteFails
<1>4. CASE Close \/ Read
  BY <1>1, <1>4 DEF Close, Read, ReadHeader, ReadBody, EndOfStream, writerVars
<1>5. CASE UNCHANGED vars
  BY <1>1, <1>5 DEF vars, writerVars
<1> QED  BY <1>2, <1>3, <1>4, <1>5 DEF Next, Write
-----------------------------------------------------------------------------
\* The stream

LEMMA StreamFacts ==
  ASSUME TypeOK
  PROVE  /\ Len(stream) \in Nat /\ Len(got) \in Nat /\ Len(sent) \in Nat /\ Len(delivered) \in Nat
         /\ DOMAIN sent = 1..Len(sent) /\ DOMAIN delivered = 1..Len(delivered) /\ DOMAIN got = 1..Len(got)
         /\ \A i \in 1..Len(sent) : sent[i] \in Message
         /\ sent # <<>> <=> Len(sent) > 0
         /\ stream # <<>> <=> Len(stream) > 0
BY LenProperties, ElementOfSeq, EmptySeq DEF TypeOK

\* A step that leaves the stream and both its ends alone.
LEMMA StreamSame ==
  ASSUME StreamOK, UNCHANGED <<sent, writing, stream, closed, readerVars, cut>>
  PROVE  StreamOK'
BY ZenonT(40) DEF StreamOK, ChainOK, ReaderOK, WriterOK, DeliveredOK, Follows, EndsAt, Reading, Current, Awaited, readerVars

LEMMA InitStream == Init => StreamOK
<1> SUFFICES ASSUME Init PROVE ChainOK /\ ReaderOK /\ WriterOK /\ DeliveredOK
  BY DEF StreamOK
<1>1. Len(stream) = 0 /\ Len(sent) = 0 /\ Len(delivered) = 0 /\ stream = <<>> /\ sent = <<>> /\ reader = "header"
  BY EmptySeq DEF Init
<1>2. ChainOK
  BY <1>1 DEF ChainOK
<1>3. ReaderOK
  BY <1>1 DEF ReaderOK
<1>4. WriterOK
  BY <1>1 DEF WriterOK, EndsAt, Init
<1>5. DeliveredOK
  <2>1. delivered = <<>> /\ DOMAIN delivered = 1..Len(delivered)
    BY EmptySeq, LenProperties DEF Init
  <2> QED  BY <1>1, <2>1 DEF DeliveredOK
<1> QED  BY <1>2, <1>3, <1>4, <1>5

\* What is left of the stream when its first unit goes.
LEMMA ShorterStream ==
  ASSUME TypeOK, ChainOK, stream # <<>>, stream' = Tail(stream), sent' = sent
  PROVE  /\ ChainOK'
         /\ stream[1] \in Unit /\ Head(stream) = stream[1]
         /\ stream' # <<>> =>
              /\ stream'[1] = stream[2] /\ stream[2] \in Unit /\ Follows(stream[1], stream[2])
              /\ Len(stream') \in Nat /\ stream'[Len(stream')] = stream[Len(stream)]
         /\ stream' = <<>> => Len(stream) = 1
<1>1. /\ Len(stream) \in Nat /\ Len(stream) > 0 /\ Head(stream) = stream[1]
      /\ \A i \in 1..Len(stream) : stream[i] \in Unit
      /\ stream' \in Seq(Unit) /\ Len(stream') = Len(stream) - 1
      /\ \A i \in 1..(Len(stream) - 1) : stream'[i] = stream[i + 1]
  BY StreamIsList DEF TypeOK
<1>2. (stream' # <<>> => Len(stream') > 0) /\ (stream' = <<>> => Len(stream') = 0)
  BY <1>1, StreamIsList
<1>3. \A i \in 1..(Len(stream) - 1) : Follows(stream[i], stream[i + 1])
  BY DEF ChainOK
<1>4. ChainOK'
  <2> SUFFICES ASSUME NEW i \in 1..(Len(stream') - 1) PROVE Follows(stream[i], stream[i + 1])'
    BY DEF ChainOK
  <2>1. i + 1 \in 1..(Len(stream) - 1) /\ i \in 1..(Len(stream) - 1)
    BY <1>1
  <2>2. stream'[i] = stream[i + 1] /\ stream'[i + 1] = stream[(i + 1) + 1]
    BY <1>1, <2>1
  <2>3. Follows(stream[i + 1], stream[(i + 1) + 1])
    BY <1>3, <2>1
  <2> QED  BY <2>2, <2>3 DEF Follows
<1>5. ASSUME stream' # <<>>
      PROVE  /\ stream'[1] = stream[2] /\ stream[2] \in Unit /\ Follows(stream[1], stream[2])
             /\ stream'[Len(stream')] = stream[Len(stream)]
  <2>1. 1 \in 1..(Len(stream) - 1) /\ 1 + 1 = 2 /\ 2 \in 1..Len(stream) /\ Len(stream') \in 1..(Len(stream) - 1)
        /\ Len(stream') + 1 = Len(stream)
    BY <1>1, <1>2, <1>5
  <2> QED  BY <1>1, <1>3, <2>1
<1> QED  BY <1>1, <1>2, <1>4, <1>5

LEMMA ReadHeaderStream ==
  ASSUME TypeOK, SentOnce, StreamOK, ReadHeader
  PROVE  StreamOK'
<1> SUFFICES ASSUME ~cut PROVE StreamOK'
  BY DEF StreamOK, ReadHeader
<1> DEFINE cur == sent[Len(delivered) + 1]
<1>1. ChainOK /\ ReaderOK /\ WriterOK /\ DeliveredOK
  BY DEF StreamOK, Reading, ReadHeader
<1>2. /\ reader = "header" /\ stream # <<>> /\ stream' = Tail(stream)
      /\ UNCHANGED <<sent, writing, closed, cut>>
  BY DEF ReadHeader, writerVars
<1>3. Len(delivered) < Len(sent) /\ stream[1] = [msg |-> cur, part |-> 0]
  BY <1>1, <1>2 DEF ReaderOK, Current, Awaited
<1>4. cur \in Message /\ cur.size \in Nat /\ cur.size > 0 /\ Len(delivered) + 1 \in DOMAIN sent
  BY <1>3, StreamFacts, MessageFacts
<1>5. /\ ChainOK'
      /\ stream' # <<>> => /\ stream'[1] = stream[2] /\ stream[2] \in Unit /\ Follows(stream[1], stream[2])
                           /\ stream'[Len(stream')] = stream[Len(stream)]
      /\ stream' = <<>> => Len(stream) = 1
      /\ Head(stream) = stream[1]
  BY <1>1, <1>2, ShorterStream
<1>6. /\ delivered' = delivered
      /\ \/ reader' \in {"left", "aborted"}
         \/ reader' = "body" /\ need' = cur.size /\ got' = <<>>
  <2>1. SizeOf(Head(stream)) = {cur.size}
    BY <1>3, <1>5 DEF SizeOf
  <2> QED  BY <1>4, <2>1 DEF ReadHeader
<1>7. DeliveredOK'
  BY <1>1, <1>2, <1>6 DEF DeliveredOK
<1>8. CASE reader' \in {"left", "aborted"}
  BY <1>7, <1>8 DEF StreamOK, Reading
<1>9. CASE reader' = "body"
  <2>1. got' = <<>> /\ Len(got') = 0 /\ DOMAIN got' = {} /\ need' = cur.size
    <3>1. <<>> \in Seq(Unit) /\ Len(<<>>) = 0
      BY EmptySeq
    <3>2. DOMAIN <<>> = 1..0
      BY <3>1, LenProperties
    <3> QED  BY <1>6, <1>9, <3>1, <3>2
  <2>2. Current' = cur /\ Awaited' = 1
    BY <1>2, <1>6, <1>9, <2>1 DEF Current, Awaited
  <2>3. stream' # <<>> => stream'[1] = [msg |-> cur, part |-> 1]
    <3> SUFFICES ASSUME stream' # <<>> PROVE stream[2].msg = cur /\ stream[2].part = 1
      BY <1>5, UnitFacts
    <3> QED  BY <1>3, <1>4, <1>5 DEF Follows
  <2>4. ReaderOK'
    BY <1>2, <1>3, <1>4, <1>6, <2>1, <2>2, <2>3 DEF ReaderOK
  <2>5. WriterOK'
    <3>1. ASSUME NEW p, EndsAt(p) PROVE EndsAt(p)'
      <4>1. sent # <<>> /\ stream[Len(stream)] = [msg |-> sent[Len(sent)], part |-> p]
        BY <1>2, <3>1 DEF EndsAt
      <4>2. CASE stream' # <<>>
        BY <1>2, <1>5, <4>1, <4>2 DEF EndsAt
      <4>3. CASE stream' = <<>>
        <5>1. sent[Len(sent)] = cur /\ p = 0
          <6>1. Len(stream) = 1
            BY <1>5, <4>3
          <6>2. stream[1] = [msg |-> sent[Len(sent)], part |-> p]
            BY <4>1, <6>1
          <6>3. stream[1].msg = cur /\ stream[1].part = 0
            BY <1>3
          <6>4. stream[1].msg = sent[Len(sent)] /\ stream[1].part = p
            BY <6>2
          <6> QED  BY <6>3, <6>4
        <5>2. Len(sent) = Len(delivered) + 1
          <6>1. Len(sent) \in DOMAIN sent
            BY <1>3, <1>4, StreamFacts
          <6> QED  BY <1>4, <5>1, <6>1 DEF SentOnce
        <5> QED  BY <1>2, <1>6, <1>9, <2>1, <4>3, <5>1, <5>2 DEF EndsAt
      <4> QED  BY <4>2, <4>3
    <3> QED  BY <1>1, <1>2, <3>1 DEF WriterOK
  <2> QED  BY <1>5, <1>7, <2>4, <2>5 DEF StreamOK
<1> QED  BY <1>6, <1>8, <1>9
\* A body that has been read to its end is that of the current message.
LEMMA WholeBody ==
  ASSUME NEW m \in Message, NEW units \in Seq(Unit), Len(units) = m.size,
         \A i \in DOMAIN units : units[i] = [msg |-> m, part |-> i]
  PROVE  Decoded(units) = m
<1> DEFINE b == Body(m)
<1>1. b \in Seq(Unit) /\ Len(b) = m.size /\ \A i \in 1..m.size : b[i] = [msg |-> m, part |-> i]
  BY BodyFacts
<1> HIDE DEF b
<1>2. DOMAIN units = 1..m.size /\ m.size \in Nat /\ m.size > 0
  BY MessageFacts, LenProperties
<1>3. units = b
  <2>1. Len(units) = Len(b) /\ \A i \in 1..Len(units) : units[i] = b[i]
    BY <1>1, <1>2
  <2> QED  BY <1>1, <2>1, SeqEqual
<1>4. Head(units) = units[1]
  <2>1. units # <<>>
    BY <1>2, StreamIsList
  <2> QED  BY <2>1, StreamIsList
<1>5. Head(units).msg = m
  <2>1. 1 \in DOMAIN units
    BY <1>2
  <2>2. units[1] = [msg |-> m, part |-> 1]
    BY <2>1
  <2> QED  BY <1>4, <2>2
<1>6. Decoded(units) = Head(units).msg
  BY <1>3 DEF Decoded, b
<1> QED  BY <1>5, <1>6

LEMMA ReadBodyStream ==
  ASSUME TypeOK, SentOnce, StreamOK, ReadBody
  PROVE  StreamOK'
<1> SUFFICES ASSUME ~cut PROVE StreamOK'
  BY DEF StreamOK, ReadBody
<1> DEFINE cur == sent[Len(delivered) + 1]
           n == Len(got) + 1
<1>1. ChainOK /\ ReaderOK /\ WriterOK /\ DeliveredOK
  BY DEF StreamOK, Reading, ReadBody
<1>2. /\ reader = "body" /\ stream # <<>> /\ stream' = Tail(stream)
      /\ UNCHANGED <<sent, writing, closed, cut>>
      /\ got' = Append(got, Head(stream)) /\ need' = need - 1
  BY DEF ReadBody, writerVars
<1>3. /\ Len(delivered) < Len(sent) /\ stream[1] = [msg |-> cur, part |-> n]
      /\ n <= cur.size /\ need = cur.size - Len(got)
      /\ \A i \in DOMAIN got : got[i] = [msg |-> cur, part |-> i]
  <2>1. Current = cur /\ Awaited = n
    BY <1>2 DEF Current, Awaited
  <2>2. Len(got) < cur.size => n <= cur.size
    BY <2>1, StreamFacts, MessageFacts, <1>1, <1>2 DEF ReaderOK
  <2> QED  BY <1>1, <1>2, <2>1, <2>2 DEF ReaderOK
<1>4. cur \in Message /\ cur.size \in Nat /\ n \in Nat /\ n > 0 /\ Len(delivered) + 1 \in DOMAIN sent
  BY <1>3, StreamFacts, MessageFacts
<1>5. /\ ChainOK'
      /\ stream' # <<>> => /\ stream'[1] = stream[2] /\ stream[2] \in Unit /\ Follows(stream[1], stream[2])
                           /\ stream'[Len(stream')] = stream[Len(stream)]
      /\ stream' = <<>> => Len(stream) = 1
      /\ Head(stream) = stream[1] /\ stream[1] \in Unit
  BY <1>1, <1>2, ShorterStream
<1>6. /\ got' \in Seq(Unit) /\ Len(got') = n /\ DOMAIN got' = 1..n
      /\ \A i \in DOMAIN got' : got'[i] = [msg |-> cur, part |-> i]
  <2>1. got \in Seq(Unit) /\ DOMAIN got = 1..Len(got)
    BY StreamFacts DEF TypeOK
  <2>2. /\ got' \in Seq(Unit) /\ Len(got') = n
        /\ \A i \in 1..Len(got) : got'[i] = got[i]
        /\ got'[n] = stream[1]
    BY <1>2, <1>5, <2>1, AppendProperties
  <2>3. DOMAIN got' = 1..n
    BY <2>2, LenProperties
  <2> QED  BY <1>3, <1>4, <2>1, <2>2, <2>3, StreamFacts
<1>7. \A i \in DOMAIN delivered : i <= Len(sent) /\ delivered[i] = sent[i]
  BY <1>1, <1>2 DEF DeliveredOK
<1>8. \A p : EndsAt(p) => sent # <<>> /\ stream[Len(stream)] = [msg |-> sent[Len(sent)], part |-> p]
  BY <1>2 DEF EndsAt
\* The last unit on its way was the one read.
<1>9. ASSUME NEW p, EndsAt(p), stream' = <<>> PROVE Len(sent) = Len(delivered) + 1 /\ p = n /\ sent[Len(sent)] = cur
  <2>1. sent[Len(sent)] = cur /\ p = n
    <3>1. stream[Len(stream)] = stream[1] /\ stream[Len(stream)] = [msg |-> sent[Len(sent)], part |-> p]
      BY <1>5, <1>8, <1>9
    <3> QED  BY <1>3, <3>1
  <2>2. Len(sent) \in DOMAIN sent
    BY <1>3, <1>4, StreamFacts
  <2> QED  BY <1>4, <2>1, <2>2 DEF SentOnce
<1>10. CASE need # 1
  <2>1. /\ n < cur.size /\ reader' = "body" /\ delivered' = delivered
    BY <1>3, <1>4, <1>10, StreamFacts, SMTT(30) DEF ReadBody
  <2>2. Current' = cur /\ Awaited' = n + 1
    BY <1>2, <1>6, <2>1 DEF Current, Awaited
  <2>3. stream' # <<>> => stream'[1] = [msg |-> cur, part |-> n + 1]
    <3> SUFFICES ASSUME stream' # <<>> PROVE stream[2].msg = cur /\ stream[2].part = n + 1
      BY <1>5, UnitFacts
    <3> QED  BY <1>3, <1>4, <1>5, <2>1 DEF Follows
  <2>4. need' = cur.size - n
    BY <1>2, <1>3, <1>4, StreamFacts
  <2>5. ReaderOK'
    BY <1>2, <1>3, <1>6, <2>1, <2>2, <2>3, <2>4 DEF ReaderOK
  <2>6. WriterOK'
    <3>1. ASSUME NEW p, EndsAt(p) PROVE EndsAt(p)'
      BY <1>2, <1>5, <1>6, <1>8, <1>9, <2>1, <3>1 DEF EndsAt
    <3> QED  BY <1>1, <1>2, <3>1 DEF WriterOK
  <2>7. DeliveredOK'
    BY <1>2, <1>7, <2>1 DEF DeliveredOK
  <2> QED  BY <1>5, <2>5, <2>6, <2>7 DEF StreamOK
<1>11. CASE need = 1
  <2>1. /\ n = cur.size /\ reader' = "header" /\ delivered' = Append(delivered, Decoded(got'))
    BY <1>3, <1>4, <1>11, StreamFacts DEF ReadBody
  <2>2. Decoded(got') = cur
    BY <1>4, <1>6, <2>1, WholeBody
  <2>3. /\ Len(delivered') = Len(delivered) + 1 /\ DOMAIN delivered' = 1..(Len(delivered) + 1)
        /\ \A i \in 1..Len(delivered) : delivered'[i] = delivered[i]
        /\ delivered'[Len(delivered) + 1] = cur
    <3>1. delivered \in Seq(Message \cup {Garbage}) /\ cur \in Message \cup {Garbage}
      BY <1>4 DEF TypeOK
    <3> HIDE DEF cur
    <3>2. delivered' = Append(delivered, cur)
      BY <2>1, <2>2
    <3> QED  BY <3>1, <3>2, AppendProperties, LenProperties
  <2>4. DeliveredOK'
    <3> SUFFICES ASSUME NEW i \in DOMAIN delivered' PROVE i <= Len(sent) /\ delivered'[i] = sent[i]
      BY <1>2 DEF DeliveredOK
    <3>1. CASE i \in DOMAIN delivered
      BY <1>7, <2>3, <3>1, StreamFacts
    <3>2. CASE i = Len(delivered) + 1
      BY <1>3, <2>3, <3>2, StreamFacts
    <3> QED  BY <2>3, <3>1, <3>2, StreamFacts
  <2>5. stream' # <<>> => Len(delivered) + 1 < Len(sent) /\ stream'[1] = [msg |-> sent[Len(delivered) + 2], part |-> 0]
    <3> SUFFICES ASSUME stream' # <<>>
                 PROVE  /\ Len(delivered) + 1 < Len(sent)
                        /\ stream[2].msg = sent[Len(delivered) + 2] /\ stream[2].part = 0
      BY <1>5, UnitFacts
    <3>1. stream[2].part <= stream[2].msg.size
      BY <1>5, UnitFacts
    <3>2. PICK i \in 1..(Len(sent) - 1) : sent[i] = cur /\ sent[i + 1] = stream[2].msg /\ stream[2].part = 0
      <4>1. ~(stream[2].msg = stream[1].msg /\ stream[2].part = stream[1].part + 1)
        BY <1>3, <1>4, <2>1, <3>1
      <4>2. stream[1].msg = cur
        BY <1>3
      <4> QED  BY <1>5, <4>1, <4>2 DEF Follows
    <3>3. i = Len(delivered) + 1
      <4>1. i \in DOMAIN sent
        BY StreamFacts
      <4> QED  BY <1>4, <3>2, <4>1 DEF SentOnce
    <3> QED  BY <3>2, <3>3, StreamFacts
  <2>6. ReaderOK'
    <3>1. Current' = sent[Len(delivered) + 2] /\ Awaited' = 0
      BY <1>2, <2>1, <2>3, StreamFacts DEF Current, Awaited
    <3> QED  BY <1>2, <2>1, <2>3, <2>5, <3>1 DEF ReaderOK
  <2>7. WriterOK'
    <3>1. ASSUME NEW p, EndsAt(p) PROVE EndsAt(p)'
      BY <1>2, <1>5, <1>8, <1>9, <2>1, <2>3, <3>1 DEF EndsAt
    <3> QED  BY <1>1, <1>2, <3>1 DEF WriterOK
  <2> QED  BY <1>5, <2>4, <2>6, <2>7 DEF StreamOK
<1> QED  BY <1>10, <1>11
LEMMA EndStream ==
  ASSUME TypeOK, StreamOK, EndOfStream
  PROVE  StreamOK'
<1> SUFFICES ASSUME ~cut PROVE StreamOK'
  BY DEF StreamOK, EndOfStream
<1>1. ChainOK /\ ReaderOK /\ DeliveredOK
  BY DEF StreamOK, Reading, EndOfStream
<1>2. /\ closed /\ stream = <<>> /\ UNCHANGED <<sent, writing, closed, stream, cut, got>>
      /\ reader' # "body"
  BY DEF EndOfStream, writerVars
<1>3. ChainOK'
  BY <1>1, <1>2 DEF ChainOK, Follows
<1>4. CASE reader = "header"
  <2>1. reader' = "left" /\ delivered' = delivered
    BY <1>4 DEF EndOfStream
  <2>2. DeliveredOK'
    BY <1>1, <1>2, <2>1 DEF DeliveredOK
  <2> QED  BY <2>1, <2>2 DEF StreamOK, Reading
<1>5. CASE reader = "body"
  <2>1. reader' = "header" /\ delivered' \in {delivered, Append(delivered, Garbage)}
    BY <1>5 DEF EndOfStream
  <2>2. DeliveredOK'
    <3>1. \A i \in DOMAIN delivered : i <= Len(sent) /\ delivered[i] = sent[i]
      BY <1>1, <1>5 DEF DeliveredOK
    <3>2. CASE delivered' = delivered
      BY <1>2, <3>1, <3>2 DEF DeliveredOK
    <3>3. CASE delivered' = Append(delivered, Garbage)
      <4>1. /\ Len(delivered') = Len(delivered) + 1 /\ DOMAIN delivered' = 1..(Len(delivered) + 1)
            /\ \A i \in 1..Len(delivered) : delivered'[i] = delivered[i]
            /\ delivered'[Len(delivered) + 1] = Garbage
        <5>1. delivered \in Seq(Message \cup {Garbage}) /\ Garbage \in Message \cup {Garbage}
          BY DEF TypeOK
        <5> QED  BY <3>3, <5>1, AppendProperties, LenProperties
      <4> QED  BY <1>2, <2>1, <3>1, <4>1, StreamFacts DEF DeliveredOK
    <3> QED  BY <2>1, <3>2, <3>3
  <2>3. ReaderOK' /\ WriterOK'
    BY <1>2, <2>1 DEF ReaderOK, WriterOK
  <2> QED  BY <1>3, <2>2, <2>3 DEF StreamOK
<1> QED  BY <1>4, <1>5 DEF EndOfStream

LEMMA FailsStream ==
  ASSUME TypeOK, StreamOK, NEW t, WriteFails(t)
  PROVE  StreamOK'
<1>1. closed /\ UNCHANGED <<sent, stream, closed, cut, readerVars>>
  BY DEF WriteFails
<1>2. (ChainOK => ChainOK') /\ (ReaderOK => ReaderOK') /\ (DeliveredOK => DeliveredOK')
      /\ (Reading' <=> Reading)
  BY <1>1 DEF ChainOK, ReaderOK, DeliveredOK, Follows, Reading, Current, Awaited, readerVars
<1>3. WriterOK'
  BY <1>1 DEF WriterOK
<1> QED  BY <1>1, <1>2, <1>3 DEF StreamOK

LEMMA CloseStream ==
  ASSUME TypeOK, StreamOK, Close
  PROVE  StreamOK'
<1> SUFFICES ASSUME ~cut PROVE StreamOK'
  BY DEF StreamOK, Close
<1>1. DeliveredOK /\ (Reading => ChainOK /\ ReaderOK)
  BY DEF StreamOK
<1>2. ~closed /\ closed' /\ UNCHANGED <<sent, writing, cut, reader, need, got, delivered>>
  BY DEF Close, writerVars, readerVars
<1>3. PICK k \in 0..Len(stream) : stream' = SubSeq(stream, 1, k)
  BY DEF Close
<1>4. /\ k \in Nat /\ k <= Len(stream) /\ Len(stream') = k
      /\ \A i \in 1..k : stream'[i] = stream[i]
      /\ stream' # <<>> => k > 0
  <2>1. k \in Nat /\ k <= Len(stream) /\ \A i \in 1..k : stream[i] \in Unit
    BY StreamIsList, StreamFacts DEF TypeOK
  <2>2. Len(stream') = k /\ \A i \in 1..k : stream'[i] = stream[1 + i - 1]
    BY <1>3, <2>1, SubSeqProperties
  <2>3. k = 0 => stream' = <<>>
    BY <1>3, SubSeqEmpty
  <2> QED  BY <2>1, <2>2, <2>3
<1>5. ASSUME Reading PROVE ChainOK'
  <2> SUFFICES ASSUME NEW i \in 1..(k - 1) PROVE Follows(stream[i], stream[i + 1])'
    BY <1>4 DEF ChainOK
  <2>1. i \in 1..k /\ i + 1 \in 1..k /\ i \in 1..(Len(stream) - 1)
    BY <1>4, StreamFacts
  <2>2. stream'[i] = stream[i] /\ stream'[i + 1] = stream[i + 1] /\ Follows(stream[i], stream[i + 1])
    BY <1>1, <1>4, <1>5, <2>1 DEF ChainOK
  <2> QED  BY <1>2, <2>2 DEF Follows
<1>6. ASSUME Reading PROVE ReaderOK'
  <2>1. stream' # <<>> => stream'[1] = stream[1] /\ stream # <<>>
    BY <1>4, StreamFacts
  <2>2. Current' = Current /\ Awaited' = Awaited
    BY <1>2 DEF Current, Awaited
  <2> QED  BY <1>1, <1>2, <1>6, <2>1, <2>2 DEF ReaderOK
<1>7. WriterOK' /\ DeliveredOK' /\ (Reading' <=> Reading)
  BY <1>1, <1>2 DEF WriterOK, DeliveredOK, Reading
<1> QED  BY <1>5, <1>6, <1>7 DEF StreamOK

LEMMA HeaderStream ==
  ASSUME TypeOK, MutexOK, WritersOK, Alone, StreamOK, NEW t \in Writers, WriteHeader(t)
  PROVE  StreamOK'
<1> SUFFICES ASSUME ~cut PROVE StreamOK'
  BY DEF StreamOK, WriteHeader
<1>1. DeliveredOK /\ (Reading => ChainOK /\ ReaderOK /\ WriterOK)
  BY DEF StreamOK
<1>2. PICK m : /\ m \in Message /\ sent' = Append(sent, m)
               /\ stream' = Append(stream, [msg |-> m, part |-> 0])
               /\ writing' = [writing EXCEPT ![t] = <<m>>]
               /\ ~closed /\ UNCHANGED <<closed, cut, reader, need, got, delivered>>
  <2>1. PICK size \in Sizes :
          LET m == [by |-> t, no |-> written[t] + 1, size |-> size] IN
          /\ written[t] < MaxMessages /\ ~closed
          /\ sent' = Append(sent, m)
          /\ stream' = Append(stream, [msg |-> m, part |-> 0])
          /\ writing' = [writing EXCEPT ![t] = <<m>>]
          /\ UNCHANGED <<closed, cut, readerVars>>
    BY DEF WriteHeader
  <2>2. t \in Threads
    BY DEF Writers, Threads
  <2>3. written[t] + 1 \in 1..MaxMessages
    BY <2>1, <2>2, UnitsAssumption DEF TypeOK
  <2>4. [by |-> t, no |-> written[t] + 1, size |-> size] \in Message
    BY <2>2, <2>3 DEF Message
  <2> QED  BY <2>1, <2>4 DEF readerVars
<1> DEFINE h == [msg |-> m, part |-> 0]
<1>3. /\ Len(sent') = Len(sent) + 1 /\ sent' # <<>>
      /\ \A i \in 1..Len(sent) : sent'[i] = sent[i]
      /\ sent'[Len(sent) + 1] = m
  <2>1. sent \in Seq(Message)
    BY DEF TypeOK
  <2>2. Len(sent') = Len(sent) + 1 /\ sent'[Len(sent) + 1] = m /\ \A i \in 1..Len(sent) : sent'[i] = sent[i]
    BY <1>2, <2>1, AppendProperties
  <2>3. sent' # <<>>
    BY <1>2, <2>1, AppendProperties
  <2> QED  BY <2>2, <2>3
<1>4. /\ Len(stream') = Len(stream) + 1 /\ stream' # <<>>
      /\ \A i \in 1..Len(stream) : stream'[i] = stream[i]
      /\ stream'[Len(stream) + 1] = h
  <2>1. stream \in Seq(Unit) /\ h \in Unit
    BY <1>2, BodyFacts DEF TypeOK
  <2> HIDE DEF h
  <2>2. stream' = Append(stream, h)
    BY <1>2 DEF h
  <2> QED  BY <2>1, <2>2, AppendProperties
<1>5. \A s \in Threads : writing[s] = <<>>
  BY BeginsAlone
<1>6. \A i \in DOMAIN delivered : i <= Len(sent) /\ delivered[i] = sent[i]
  BY <1>1, <1>2 DEF DeliveredOK
<1>7. DeliveredOK'
  BY <1>2, <1>3, <1>6, StreamFacts DEF DeliveredOK
<1>8. CASE ~Reading
  BY <1>2, <1>7, <1>8 DEF StreamOK, Reading
<1>9. CASE Reading
  <2>1. ChainOK /\ ReaderOK /\ EndsAt(sent[Len(sent)].size)
    BY <1>1, <1>2, <1>5, <1>9 DEF WriterOK
  <2>2. ASSUME NEW i \in 1..(Len(sent) - 1)
        PROVE  i \in 1..(Len(sent') - 1) /\ sent'[i] = sent[i] /\ sent'[i + 1] = sent[i + 1]
    BY <1>3, StreamFacts
  <2>3. ChainOK'
    <3> SUFFICES ASSUME NEW i \in 1..Len(stream) PROVE Follows(stream[i], stream[i + 1])'
      BY <1>4, StreamFacts DEF ChainOK
    <3>1. CASE i < Len(stream)
      <4>1. i \in 1..(Len(stream) - 1) /\ i + 1 \in 1..Len(stream)
        BY <3>1, StreamFacts
      <4>2. Follows(stream[i], stream[i + 1])
        BY <2>1, <4>1 DEF ChainOK
      <4>3. stream'[i] = stream[i] /\ stream'[i + 1] = stream[i + 1]
        BY <1>4, <4>1
      <4> QED  BY <2>2, <4>2, <4>3 DEF Follows
    <3>2. CASE i = Len(stream)
      <4>1. /\ sent # <<>> /\ stream[i] = [msg |-> sent[Len(sent)], part |-> sent[Len(sent)].size]
        <5>1. stream # <<>>
          BY <3>2, StreamFacts
        <5> QED  BY <2>1, <3>2, <5>1 DEF EndsAt
      <4>2. stream'[i] = stream[i] /\ stream'[i + 1] = h
        BY <1>4, <3>2
      <4>3. Len(sent) \in 1..(Len(sent') - 1) /\ sent'[Len(sent)] = sent[Len(sent)] /\ sent'[Len(sent) + 1] = m
        BY <1>3, <4>1, StreamFacts
      <4> QED  BY <4>1, <4>2, <4>3 DEF Follows
    <3> QED  BY <3>1, <3>2, StreamFacts
  <2>4. ReaderOK'
    <3>1. Len(delivered) < Len(sent) => Len(delivered) < Len(sent') /\ Current' = Current
      BY <1>2, <1>3, StreamFacts DEF Current
    <3>2. Awaited' = Awaited
      BY <1>2 DEF Awaited
    <3>3. CASE stream # <<>> \/ reader = "body"
      <4>1. Len(delivered) < Len(sent) /\ Len(delivered) < Len(sent') /\ Current' = Current
        BY <2>1, <3>1, <3>3 DEF ReaderOK
      <4>2. reader = "body" => /\ Len(got) < Current.size /\ need = Current.size - Len(got)
                               /\ \A i \in DOMAIN got : got[i] = [msg |-> Current, part |-> i]
        BY <2>1 DEF ReaderOK
      <4>3. stream'[1] = [msg |-> Current, part |-> Awaited]
        <5>1. CASE stream # <<>>
          BY <1>4, <2>1, <5>1, StreamFacts DEF ReaderOK
        <5>2. CASE stream = <<>>
          <6>1. Len(delivered) + 1 = Len(sent) /\ Len(got) = sent[Len(sent)].size
            BY <2>1, <3>3, <5>2 DEF EndsAt
          <6> QED  BY <3>3, <4>2, <5>2, <6>1, StreamFacts, MessageFacts DEF Current
        <5> QED  BY <5>1, <5>2
      <4> QED  BY <1>2, <1>4, <3>2, <4>1, <4>2, <4>3 DEF ReaderOK
    <3>4. CASE stream = <<>> /\ reader # "body"
      <4>1. Len(delivered) = Len(sent)
        BY <2>1, <3>4 DEF EndsAt
      <4>2. Current' = m /\ Awaited = 0 /\ stream'[1] = h /\ Len(delivered) < Len(sent')
        BY <1>2, <1>3, <1>4, <3>4, <4>1, StreamFacts DEF Current, Awaited
      <4> QED  BY <1>2, <3>2, <3>4, <4>2 DEF ReaderOK
    <3> QED  BY <3>3, <3>4
  <2>5. WriterOK'
    <3>1. t \in Threads
      BY DEF Writers, Threads
    <3>2. \A s \in Threads : writing'[s] = IF s = t THEN <<m>> ELSE <<>>
      BY <1>2, <1>5, <3>1 DEF TypeOK
    <3>3. sent'[Len(sent')] = m /\ stream'[Len(stream')] = h
      BY <1>3, <1>4
    <3>4. EndsAt(0)'
      BY <1>3, <1>4, <3>3 DEF EndsAt
    <3>5. <<m>> # <<>>
      OBVIOUS
    <3>6. ~(\A s \in Threads : writing'[s] = <<>>)
      BY <3>1, <3>2, <3>5
    <3>7. \A s \in Threads : writing'[s] # <<>> => writing'[s] = <<sent'[Len(sent')]>>
      BY <3>2, <3>3
    <3> QED  BY <1>3, <3>4, <3>6, <3>7 DEF WriterOK
  <2>6. Reading'
    BY <1>2, <1>9 DEF Reading
  <2> QED  BY <1>7, <2>3, <2>4, <2>5, <2>6 DEF StreamOK
<1> QED  BY <1>8, <1>9

LEMMA BodyStream ==
  ASSUME TypeOK, MutexOK, WritersOK, Alone, StreamOK, NEW t \in Writers, WriteBody(t)
  PROVE  StreamOK'
<1> SUFFICES ASSUME ~cut' PROVE StreamOK'
  BY DEF StreamOK
<1>1. PICK m \in Message :
        /\ ~closed /\ writing[t] = <<m>>
        /\ LET fits == IF m.size <= Room THEN m.size ELSE Room
           IN /\ stream' = stream \o SubSeq(Body(m), 1, fits)
              /\ cut' = (cut \/ fits < m.size)
        /\ writing' = [writing EXCEPT ![t] = <<>>]
        /\ UNCHANGED <<sent, readerVars, closed>>
  BY DEF WriteBody
<1> DEFINE b == Body(m)
           n == Len(stream)
<1>2. b \in Seq(Unit) /\ Len(b) = m.size /\ \A i \in 1..m.size : b[i] = [msg |-> m, part |-> i]
  BY BodyFacts
<1>3. m.size \in Nat /\ m.size > 0 /\ n \in Nat
  BY MessageFacts, StreamFacts
<1>4. ~cut /\ stream' = stream \o b
  <2>1. Room \in Int
    BY <1>3, UnitsAssumption DEF Room
  <2>2. m.size <= Room
    <3> DEFINE fits == IF m.size <= Room THEN m.size ELSE Room
    <3>1. ~(fits < m.size)
      BY <1>1
    <3> QED  BY <1>3, <2>1, <3>1
  <2>3. SubSeq(b, 1, m.size) = b
    <3> HIDE DEF b
    <3> QED  BY <1>2, SubSeqFull
  <2> QED  BY <1>1, <2>2, <2>3
<1> HIDE DEF b
<1>5. /\ Len(stream') = n + m.size /\ stream' # <<>>
      /\ \A i \in 1..n : stream'[i] = stream[i]
      /\ \A i \in 1..m.size : stream'[n + i] = [msg |-> m, part |-> i]
  <2>1. stream \in Seq(Unit)
    BY DEF TypeOK
  <2>2. /\ stream \o b \in Seq(Unit) /\ Len(stream \o b) = n + m.size
        /\ \A i \in 1..(n + m.size) : (stream \o b)[i] = IF i <= n THEN stream[i] ELSE b[i - n]
    BY <1>2, <2>1, ConcatProperties
  <2>3. stream' \in Seq(Unit) /\ Len(stream') = n + m.size
    BY <1>4, <2>2
  <2>4. stream' # <<>>
    BY <1>3, <2>3, StreamIsList
  <2>5. \A i \in 1..n : stream'[i] = stream[i]
    BY <1>3, <1>4, <2>2
  <2>6. ASSUME NEW i \in 1..m.size PROVE stream'[n + i] = [msg |-> m, part |-> i]
    <3>1. n + i \in 1..(n + m.size) /\ ~(n + i <= n) /\ (n + i) - n = i
      BY <1>3
    <3>2. stream'[n + i] = b[(n + i) - n]
      BY <1>4, <2>2, <3>1
    <3> QED  BY <1>2, <3>1, <3>2
  <2> QED  BY <2>3, <2>4, <2>5, <2>6
<1>6. UNCHANGED <<sent, closed, reader, need, got, delivered>>
  BY <1>1 DEF readerVars
<1>7. DeliveredOK /\ (Reading => ChainOK /\ ReaderOK /\ WriterOK)
  BY <1>4 DEF StreamOK
<1>8. DeliveredOK'
  BY <1>1, <1>6, <1>7 DEF DeliveredOK
<1>9. CASE ~Reading
  BY <1>6, <1>8, <1>9 DEF StreamOK, Reading
<1>10. CASE Reading
  <2>1. t \in Threads /\ ChainOK /\ ReaderOK
    BY <1>7, <1>10 DEF Writers, Threads
  <2>2. writing[t] # <<>> /\ sent # <<>> /\ sent[Len(sent)] = m /\ EndsAt(0)
    <3>1. writing[t] # <<>>
      <4>1. <<m>> # <<>>
        OBVIOUS
      <4> QED  BY <1>1, <4>1
    <3>2. sent # <<>> /\ writing[t] = <<sent[Len(sent)]>> /\ EndsAt(0)
      BY <1>1, <1>7, <1>10, <2>1, <3>1 DEF WriterOK
    <3>3. \A x, y : <<x>> = <<y>> => x = y
      OBVIOUS
    <3> QED  BY <1>1, <3>1, <3>2, <3>3
  <2>3. ChainOK'
    <3> SUFFICES ASSUME NEW i \in 1..(n + m.size - 1) PROVE Follows(stream[i], stream[i + 1])'
      <4>1. Len(stream') - 1 = n + m.size - 1
        <5>1. Len(stream') = n + m.size
          BY <1>5
        <5> QED  BY <1>3, <5>1
      <4> QED  BY <4>1 DEF ChainOK
    <3>1. CASE i < n
      <4>1. i \in 1..(n - 1) /\ i \in 1..n /\ i + 1 \in 1..n
        BY <1>3, <3>1
      <4>2. Follows(stream[i], stream[i + 1]) /\ stream'[i] = stream[i] /\ stream'[i + 1] = stream[i + 1]
        BY <1>5, <2>1, <4>1 DEF ChainOK
      <4> QED  BY <1>6, <4>2 DEF Follows
    <3>2. CASE i = n
      <4>1. stream'[i] = [msg |-> m, part |-> 0]
        <5>1. stream # <<>> /\ stream'[i] = stream[n]
          BY <1>3, <1>5, <3>2, StreamFacts
        <5> QED  BY <2>2, <5>1 DEF EndsAt
      <4>2. stream'[i + 1] = [msg |-> m, part |-> 1]
        BY <1>3, <1>5, <3>2
      <4> QED  BY <4>1, <4>2 DEF Follows
    <3>3. CASE i > n
      <4>1. i - n \in 1..m.size /\ (i - n) + 1 \in 1..m.size /\ n + (i - n) = i /\ n + ((i - n) + 1) = i + 1
        BY <1>3, <3>3
      <4>2. stream'[n + (i - n)] = [msg |-> m, part |-> i - n]
        BY <1>5, <4>1
      <4>3. stream'[n + ((i - n) + 1)] = [msg |-> m, part |-> (i - n) + 1]
        BY <1>5, <4>1
      <4> QED  BY <4>1, <4>2, <4>3 DEF Follows
    <3> QED  BY <1>3, <3>1, <3>2, <3>3
  <2>4. ReaderOK'
    <3>1. Current' = Current /\ Awaited' = Awaited
      BY <1>6 DEF Current, Awaited
    <3>2. stream'[1] = [msg |-> Current, part |-> Awaited] /\ Len(delivered) < Len(sent)
      <4>1. CASE stream # <<>>
        <5>1. stream'[1] = stream[1]
          <6>1. 1 \in 1..n
            BY <4>1, StreamFacts
          <6> QED  BY <1>5, <6>1
        <5> QED  BY <2>1, <4>1, <5>1 DEF ReaderOK
      <4>2. CASE stream = <<>>
        <5>1. n = 0 /\ stream'[1] = [msg |-> m, part |-> 1]
          <6>1. n = 0 /\ 1 \in 1..m.size /\ n + 1 = 1
            BY <1>3, <4>2, StreamFacts
          <6> QED  BY <1>5, <6>1
        <5>2. reader = "body" /\ Len(delivered) + 1 = Len(sent) /\ Len(got) = 0
          BY <1>3, <2>2, <4>2 DEF EndsAt
        <5> QED  BY <2>2, <5>1, <5>2, StreamFacts DEF Current, Awaited
      <4> QED  BY <4>1, <4>2
    <3> QED  BY <1>5, <1>6, <2>1, <3>1, <3>2 DEF ReaderOK
  <2>5. WriterOK'
    <3>1. stream'[Len(stream')] = [msg |-> m, part |-> m.size]
      BY <1>3, <1>5
    <3>2. EndsAt(sent[Len(sent)].size)'
      BY <1>5, <1>6, <2>2, <3>1 DEF EndsAt
    <3>3. \A s \in Threads : writing[s] # <<>> => s = t
      <4>1. CASE Locked
        BY <1>1, <2>1, <2>2, <4>1 DEF MutexOK
      <4>2. CASE ~Locked
        <5>1. direction = "commands" /\ Writers = CommandWriters
          BY <4>2 DEF Locked, TypeOK, Writers
        <5> QED  BY <5>1 DEF WritersOK, Alone
      <4> QED  BY <4>1, <4>2
    <3>4. \A s \in Threads : writing'[s] = <<>>
      BY <1>1, <2>1, <3>3 DEF TypeOK
    <3> QED  BY <3>2, <3>4 DEF WriterOK
  <2>6. Reading'
    BY <1>6, <1>10 DEF Reading
  <2> QED  BY <1>8, <2>3, <2>4, <2>5, <2>6 DEF StreamOK
<1> QED  BY <1>9, <1>10

-----------------------------------------------------------------------------
\* The results

LEMMA StreamStep == TypeOK /\ MutexOK /\ WritersOK /\ SentOnce /\ Alone /\ StreamOK /\ [Next]_vars => StreamOK'
<1> SUFFICES ASSUME TypeOK, MutexOK, WritersOK, SentOnce, Alone, StreamOK, [Next]_vars PROVE StreamOK'
  OBVIOUS
<1>1. CASE UNCHANGED vars
  BY <1>1, StreamSame DEF vars, writerVars
<1> QED  BY <1>1, HeaderStream, BodyStream, FailsStream, CloseStream, ReadHeaderStream, ReadBodyStream, EndStream
         DEF Next, Write, Read

LEMMA Invariance == Spec => []IInv
<1>1. Init => IInv
  <2>1. ASSUME Init PROVE MutexOK /\ WritersOK /\ SentOnce
    <3>1. DOMAIN sent = {} /\ \A t \in Threads : writing[t] = <<>>
      <4>1. sent = <<>> /\ \A t \in Threads : writing[t] = <<>>
        BY <2>1 DEF Init
      <4>2. DOMAIN sent = 1..0
        BY <4>1, EmptySeq, LenProperties
      <4> QED  BY <4>1, <4>2
    <3> QED  BY <3>1 DEF MutexOK, WritersOK, SentOnce
  <2> QED  BY <2>1, TypeInit, InitStream DEF IInv
<1>2. IInv /\ [Next]_vars => IInv'
  <2> SUFFICES ASSUME IInv, [Next]_vars PROVE IInv'
    OBVIOUS
  <2>1. direction' = direction
    BY DEF Next, Write, WriteHeader, WriteBody, WriteFails, Close, Read, ReadHeader, ReadBody, EndOfStream, vars
  <2>2. Alone' <=> Alone
    BY <2>1 DEF Alone
  <2> QED  BY <2>2, TypeStep, WritersStep, SentStep, StreamStep DEF IInv
<1> QED  BY <1>1, <1>2, PTL DEF Spec

\* The frames of any number of threads of the server, written under the
\* client's mutex, come out of the stream whole, once and in the order they were
\* sent, until a body is cut short (gst_debugserver_tcp_send_packet,
\* TcpClient::read_data).
THEOREM FramesInOrder == Spec => [](direction = "frames" => DeliveredInOrder)
<1>1. IInv => (direction = "frames" => DeliveredInOrder)
  BY DEF IInv, Alone, StreamOK, DeliveredOK, DeliveredInOrder
<1> QED  BY <1>1, Invariance, PTL

\* In both directions, when one thread of the debugger writes the commands,
\* which take no lock (TcpClient::send_command).
THEOREM InOrder ==
  ASSUME \A s, t \in CommandWriters : s = t
  PROVE  Spec => []DeliveredInOrder
<1>1. IInv => DeliveredInOrder
  BY DEF IInv, Alone, StreamOK, DeliveredOK, DeliveredInOrder
<1> QED  BY <1>1, Invariance, PTL

\* Commands of at most the size of the server's buffer, written by one thread
\* and not cut short, never trip the assertion of gst_debugserver_tcp_run.
THEOREM FitsWhenWhole ==
  ASSUME \A s, t \in CommandWriters : s = t, \A size \in Sizes : size <= Limit
  PROVE  Spec => []UncutBodyFits
<1>1. Init => UncutBodyFits
  BY DEF Init, UncutBodyFits, BodyFitsTheBuffer
<1>2. IInv /\ UncutBodyFits /\ [Next]_vars => UncutBodyFits'
  <2> SUFFICES ASSUME IInv, UncutBodyFits, [Next]_vars, ~cut' PROVE reader' # "aborted"
    BY DEF UncutBodyFits, BodyFitsTheBuffer
  <2>1. ~cut
    BY DEF Next, Write, WriteHeader, WriteBody, WriteFails, Close, Read, ReadHeader, ReadBody, EndOfStream, vars
  <2>2. reader # "aborted"
    BY <2>1 DEF UncutBodyFits, BodyFitsTheBuffer
  <2>3. CASE ReadHeader
    <3>1. stream[1] = [msg |-> Current, part |-> 0] /\ Head(stream) = stream[1] /\ Current \in Message
      <4>1. reader = "header" /\ stream # <<>> /\ ReaderOK
        BY <2>1, <2>3 DEF ReadHeader, IInv, Alone, StreamOK, Reading
      <4>2. stream[1] = [msg |-> Current, part |-> 0] /\ Len(delivered) < Len(sent)
        BY <4>1 DEF ReaderOK, Awaited
      <4>3. Current \in Message
        BY <4>2, StreamFacts DEF IInv, Current
      <4> QED  BY <4>1, <4>2, <4>3, StreamIsList DEF IInv, TypeOK
    <3>2. Current.size <= Limit /\ Current.size \in Nat
      <4>1. Current.size \in Sizes
        BY <3>1 DEF Message
      <4> QED  BY <3>1, <4>1, MessageFacts
    <3>3. SizeOf(Head(stream)) = {Current.size}
      BY <3>1 DEF SizeOf
    <3> QED  BY <2>2, <2>3, <3>2, <3>3, UnitsAssumption DEF ReadHeader
  <2>4. CASE ReadBody \/ EndOfStream
    BY <2>2, <2>4 DEF ReadBody, EndOfStream
  <2>5. ASSUME UNCHANGED reader PROVE reader' # "aborted"
    BY <2>2, <2>5
  <2> QED  BY <2>3, <2>4, <2>5
           DEF Next, Write, WriteHeader, WriteBody, WriteFails, Close, Read, vars, readerVars
<1> QED  BY <1>1, <1>2, Invariance, PTL DEF Spec
=============================================================================
