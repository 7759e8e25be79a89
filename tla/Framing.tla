------------------------------ MODULE Framing ------------------------------
(***************************************************************************)
(* One direction of a connection: how messages become a stream of bytes    *)
(* and messages again.                                                     *)
(*                                                                         *)
(* A message is a header, its size, and a body of that many units.  The    *)
(* writer makes one call for each; the server holds the client's mutex     *)
(* around the two, the debugger holds nothing.  A socket that is           *)
(* full takes part of a body, and neither writer looks at how much it      *)
(* took.  The reader takes a header, then as many units as it says, and    *)
(* ignores that the stream may end before.                                 *)
(*                                                                         *)
(* Commands go to the server, which has a buffer for Limit units, asserts  *)
(* that a body fits and leaves on an empty one; frames go to the debugger, *)
(* which allocates what the header says.                                   *)
(***************************************************************************)
EXTENDS Integers, Sequences, SequencesExt

CONSTANTS
  CommandWriters, \* threads of the debugger that write commands
  FrameWriters, \* threads of the server that write frames
  Nobody,       \* owner of the free mutex
  Sizes,        \* sizes of bodies
  Limit,        \* size of the server's buffer for commands
  Capacity,     \* units the socket buffers
  MaxMessages,  \* bound: messages a thread writes
  Garbage       \* what is decoded from anything but the body of one message

Threads == CommandWriters \cup FrameWriters

ASSUME WritersAssumption == Nobody \notin Threads
ASSUME UnitsAssumption ==
  /\ Sizes \subseteq Nat \ {0}
  /\ Limit \in Nat /\ Capacity \in Nat \ {0} /\ MaxMessages \in Nat

Message == [by : Threads, no : 1..MaxMessages, size : Sizes]

ASSUME GarbageAssumption == Garbage \notin Message

\* Part 0 of a message is its header.
Unit == {u \in [msg : Message, part : Nat] : u.part <= u.msg.size}
Body(m) == [i \in 1..m.size |-> [msg |-> m, part |-> i]]

VARIABLES
  direction,  \* "commands" to the server or "frames" to the debugger, for good
  sent,       \* messages in the order of their headers
  writing,    \* writing[t]: the message whose header t has written, if any
  written,    \* written[t]: how many messages t has begun
  mutex,
  stream,     \* units between the two sockets
  closed,     \* the writing end has closed the connection
  reader,     \* "header", "body", "left" or "aborted"
  need, got,  \* in a body: units still to come, units read
  delivered,  \* what was decoded
  cut         \* a body was cut short by a full socket

writerVars == <<sent, writing, written, mutex>>
readerVars == <<reader, need, got, delivered>>
vars == <<writerVars, readerVars, stream, closed, cut, direction>>

Writers == IF direction = "commands" THEN CommandWriters ELSE FrameWriters

\* Header and body of a frame are written under one mutex.
Locked == direction = "frames"

Init ==
  /\ direction \in {"commands", "frames"}
  /\ sent = <<>> /\ delivered = <<>>
  /\ writing = [t \in Threads |-> <<>>]
  /\ written = [t \in Threads |-> 0]
  /\ mutex = Nobody
  /\ stream = <<>> /\ closed = FALSE /\ cut = FALSE
  /\ reader = "header" /\ need = 0 /\ got = <<>>

Room == Capacity - Len(stream)

-----------------------------------------------------------------------------
\* Writers

\* Mutant: the mutex is not taken.
WriteHeaderUnlocked(t) == \E size \in Sizes :
  LET m == [by |-> t, no |-> written[t] + 1, size |-> size] IN
  /\ ~closed /\ writing[t] = <<>> /\ written[t] < MaxMessages /\ Room > 0
  /\ stream' = Append(stream, [msg |-> m, part |-> 0])
  /\ sent' = Append(sent, m)
  /\ writing' = [writing EXCEPT ![t] = <<m>>]
  /\ written' = [written EXCEPT ![t] = @ + 1]
  /\ UNCHANGED <<direction, mutex, readerVars, closed, cut>>

WriteHeader(t) == \E size \in Sizes :
  LET m == [by |-> t, no |-> written[t] + 1, size |-> size] IN
  /\ ~closed
  /\ writing[t] = <<>> /\ written[t] < MaxMessages
  /\ Room > 0
  /\ Locked => mutex = Nobody
  /\ mutex' = IF Locked THEN t ELSE mutex
  /\ stream' = Append(stream, [msg |-> m, part |-> 0])
  /\ sent' = Append(sent, m)
  /\ writing' = [writing EXCEPT ![t] = <<m>>]
  /\ written' = [written EXCEPT ![t] = @ + 1]
  /\ UNCHANGED <<direction, readerVars, closed, cut>>

Release(t) == mutex' = IF Locked THEN Nobody ELSE mutex

WriteBody(t) == \E m \in Message :
  /\ ~closed
  /\ writing[t] = <<m>>
  /\ Locked => Room > 0
  /\ LET fits == IF m.size <= Room THEN m.size ELSE Room
     IN /\ stream' = stream \o SubSeq(Body(m), 1, fits)
        /\ cut' = (cut \/ fits < m.size)
  /\ writing' = [writing EXCEPT ![t] = <<>>]
  /\ Release(t)
  /\ UNCHANGED <<direction, sent, written, readerVars, closed>>

\* A write to a closed connection fails, and the rest is not written.
WriteFails(t) ==
  /\ closed
  /\ writing[t] # <<>>
  /\ writing' = [writing EXCEPT ![t] = <<>>]
  /\ Release(t)
  /\ UNCHANGED <<direction, sent, written, readerVars, stream, closed, cut>>

\* Closing may discard the end of what is under way.
Close ==
  /\ ~closed
  /\ closed' = TRUE
  /\ \E k \in 0..Len(stream) : stream' = SubSeq(stream, 1, k)
  /\ UNCHANGED <<direction, writerVars, readerVars, cut>>

-----------------------------------------------------------------------------
\* The reader: gst_debugserver_tcp_run, TcpClient::read_data

\* Any unit read as a header is a size: its own if it is one, else whatever
\* the bytes of a body make, a negative number included.
SizeOf(u) == IF u.part = 0 THEN {u.msg.size} ELSE -1..(Limit + 1)

\* The server leaves on an empty message, the debugger decodes it.
ReadHeader ==
  /\ reader = "header" /\ stream # <<>>
  /\ \E size \in SizeOf(Head(stream)) :
       \/ /\ size < 0 \/ (size = 0 /\ direction = "commands")
          /\ reader' = "left"
          /\ UNCHANGED <<need, got, delivered>>
       \/ /\ size = 0 /\ direction = "frames"
          /\ delivered' = Append(delivered, Garbage)
          /\ UNCHANGED <<reader, need, got>>
       \/ /\ size > Limit /\ direction = "commands"
          /\ reader' = "aborted"
          /\ UNCHANGED <<need, got, delivered>>
       \/ /\ size > 0 /\ (size <= Limit \/ direction = "frames")
          /\ reader' = "body" /\ need' = size /\ got' = <<>>
          /\ UNCHANGED delivered
  /\ stream' = Tail(stream)
  /\ UNCHANGED <<direction, writerVars, closed, cut>>

\* The body of one message, whole and alone, is decoded as that message.
Decoded(units) ==
  IF \E m \in Message : units = Body(m) THEN Head(units).msg ELSE Garbage

\* Mutant: a single read call is taken for the whole body.
ReadBodyOnce ==
  /\ reader = "body" /\ stream # <<>>
  /\ delivered' = Append(delivered, Decoded(<<Head(stream)>>))
  /\ stream' = Tail(stream)
  /\ reader' = "header" /\ need' = 0
  /\ UNCHANGED <<direction, writerVars, got, closed, cut>>

ReadBody ==
  /\ reader = "body" /\ stream # <<>>
  /\ stream' = Tail(stream)
  /\ got' = Append(got, Head(stream))
  /\ need' = need - 1
  /\ IF need = 1
     THEN /\ reader' = "header"
          /\ delivered' = Append(delivered, Decoded(got'))
     ELSE UNCHANGED <<reader, delivered>>
  /\ UNCHANGED <<direction, writerVars, closed, cut>>

\* The end of the stream is noticed in a header; in a body the buffer, with
\* what it held before, is decoded all the same.
EndOfStream ==
  /\ closed /\ stream = <<>>
  /\ \/ reader = "header" /\ reader' = "left" /\ UNCHANGED <<need, delivered>>
     \/ /\ reader = "body" /\ reader' = "header" /\ need' = 0
        /\ delivered' \in {delivered, Append(delivered, Garbage)}
  /\ UNCHANGED <<direction, writerVars, got, stream, closed, cut>>

-----------------------------------------------------------------------------
Write(t) == WriteHeader(t) \/ WriteBody(t) \/ WriteFails(t)
Read == ReadHeader \/ ReadBody \/ EndOfStream

Next == (\E t \in Writers : Write(t)) \/ Close \/ Read

Spec == Init /\ [][Next]_vars

\* The reader runs, and so does a thread that has begun a message.
Fairness == WF_vars(Read) /\ \A t \in Threads : SF_vars(WriteBody(t) \/ WriteFails(t))
FairSpec == Spec /\ Fairness

-----------------------------------------------------------------------------
\* Messages are decoded whole, once and in the order they were sent; only a
\* connection that breaks in the middle of a body can make up one thing at the
\* end.  Given up as soon as a socket was too full for a body.
DeliveredInOrder == ~cut => \A i \in DOMAIN delivered :
  \/ i <= Len(sent) /\ delivered[i] = sent[i]
  \/ closed /\ i = Len(delivered) /\ delivered[i] = Garbage

\* assert (size <= 1024) in gst_debugserver_tcp_run: whatever a debugger that
\* writes commands of at most that size does, the process of the pipeline goes on.
BodyFitsTheBuffer == reader # "aborted"

\* One writing thread whose bodies are not cut never trips the assertion.
UncutBodyFits == ~cut => BodyFitsTheBuffer

\* What was sent arrives, unless the connection breaks or a body is cut.
EverythingArrives == \A m \in Message :
  m \in ToSet(sent) ~> (m \in ToSet(delivered) \/ closed \/ cut)
=============================================================================
