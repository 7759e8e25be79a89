--------------------------- MODULE TcpServerProofs ---------------------------
(***************************************************************************)
(* The locks of the server do what they are there for, for any number of   *)
(* connections and streaming threads and sockets of any size.              *)
(***************************************************************************)
EXTENDS TcpServer, ListFacts

\* Between AddClient and FreeClient a client is in memory.
Alive == {"greet", "reading", "note", "body", "handle", "reply", "leave", "free"}

\* A client is in memory exactly while its thread is between the two, and
\* exactly then in the list, once; it is in no hub when it is freed.
ClientsOK ==
  /\ \A c \in Clients :
       /\ pc[c] # "streaming"
       /\ client[c] = "live" <=> pc[c] \in Alive
       /\ client[c] = "live" <=> \E i \in DOMAIN clients : clients[i] = c
       /\ c \in listeners => pc[c] \in Alive \ {"free"}
  /\ \A i, j \in DOMAIN clients : clients[i] = clients[j] => i = j

\* A round of sending holds its outer lock from beginning to end; a server thread
\* logs and replies only at certain places.
RoundsOK == \A t \in Threads :
  /\ job[t].via = "none" => job[t].at = Nobody /\ job[t].left = {}
  /\ job[t].via = "hub" => hooksMutex = t /\ (t \in Clients => pc[t] \in {"greet", "note", "bye"})
  /\ job[t].via = "all" => clientsMutex = t /\ t \notin Clients
  /\ job[t].via = "reply" => t \in Clients /\ pc[t] = "reply"

\* Whom it serves is what the outer lock protects, or the thread's own client.
ServesRightly(t) == \A c \in Clients :
  c = job[t].at \/ c \in job[t].left =>
    \/ job[t].via = "hub" /\ c \in listeners
    \/ job[t].via = "all" /\ client[c] = "live"
    \/ job[t].via = "reply" /\ c = t

TargetsOK == \A t \in Threads : ServesRightly(t)

\* The mutex of a client belongs to the thread that is writing to it.
MutexOK == \A t \in Threads : \A c \in Clients : clientMutex[c] = t <=> job[t].at = c

\* A connection that its peer has closed takes nothing.
ClosedOK == \A c \in Clients : peer[c] = "closed" => socket[c] = <<>>

IInv == TypeOK /\ ClientsOK /\ RoundsOK /\ TargetsOK /\ MutexOK /\ ClosedOK /\ NoTornPacket
-----------------------------------------------------------------------------
\* What a step does to the sending of threads.

IsRound(r, via, left) == r.via = via /\ r.left = left /\ r.at = Nobody
OthersKeep(t) == job' \in [Threads -> Job] /\ \A u \in Threads \ {t} : job'[u] = job[u]

LEMMA RoundBegins ==
  ASSUME TypeOK, NEW t \in Threads, NEW via \in {"hub", "all", "reply"}, NEW left \in SUBSET Clients,
         job' = [job EXCEPT ![t] = [Idle EXCEPT !.via = via, !.left = left]]
  PROVE  OthersKeep(t) /\ IsRound(job'[t], via, left)
<1> DEFINE new == [Idle EXCEPT !.via = via, !.left = left]
<1>1. new \in Job /\ IsRound(new, via, left)
  BY DEF IsRound, Idle, Job
<1> HIDE DEF new
<1>2. job \in [Threads -> Job] /\ job' = [job EXCEPT ![t] = new]
  BY DEF TypeOK, new
<1> QED  BY <1>1, <1>2 DEF OthersKeep

LEMMA HubRoundBegins ==
  ASSUME TypeOK, NEW t \in Threads, BeginHubSend(t)
  PROVE  /\ OthersKeep(t) /\ \E left \in SUBSET listeners : IsRound(job'[t], "hub", left)
         /\ hooksMutex = Nobody /\ hooksMutex' = t /\ UNCHANGED <<clientsMutex, clientMutex>>
<1>1. PICK left \in SUBSET listeners :
        job' = [job EXCEPT ![t] = [Idle EXCEPT !.via = "hub", !.left = left]]
  BY DEF BeginHubSend
<1>2. left \in SUBSET Clients
  BY DEF TypeOK
<1> QED  BY <1>1, <1>2, RoundBegins DEF BeginHubSend

LEMMA BroadcastBegins ==
  ASSUME TypeOK, NEW t \in Threads, BeginBroadcast(t)
  PROVE  /\ OthersKeep(t) /\ IsRound(job'[t], "all", ToSet(clients))
         /\ clientsMutex = Nobody /\ clientsMutex' = t /\ UNCHANGED <<hooksMutex, clientMutex>>
<1>1. ToSet(clients) \in SUBSET Clients
  BY DEF TypeOK, ToSet
<1> QED  BY <1>1, RoundBegins DEF BeginBroadcast

LEMMA ReplyBegins ==
  ASSUME TypeOK, NEW c \in Clients, BeginReply(c)
  PROVE  OthersKeep(c) /\ IsRound(job'[c], "reply", {c}) /\ UNCHANGED locks
<1>1. c \in Threads /\ {c} \in SUBSET Clients
  BY DEF Threads
<1> QED  BY <1>1, RoundBegins DEF BeginReply

LEMMA ClientLocked ==
  ASSUME TypeOK, NEW t \in Threads, LockClient(t)
  PROVE  /\ OthersKeep(t) /\ job'[t].via = job[t].via /\ job[t].via # "none" /\ job[t].at = Nobody
         /\ \E c \in job[t].left :
              /\ c \in Clients /\ clientMutex[c] = Nobody
              /\ clientMutex' = [clientMutex EXCEPT ![c] = t]
              /\ job'[t].left = job[t].left \ {c} /\ job'[t].at = c /\ job'[t].half = "header"
<1>1. PICK c \in Clients :
        /\ c \in job[t].left /\ clientMutex[c] = Nobody
        /\ clientMutex' = [clientMutex EXCEPT ![c] = t]
        /\ job' = [job EXCEPT ![t].left = @ \ {c}, ![t].at = c, ![t].half = "header"]
  BY DEF LockClient, NextTarget
<1>2. /\ job \in [Threads -> Job]
      /\ job' = [job EXCEPT ![t].left = @ \ {c}, ![t].at = c, ![t].half = "header"]
  BY <1>1 DEF TypeOK
<1>3. OthersKeep(t)
  <2> DEFINE next == [job[t] EXCEPT !.left = @ \ {c}, !.at = c, !.half = "header"]
  <2>1. next \in Job
    BY <1>2 DEF Job
  <2>2. job' = [job EXCEPT ![t] = next]
    BY <1>2
  <2>3. job \in [Threads -> Job]
    BY <1>2
  <2> HIDE DEF next
  <2>4. job' \in [Threads -> Job] /\ \A u \in Threads \ {t} : job'[u] = job[u]
    BY <2>1, <2>2, <2>3
  <2> QED  BY <2>4 DEF OthersKeep
<1>4. /\ job'[t].left = job[t].left \ {c} /\ job'[t].at = c /\ job'[t].half = "header"
      /\ job'[t].via = job[t].via
  BY <1>2 DEF Job
<1> QED  BY <1>1, <1>3, <1>4 DEF LockClient, Sending

LEMMA ClientUnlocked ==
  ASSUME TypeOK, NEW t \in Threads, NEW ok \in BOOLEAN, UnlockClient(t, ok)
  PROVE  /\ OthersKeep(t) /\ clientMutex' = [clientMutex EXCEPT ![job[t].at] = Nobody]
         /\ job'[t].at = Nobody /\ job'[t].via = job[t].via /\ job'[t].left \subseteq job[t].left
<1> DEFINE left == IF ok \/ job[t].via # "all" THEN job[t].left ELSE {}
<1>1. job \in [Threads -> Job] /\ left \in SUBSET job[t].left /\ left \in SUBSET Clients
  BY DEF TypeOK, Job
<1>2. job' = [job EXCEPT ![t].at = Nobody, ![t].left = left]
  BY <1>1 DEF UnlockClient, Job
<1> HIDE DEF left
<1>3. OthersKeep(t)
  <2>1. job' \in [Threads -> Job]
    BY <1>1, <1>2, ZenonT(40) DEF Job
  <2>2. \A u \in Threads \ {t} : job'[u] = job[u]
    BY <1>1, <1>2
  <2> QED  BY <2>1, <2>2 DEF OthersKeep
<1>4. job'[t].at = Nobody /\ job'[t].via = job[t].via /\ job'[t].left = left
  BY <1>1, <1>2 DEF Job
<1> QED  BY <1>1, <1>3, <1>4 DEF UnlockClient

\* A write fails, or it is the first or the second half of a packet.
LEMMA HalfWritten ==
  ASSUME TypeOK, NEW t \in Threads, WriteHalf(t)
  PROVE  /\ OthersKeep(t) /\ job[t].via # "none" /\ job[t].at \in Clients
         /\ job'[t].via = job[t].via /\ job'[t].left \subseteq job[t].left
         /\ LET c == job[t].at
                new == [half |-> job[t].half, by |-> t]
            IN \/ /\ peer[c] = "closed" /\ UNCHANGED socket
                  /\ job'[t].at = Nobody /\ clientMutex' = [clientMutex EXCEPT ![c] = Nobody]
               \/ /\ peer[c] = "open" /\ socket' = [socket EXCEPT ![c] = Append(@, new)]
                  /\ job[t].half = "header" /\ UNCHANGED clientMutex
                  /\ job'[t].at = c /\ job'[t].half = "body"
               \/ /\ peer[c] = "open" /\ socket' = [socket EXCEPT ![c] = Append(@, new)]
                  /\ job[t].half = "body" /\ clientMutex' = [clientMutex EXCEPT ![c] = Nobody]
                  /\ job'[t].at = Nobody
<1>1. job \in [Threads -> Job] /\ job[t] \in Job
  BY DEF TypeOK
<1>2. job[t].at \in Clients /\ job[t].at # Nobody /\ job[t].via # "none" /\ job[t].half \in {"header", "body"}
  BY <1>1 DEF WriteHalf, Sending, Job
<1> DEFINE c == job[t].at
           new == [half |-> job[t].half, by |-> t]
<1>3. CASE peer[c] = "closed" /\ UnlockClient(t, FALSE) /\ UNCHANGED socket
  BY <1>2, <1>3, ClientUnlocked
<1>4. CASE /\ peer[c] = "open" /\ socket' = [socket EXCEPT ![c] = Append(@, new)]
           /\ job[t].half = "header" /\ job' = [job EXCEPT ![t].half = "body"] /\ UNCHANGED clientMutex
  <2>1. OthersKeep(t)
    BY <1>1, <1>4 DEF OthersKeep, Job
  <2>2. /\ job'[t].via = job[t].via /\ job'[t].left = job[t].left
        /\ job'[t].at = job[t].at /\ job'[t].half = "body"
    BY <1>1, <1>4 DEF Job
  <2> QED  BY <1>2, <1>4, <2>1, <2>2
<1>5. CASE /\ peer[c] = "open" /\ socket' = [socket EXCEPT ![c] = Append(@, new)]
           /\ job[t].half # "header" /\ UnlockClient(t, TRUE)
  <2>1. job[t].half = "body"
    BY <1>2, <1>5
  <2>2. OthersKeep(t) /\ clientMutex' = [clientMutex EXCEPT ![c] = Nobody]
        /\ job'[t].via = job[t].via /\ job'[t].left \subseteq job[t].left /\ job'[t].at = Nobody
    BY <1>2, <1>5, ClientUnlocked
  <2> QED  BY <1>2, <1>5, <2>1, <2>2
<1>6. \/ peer[c] = "closed" /\ UnlockClient(t, FALSE) /\ UNCHANGED socket
      \/ /\ peer[c] = "open" /\ socket' = [socket EXCEPT ![c] = Append(@, new)]
         /\ IF job[t].half = "header"
            THEN job' = [job EXCEPT ![t].half = "body"] /\ UNCHANGED clientMutex
            ELSE UnlockClient(t, TRUE)
  BY DEF WriteHalf
<1> QED  BY <1>3, <1>4, <1>5, <1>6

LEMMA RoundEnds ==
  ASSUME TypeOK, NEW t \in Threads, EndSend(t)
  PROVE  /\ OthersKeep(t) /\ job'[t] = Idle /\ UNCHANGED <<clientMutex, socket, lists, peers>>
         /\ job[t].via # "none" /\ job[t].at = Nobody /\ pc' = [pc EXCEPT ![t] = After(pc[t])]
         /\ hooksMutex' = IF job[t].via = "hub" THEN Nobody ELSE hooksMutex
         /\ clientsMutex' = IF job[t].via = "all" THEN Nobody ELSE clientsMutex
<1>1. Idle \in Job
  BY DEF Idle, Job
<1>2. OthersKeep(t) /\ job'[t] = Idle
  <2> HIDE DEF Idle
  <2> QED  BY <1>1 DEF EndSend, OthersKeep, TypeOK
<1> QED  BY <1>2 DEF EndSend, Sending, Goto

-----------------------------------------------------------------------------
\* The types.

LEMMA TypeInit == Init => TypeOK
BY ThreadsAssumption, SizesAssumption DEF Init, TypeOK, Threads, Idle, Job

LEMMA JobStaysTyped == ASSUME NEW t, OthersKeep(t) PROVE job' \in [Threads -> Job]
BY DEF OthersKeep

\* The next place of a thread whose round is over.
LEMMA AfterIsAPlace ==
  ASSUME TypeOK, NEW t \in Threads, pc' = [pc EXCEPT ![t] = After(pc[t])]
  PROVE  pc' \in [Threads -> {"none", "new", "greet", "reading", "note", "body", "handle",
                             "reply", "leave", "free", "signal", "bye", "gone", "streaming"}]
<1> DEFINE Places == {"none", "new", "greet", "reading", "note", "body", "handle",
                      "reply", "leave", "free", "signal", "bye", "gone", "streaming"}
<1>1. After(pc[t]) \in Places
  BY DEF TypeOK, After
<1> QED  BY <1>1 DEF TypeOK

LEMMA TypeStep == TypeOK /\ Next => TypeOK'
<1> SUFFICES ASSUME TypeOK, Next PROVE TypeOK'
  OBVIOUS
<1>0. \A c \in Clients : c \in Threads
  BY DEF Threads
<1>1. ASSUME NEW c \in Clients, Accept(c) PROVE TypeOK'
  BY <1>0, <1>1 DEF TypeOK, Accept, Goto, locks, lists
<1>2. ASSUME NEW c \in Clients, PeerBeginsCommand(c) PROVE TypeOK'
  <2>1. commands' \in [Clients -> 0..MaxCommands]
    BY <1>2, SizesAssumption DEF TypeOK, PeerBeginsCommand
  <2> QED  BY <1>2, <2>1 DEF TypeOK, PeerBeginsCommand, locks, lists
<1>3. ASSUME NEW c \in Clients, PeerEndsCommand(c) PROVE TypeOK'
  BY <1>3 DEF TypeOK, PeerEndsCommand, locks, lists
<1>4. ASSUME NEW c \in Clients, PeerReads(c) \/ PeerCloses(c) PROVE TypeOK'
  <2> DEFINE Half == [half : {"header", "body"}, by : Threads]
  <2>1. socket \in [Clients -> Seq(Half)] /\ socket[c] \in Seq(Half)
    BY DEF TypeOK
  <2>2. socket[c] # <<>> => Tail(socket[c]) \in Seq(Half)
    BY <2>1, HeadTailProperties
  <2>3. <<>> \in Seq(Half)
    BY EmptySeq
  <2> HIDE DEF Half
  <2>4. socket' \in [Clients -> Seq(Half)]
    BY <1>4, <2>1, <2>2, <2>3 DEF PeerReads, PeerCloses
  <2>5. socket' \in [Clients -> Seq([half : {"header", "body"}, by : Threads])]
    BY <2>4 DEF Half
  <2>6. CASE PeerReads(c)
    BY <2>5, <2>6 DEF TypeOK, PeerReads, locks, lists, peers
  <2>7. CASE PeerCloses(c)
    BY <2>5, <2>7 DEF TypeOK, PeerCloses, locks, lists
  <2> QED  BY <1>4, <2>6, <2>7
<1>5. ASSUME NEW c \in Clients, AddClient(c) PROVE TypeOK'
  <2>1. clients' \in Seq(Clients)
    BY <1>5, AppendProperties DEF TypeOK, AddClient
  <2> QED  BY <1>0, <1>5, <2>1 DEF TypeOK, AddClient, Goto, locks, peers
<1>6. ASSUME NEW c \in Clients, ReadHeader(c) PROVE TypeOK'
  BY <1>0, <1>6, ZenonT(40) DEF TypeOK, ReadHeader, Goto, locks, lists, peers
<1>7. ASSUME NEW c \in Clients, ReadBody(c) PROVE TypeOK'
  BY <1>0, <1>7 DEF TypeOK, ReadBody, Goto, locks, lists
<1>8. ASSUME NEW c \in Clients, HandleHook(c) PROVE TypeOK'
  <2>1. job' \in [Threads -> Job] /\ UNCHANGED locks
    BY <1>8, ReplyBegins, JobStaysTyped DEF HandleHook
  <2>2. listeners' \subseteq Clients
    BY <1>8 DEF TypeOK, HandleHook
  <2> QED  BY <1>0, <1>8, <2>1, <2>2 DEF TypeOK, HandleHook, Goto, locks, peers
<1>9. ASSUME NEW c \in Clients, HandleOther(c) PROVE TypeOK'
  <2>1. BeginReply(c) \/ UNCHANGED <<job, locks>>
    BY <1>9 DEF HandleOther
  <2>2. job' \in [Threads -> Job] /\ UNCHANGED locks
    <3>1. CASE BeginReply(c)
      BY <3>1, ReplyBegins, JobStaysTyped
    <3>2. CASE UNCHANGED <<job, locks>>
      BY <3>2 DEF TypeOK
    <3> QED  BY <2>1, <3>1, <3>2
  <2>3. Goto(c, "reply") \/ Goto(c, "reading")
    BY <1>9 DEF HandleOther
  <2>4. UNCHANGED <<lists, socket, peers, finalizer, sends>>
    BY <1>9 DEF HandleOther
  <2> QED  BY <1>0, <2>2, <2>3, <2>4, ZenonT(40) DEF TypeOK, Goto, locks, lists, peers
<1>10. ASSUME NEW c \in Clients, LeaveHubs(c) \/ Signal(c) PROVE TypeOK'
  BY <1>0, <1>10 DEF TypeOK, LeaveHubs, Signal, Goto, locks, lists, peers
<1>11. ASSUME NEW c \in Clients, FreeClient(c) PROVE TypeOK'
  <2>1. clients' \in Seq(Clients)
    <3>1. PICK i \in 1..Len(clients) : clients' = RemoveAt(clients, i)
      BY <1>11, LenProperties DEF FreeClient, Unlist, TypeOK
    <3> QED  BY <3>1, RemoveAtProperties DEF TypeOK
  <2> QED  BY <1>0, <1>11, <2>1 DEF TypeOK, FreeClient, Goto, locks, peers
<1>12. ASSUME NEW c \in Clients, Log(c) PROVE TypeOK'
  <2>1. job' \in [Threads -> Job] /\ hooksMutex' \in Threads /\ UNCHANGED <<clientsMutex, clientMutex>>
    BY <1>0, <1>12, HubRoundBegins, JobStaysTyped DEF Log
  <2> QED  BY <1>12, <2>1 DEF TypeOK, Log, lists, peers
<1>13. ASSUME NEW s \in Streamers, Stream(s) PROVE TypeOK'
  <2>1. s \in Threads
    BY DEF Threads
  <2>2. /\ job' \in [Threads -> Job] /\ UNCHANGED clientMutex
        /\ hooksMutex' \in Threads \cup {Nobody} /\ clientsMutex' \in Threads \cup {Nobody}
    BY <1>13, <2>1, HubRoundBegins, BroadcastBegins, JobStaysTyped DEF Stream, TypeOK
  <2>3. sends' \in [Streamers -> 0..MaxSends]
    BY <1>13, SizesAssumption DEF TypeOK, Stream
  <2> QED  BY <1>13, <2>2, <2>3 DEF TypeOK, Stream, lists, peers
<1>14. ASSUME NEW t \in Threads, LockClient(t) PROVE TypeOK'
  <2>1. job' \in [Threads -> Job] /\ clientMutex' \in [Clients -> Threads \cup {Nobody}]
    BY <1>14, ClientLocked, JobStaysTyped DEF TypeOK
  <2> QED  BY <1>14, <2>1, ZenonT(40) DEF TypeOK, LockClient, lists, peers
<1>15. ASSUME NEW t \in Threads, WriteHalf(t) PROVE TypeOK'
  <2>1. job' \in [Threads -> Job] /\ clientMutex' \in [Clients -> Threads \cup {Nobody}]
    BY <1>15, HalfWritten, JobStaysTyped, ZenonT(40) DEF TypeOK
  <2>2. socket' \in [Clients -> Seq([half : {"header", "body"}, by : Threads])]
    <3> DEFINE Half == [half : {"header", "body"}, by : Threads]
               c == job[t].at
               new == [half |-> job[t].half, by |-> t]
    <3>1. socket \in [Clients -> Seq(Half)] /\ c \in Clients /\ new \in Half
      BY <1>15, HalfWritten DEF TypeOK, Job
    <3>2. Append(socket[c], new) \in Seq(Half)
      BY <3>1, AppendProperties
    <3>3. UNCHANGED socket \/ socket' = [socket EXCEPT ![c] = Append(@, new)]
      BY <1>15, HalfWritten
    <3> HIDE DEF Half, c, new
    <3>4. socket' \in [Clients -> Seq(Half)]
      BY <3>1, <3>2, <3>3
    <3> QED  BY <3>4 DEF Half
  <2> QED  BY <1>15, <2>1, <2>2 DEF TypeOK, WriteHalf, lists, peers
<1>16. ASSUME NEW t \in Threads, EndSend(t) PROVE TypeOK'
  <2>1. /\ job' \in [Threads -> Job] /\ UNCHANGED clientMutex
        /\ hooksMutex' \in Threads \cup {Nobody} /\ clientsMutex' \in Threads \cup {Nobody}
    BY <1>16, RoundEnds, JobStaysTyped DEF TypeOK
  <2>2. pc' = [pc EXCEPT ![t] = After(pc[t])]
    BY <1>16, RoundEnds
  <2> QED  BY <1>16, <2>1, <2>2, AfterIsAPlace DEF TypeOK, EndSend, lists, peers
<1>17. CASE FinalizeRound
  <2>1. clients \in Seq(Clients) /\ (clients # <<>> => Head(clients) \in Clients)
    BY HeadTailProperties DEF TypeOK
  <2>2. cancelled' \subseteq Clients
    BY <1>17, <2>1 DEF TypeOK, FinalizeRound
  <2> QED  BY <1>17, <2>2 DEF TypeOK, FinalizeRound, locks, peers
<1> QED
  BY <1>1, <1>2, <1>3, <1>4, <1>5, <1>6, <1>7, <1>8, <1>9, <1>10, <1>11, <1>12, <1>13, <1>14,
     <1>15, <1>16, <1>17
  DEF Next, PeerStep, ServerStep, SendStep

-----------------------------------------------------------------------------
\* What the outer locks protect.

LEMMA RoundsStep == TypeOK /\ RoundsOK /\ Next => RoundsOK'
<1> SUFFICES ASSUME TypeOK, RoundsOK, Next PROVE RoundsOK'
  OBVIOUS
<1> USE DEF RoundsOK
<1>0. (\A c \in Clients : c \in Threads) /\ (\A s \in Streamers : s \in Threads /\ s \notin Clients)
      /\ Nobody \notin Threads
  BY ThreadsAssumption DEF Threads
<1>1. ASSUME UNCHANGED <<pc, job, hooksMutex, clientsMutex>> PROVE RoundsOK'
  BY <1>1
<1>2. ASSUME NEW c \in Clients, pc[c] \notin {"greet", "note", "bye", "reply"}, NEW l, Goto(c, l),
             UNCHANGED <<job, hooksMutex, clientsMutex>>
      PROVE  RoundsOK'
  BY <1>0, <1>2 DEF Goto, TypeOK
<1>3. ASSUME NEW c \in Clients, pc[c] = "handle", Goto(c, "reply"), BeginReply(c)
      PROVE  RoundsOK'
  <2>1. OthersKeep(c) /\ IsRound(job'[c], "reply", {c}) /\ UNCHANGED <<hooksMutex, clientsMutex>>
    BY <1>3, ReplyBegins DEF locks
  <2> QED  BY <1>0, <1>3, <2>1 DEF OthersKeep, IsRound, Goto, TypeOK
<1>4. ASSUME NEW t \in Threads, ~Sending(t), BeginHubSend(t), UNCHANGED pc,
             t \in Clients => pc[t] \in {"greet", "note", "bye"}
      PROVE  RoundsOK'
  <2>1. PICK left : OthersKeep(t) /\ IsRound(job'[t], "hub", left)
                    /\ hooksMutex = Nobody /\ hooksMutex' = t /\ UNCHANGED clientsMutex
    BY <1>4, HubRoundBegins
  <2> QED  BY <1>0, <1>4, <2>1 DEF OthersKeep, IsRound
<1>5. ASSUME NEW s \in Streamers, ~Sending(s), BeginBroadcast(s), UNCHANGED pc
      PROVE  RoundsOK'
  <2>1. PICK left : OthersKeep(s) /\ IsRound(job'[s], "all", left)
                    /\ clientsMutex = Nobody /\ clientsMutex' = s /\ UNCHANGED hooksMutex
    BY <1>0, <1>5, BroadcastBegins
  <2> QED  BY <1>0, <1>5, <2>1 DEF OthersKeep, IsRound
<1>6. ASSUME NEW t \in Threads, OthersKeep(t), job'[t].via = job[t].via, job[t].via # "none",
             UNCHANGED <<pc, hooksMutex, clientsMutex>>
      PROVE  RoundsOK'
  BY <1>6 DEF OthersKeep
<1>7. ASSUME NEW t \in Threads, EndSend(t) PROVE RoundsOK'
  <2>1. /\ OthersKeep(t) /\ job'[t] = Idle /\ pc' = [pc EXCEPT ![t] = After(pc[t])]
        /\ hooksMutex' = IF job[t].via = "hub" THEN Nobody ELSE hooksMutex
        /\ clientsMutex' = IF job[t].via = "all" THEN Nobody ELSE clientsMutex
    BY <1>7, RoundEnds
  <2> QED  BY <1>0, <2>1 DEF OthersKeep, Idle, TypeOK
<1>8. ASSUME NEW c \in Clients, PeerStep(c) PROVE RoundsOK'
  BY <1>1, <1>2, <1>8 DEF PeerStep, Accept, PeerBeginsCommand, PeerEndsCommand, PeerReads,
                          PeerCloses, locks
<1>9. ASSUME NEW c \in Clients, ServerStep(c) PROVE RoundsOK'
  <2>1. CASE AddClient(c) \/ ReadHeader(c) \/ ReadBody(c) \/ LeaveHubs(c) \/ FreeClient(c) \/ Signal(c)
    BY <1>2, <2>1 DEF AddClient, ReadHeader, ReadBody, LeaveHubs, FreeClient, Signal, locks
  <2>2. CASE HandleHook(c)
    BY <1>3, <2>2 DEF HandleHook
  <2>3. CASE HandleOther(c)
    BY <1>2, <1>3, <2>3 DEF HandleOther, locks
  <2>4. CASE Log(c)
    BY <1>0, <1>4, <2>4 DEF Log
  <2> QED  BY <1>9, <2>1, <2>2, <2>3, <2>4 DEF ServerStep
<1>10. ASSUME NEW s \in Streamers, Stream(s) PROVE RoundsOK'
  BY <1>0, <1>4, <1>5, <1>10 DEF Stream
<1>11. ASSUME NEW t \in Threads, LockClient(t) \/ WriteHalf(t) PROVE RoundsOK'
  BY <1>6, <1>11, ClientLocked, HalfWritten DEF LockClient, WriteHalf
<1>12. CASE FinalizeRound
  BY <1>1, <1>12 DEF FinalizeRound, locks
<1> QED  BY <1>7, <1>8, <1>9, <1>10, <1>11, <1>12 DEF Next, SendStep

LEMMA ClientsStep == TypeOK /\ ClientsOK /\ Next => ClientsOK'
<1> SUFFICES ASSUME TypeOK, ClientsOK, Next PROVE ClientsOK'
  OBVIOUS
<1>0. \A c \in Clients : c \in Threads
  BY DEF Threads
<1>1. ASSUME UNCHANGED <<pc, clients, client, listeners>> PROVE ClientsOK'
  BY <1>1 DEF ClientsOK
<1>2. ASSUME NEW t \in Threads, NEW l, Goto(t, l), UNCHANGED <<clients, client>>,
             listeners' \subseteq listeners \cup (IF l = "reply" THEN {t} ELSE {}),
             t \in Clients => l # "streaming" /\ (l \in Alive <=> pc[t] \in Alive)
                              /\ (l = "free" => pc[t] = "free" \/ t \notin listeners')
      PROVE  ClientsOK'
  BY <1>0, <1>2 DEF ClientsOK, Goto, TypeOK, Alive
<1>3. ASSUME NEW c \in Clients, AddClient(c) PROVE ClientsOK'
  <2>1. clients \in Seq(Clients) /\ clients' = Append(clients, c)
        /\ \A i \in DOMAIN clients : clients[i] # c
    BY <1>3 DEF AddClient, TypeOK, ClientsOK, Alive
  <2>2. \A i, j \in DOMAIN clients' : clients'[i] = clients'[j] => i = j
    BY <2>1, AppendToInjective DEF ClientsOK
  <2>3. \A d \in Clients : (\E i \in DOMAIN clients' : clients'[i] = d)
                           <=> (\E i \in DOMAIN clients : clients[i] = d) \/ d = c
    <3> TAKE d \in Clients
    <3>1. (\E i \in DOMAIN Append(clients, c) : Append(clients, c)[i] = d)
          <=> (\E i \in DOMAIN clients : clients[i] = d) \/ d = c
      BY <2>1, AppendAddsItem
    <3> QED  BY <2>1, <3>1
  <2>4. /\ pc' = [pc EXCEPT ![c] = "greet"] /\ client' = [client EXCEPT ![c] = "live"]
        /\ UNCHANGED listeners /\ pc[c] = "new"
    BY <1>3 DEF AddClient, Goto
  <2>5. pc'[c] = "greet" /\ client'[c] = "live" /\ c \notin listeners
        /\ \A d \in Clients \ {c} : pc'[d] = pc[d] /\ client'[d] = client[d]
    <3>1. c \notin listeners
      BY <2>4 DEF ClientsOK, Alive
    <3>2. pc'[c] = "greet" /\ \A d \in Clients \ {c} : pc'[d] = pc[d]
      BY <1>0, <2>4 DEF TypeOK
    <3>3. client'[c] = "live" /\ \A d \in Clients \ {c} : client'[d] = client[d]
      BY <2>4 DEF TypeOK
    <3> QED  BY <3>1, <3>2, <3>3
  <2>6. \A d \in Clients : /\ pc'[d] # "streaming"
                           /\ client'[d] = "live" <=> pc'[d] \in Alive
                           /\ client'[d] = "live" <=> \E i \in DOMAIN clients' : clients'[i] = d
                           /\ d \in listeners' => pc'[d] \in Alive \ {"free"}
    BY <2>3, <2>4, <2>5 DEF ClientsOK, Alive
  <2> QED  BY <2>2, <2>6 DEF ClientsOK, Alive
<1>4. ASSUME NEW c \in Clients, FreeClient(c) PROVE ClientsOK'
  <2>1. PICK i \in 1..Len(clients) : clients[i] = c /\ clients' = RemoveAt(clients, i)
    BY <1>4, LenProperties DEF FreeClient, Unlist, TypeOK
  <2>2. clients \in Seq(Clients) /\ \A j, k \in DOMAIN clients : clients[j] = clients[k] => j = k
    BY DEF ClientsOK, TypeOK
  <2>3. /\ \A j, k \in DOMAIN clients' : clients'[j] = clients'[k] => j = k
        /\ \A d \in Clients : (\E j \in DOMAIN clients' : clients'[j] = d)
                              <=> (\E j \in DOMAIN clients : clients[j] = d) /\ d # c
    <3>1. /\ \A j, k \in DOMAIN RemoveAt(clients, i) :
               RemoveAt(clients, i)[j] = RemoveAt(clients, i)[k] => j = k
          /\ \A x : (\E j \in DOMAIN RemoveAt(clients, i) : RemoveAt(clients, i)[j] = x)
                    <=> (\E j \in DOMAIN clients : clients[j] = x) /\ x # clients[i]
      BY <2>2, RemoveFromInjective
    <3> QED  BY <2>1, <3>1
  <2>4. /\ pc' = [pc EXCEPT ![c] = "signal"] /\ client' = [client EXCEPT ![c] = "freed"]
        /\ UNCHANGED listeners /\ pc[c] = "free"
    BY <1>4 DEF FreeClient, Goto
  <2>5. pc'[c] = "signal" /\ client'[c] = "freed" /\ c \notin listeners
        /\ \A d \in Clients \ {c} : pc'[d] = pc[d] /\ client'[d] = client[d]
    BY <1>0, <2>4 DEF TypeOK, ClientsOK
  <2>6. \A d \in Clients : /\ pc'[d] # "streaming"
                           /\ client'[d] = "live" <=> pc'[d] \in Alive
                           /\ client'[d] = "live" <=> \E j \in DOMAIN clients' : clients'[j] = d
                           /\ d \in listeners' => pc'[d] \in Alive \ {"free"}
    BY <2>3, <2>4, <2>5 DEF ClientsOK, Alive
  <2> QED  BY <2>3, <2>6 DEF ClientsOK, Alive
<1>5. ASSUME NEW c \in Clients, PeerStep(c) PROVE ClientsOK'
  BY <1>0, <1>1, <1>2, <1>5 DEF PeerStep, Accept, PeerBeginsCommand, PeerEndsCommand, PeerReads,
                                PeerCloses, lists, Alive
<1>6. ASSUME NEW c \in Clients, ServerStep(c) PROVE ClientsOK'
  <2>1. CASE ReadHeader(c) \/ ReadBody(c)
    BY <1>0, <1>2, <2>1 DEF ReadHeader, ReadBody, lists, Alive
  <2>2. CASE HandleHook(c) \/ HandleOther(c)
    BY <1>0, <1>2, <2>2 DEF HandleHook, HandleOther, lists, Alive
  <2>3. CASE LeaveHubs(c) \/ Signal(c)
    BY <1>0, <1>2, <2>3 DEF LeaveHubs, Signal, lists, Alive
  <2>4. CASE Log(c)
    BY <1>1, <2>4 DEF Log, lists
  <2> QED  BY <1>3, <1>4, <1>6, <2>1, <2>2, <2>3, <2>4 DEF ServerStep
<1>7. ASSUME NEW t \in Threads, SendStep(t) PROVE ClientsOK'
  <2>1. CASE EndSend(t)
    <3>1. Goto(t, After(pc[t])) /\ UNCHANGED lists
      BY <2>1 DEF EndSend
    <3>2. /\ After(pc[t]) \in Alive <=> pc[t] \in Alive
          /\ After(pc[t]) = "free" => pc[t] = "free"
          /\ After(pc[t]) = "streaming" => pc[t] = "streaming"
      BY DEF TypeOK, After, Alive
    <3>3. t \in Clients => pc[t] # "streaming"
      BY DEF ClientsOK
    <3> QED  BY <1>2, <3>1, <3>2, <3>3 DEF lists
  <2> QED  BY <1>1, <1>7, <2>1 DEF SendStep, LockClient, WriteHalf, lists
<1>8. CASE FinalizeRound \/ \E s \in Streamers : Stream(s)
  BY <1>1, <1>8 DEF FinalizeRound, Stream, lists
<1> QED  BY <1>5, <1>6, <1>7, <1>8 DEF Next

LEMMA TargetsStep == TypeOK /\ ClientsOK /\ RoundsOK /\ TargetsOK /\ Next => TargetsOK'
<1> SUFFICES ASSUME TypeOK, ClientsOK, RoundsOK, TargetsOK, Next PROVE TargetsOK'
  OBVIOUS
<1>0. (\A c \in Clients : c \in Threads) /\ (\A s \in Streamers : s \in Threads) /\ Nobody \notin Threads
  BY ThreadsAssumption DEF Threads
<1> DEFINE HubsKept == listeners \subseteq listeners' \/ hooksMutex = Nobody
           ListKept == (\A c \in Clients : client[c] = "live" => client'[c] = "live") \/ clientsMutex = Nobody
<1>1. ASSUME NEW u \in Threads, job'[u] = job[u], HubsKept, ListKept PROVE ServesRightly(u)'
  <2>1. ServesRightly(u) /\ (job[u].via = "hub" => hooksMutex = u) /\ (job[u].via = "all" => clientsMutex = u)
    BY DEF TargetsOK, RoundsOK
  <2> QED  BY <1>0, <1>1, <2>1 DEF ServesRightly
<1>2. ASSUME UNCHANGED job, HubsKept, ListKept PROVE TargetsOK'
  BY <1>1, <1>2 DEF TargetsOK
<1>3. ASSUME NEW t \in Threads, OthersKeep(t), HubsKept, ListKept, ServesRightly(t)' PROVE TargetsOK'
  BY <1>1, <1>3 DEF TargetsOK, OthersKeep
<1>4. ASSUME NEW c \in Clients, BeginReply(c), HubsKept, UNCHANGED client PROVE TargetsOK'
  <2>1. OthersKeep(c) /\ IsRound(job'[c], "reply", {c})
    BY <1>4, ReplyBegins
  <2>2. ServesRightly(c)'
    BY <2>1, ThreadsAssumption DEF IsRound, ServesRightly
  <2> QED  BY <1>0, <1>3, <1>4, <2>1, <2>2
<1>5. ASSUME NEW t \in Threads, BeginHubSend(t), UNCHANGED lists PROVE TargetsOK'
  <2>1. PICK left \in SUBSET listeners : OthersKeep(t) /\ IsRound(job'[t], "hub", left)
    BY <1>5, HubRoundBegins
  <2>2. ServesRightly(t)'
    BY <1>5, <2>1, ThreadsAssumption DEF IsRound, ServesRightly, lists
  <2> QED  BY <1>3, <1>5, <2>1, <2>2 DEF lists
<1>6. ASSUME NEW t \in Threads, BeginBroadcast(t), UNCHANGED lists PROVE TargetsOK'
  <2>1. OthersKeep(t) /\ IsRound(job'[t], "all", ToSet(clients))
    BY <1>6, BroadcastBegins
  <2>2. \A c \in Clients : c \in ToSet(clients) => client[c] = "live"
    BY DEF ToSet, ClientsOK
  <2>3. ServesRightly(t)'
    BY <1>6, <2>1, <2>2, ThreadsAssumption DEF IsRound, ServesRightly, lists
  <2> QED  BY <1>3, <1>6, <2>1, <2>3 DEF lists
<1>7. ASSUME NEW t \in Threads, OthersKeep(t), job'[t].via = job[t].via, UNCHANGED lists,
             job'[t].left \subseteq job[t].left, job'[t].at \in job[t].left \cup {job[t].at, Nobody}
      PROVE  TargetsOK'
  <2>1. ServesRightly(t)
    BY DEF TargetsOK
  <2>2. ServesRightly(t)'
    BY <1>7, <2>1, ThreadsAssumption DEF ServesRightly, lists
  <2> QED  BY <1>3, <1>7, <2>2 DEF lists
<1>8. ASSUME NEW c \in Clients, PeerStep(c) PROVE TargetsOK'
  BY <1>2, <1>8 DEF PeerStep, Accept, PeerBeginsCommand, PeerEndsCommand, PeerReads, PeerCloses, lists
<1>9. ASSUME NEW c \in Clients, ServerStep(c) PROVE TargetsOK'
  <2>1. CASE AddClient(c)
    <3>1. ListKept
      BY <2>1 DEF AddClient, TypeOK
    <3> QED  BY <1>2, <2>1, <3>1 DEF AddClient
  <2>2. CASE ReadHeader(c) \/ ReadBody(c) \/ LeaveHubs(c) \/ FreeClient(c) \/ Signal(c)
    BY <1>2, <2>2 DEF ReadHeader, ReadBody, LeaveHubs, FreeClient, Signal, lists
  <2>3. CASE HandleHook(c)
    BY <1>4, <2>3 DEF HandleHook
  <2>4. CASE HandleOther(c)
    BY <1>2, <1>4, <2>4 DEF HandleOther, lists
  <2>5. CASE Log(c)
    BY <1>0, <1>5, <2>5 DEF Log
  <2> QED  BY <1>9, <2>1, <2>2, <2>3, <2>4, <2>5 DEF ServerStep
<1>10. ASSUME NEW s \in Streamers, Stream(s) PROVE TargetsOK'
  BY <1>0, <1>5, <1>6, <1>10 DEF Stream
<1>11. ASSUME NEW t \in Threads, SendStep(t) PROVE TargetsOK'
  <2>1. CASE LockClient(t)
    <3>1. UNCHANGED lists
      BY <2>1 DEF LockClient
    <3> QED  BY <1>7, <2>1, <3>1, ClientLocked
  <2>2. CASE WriteHalf(t)
    <3>1. UNCHANGED lists
      BY <2>2 DEF WriteHalf
    <3> QED  BY <1>7, <2>2, <3>1, HalfWritten
  <2>3. CASE EndSend(t)
    <3>1. OthersKeep(t) /\ job'[t] = Idle /\ UNCHANGED lists
      BY <2>3, RoundEnds
    <3>2. ServesRightly(t)'
      BY <3>1, ThreadsAssumption DEF ServesRightly, Idle
    <3> QED  BY <1>3, <3>1, <3>2 DEF lists
  <2> QED  BY <1>11, <2>1, <2>2, <2>3 DEF SendStep
<1>12. CASE FinalizeRound
  BY <1>2, <1>12 DEF FinalizeRound
<1> QED  BY <1>8, <1>9, <1>10, <1>11, <1>12 DEF Next
-----------------------------------------------------------------------------
\* What the mutexes of the clients protect.

\* Where a thread is in no round, or about to begin one, it holds no client.
LEMMA HandlerIsIdle ==
  ASSUME TypeOK, RoundsOK, NEW c \in Clients, pc[c] = "handle"
  PROVE  job[c].at = Nobody
<1>1. c \in Threads /\ job[c].via \in {"none", "hub", "all", "reply"}
  BY DEF TypeOK, Threads, Job
<1> QED  BY <1>1 DEF RoundsOK

\* Every step but LockClient and WriteHalf leaves the mutexes of the clients
\* alone and the sending of every thread but one, which holds none of them.
LEMMA NoClientTouched ==
  ASSUME TypeOK, RoundsOK, Next,
         \A t \in Threads : ~LockClient(t) /\ ~WriteHalf(t)
  PROVE  /\ UNCHANGED clientMutex
         /\ \/ UNCHANGED job
            \/ \E t \in Threads : OthersKeep(t) /\ job[t].at = Nobody /\ job'[t].at = Nobody
<1> DEFINE Touched(t) == OthersKeep(t) /\ job[t].at = Nobody /\ job'[t].at = Nobody
<1>0. (\A c \in Clients : c \in Threads) /\ (\A s \in Streamers : s \in Threads)
  BY DEF Threads
<1>1. ASSUME NEW c \in Clients, pc[c] = "handle", BeginReply(c) PROVE Touched(c) /\ UNCHANGED clientMutex
  BY <1>1, HandlerIsIdle, ReplyBegins DEF IsRound, locks
<1>2. ASSUME NEW t \in Threads, ~Sending(t), BeginHubSend(t) \/ BeginBroadcast(t)
      PROVE  Touched(t) /\ UNCHANGED clientMutex
  BY <1>2, HubRoundBegins, BroadcastBegins DEF IsRound, RoundsOK, Sending
<1> HIDE DEF Touched
<1>3. ASSUME NEW t \in Threads, EndSend(t) PROVE Touched(t) /\ UNCHANGED clientMutex
  BY <1>3, RoundEnds DEF Idle, Touched
<1>4. ASSUME NEW c \in Clients, PeerStep(c) PROVE UNCHANGED <<job, clientMutex>>
  BY <1>4 DEF PeerStep, Accept, PeerBeginsCommand, PeerEndsCommand, PeerReads, PeerCloses, locks
<1>5. ASSUME NEW c \in Clients, ServerStep(c)
      PROVE  UNCHANGED clientMutex /\ (UNCHANGED job \/ Touched(c))
  <2>1. CASE AddClient(c) \/ ReadHeader(c) \/ ReadBody(c) \/ LeaveHubs(c) \/ FreeClient(c) \/ Signal(c)
    BY <2>1 DEF AddClient, ReadHeader, ReadBody, LeaveHubs, FreeClient, Signal, locks
  <2>2. CASE HandleHook(c) \/ HandleOther(c)
    BY <1>1, <2>2 DEF HandleHook, HandleOther, locks
  <2>3. CASE Log(c)
    BY <1>0, <1>2, <2>3 DEF Log
  <2> QED  BY <1>5, <2>1, <2>2, <2>3 DEF ServerStep
<1>6. ASSUME NEW s \in Streamers, Stream(s) PROVE Touched(s) /\ UNCHANGED clientMutex
  BY <1>0, <1>2, <1>6 DEF Stream
<1>7. ASSUME FinalizeRound PROVE UNCHANGED <<job, clientMutex>>
  BY <1>7 DEF FinalizeRound, locks
<1>8. /\ UNCHANGED clientMutex
      /\ UNCHANGED job \/ \E t \in Threads : Touched(t)
  <2>1. CASE \E c \in Clients : PeerStep(c) \/ ServerStep(c)
    BY <1>0, <1>4, <1>5, <2>1
  <2>2. CASE \E s \in Streamers : Stream(s)
    BY <1>0, <1>6, <2>2
  <2>3. CASE \E t \in Threads : EndSend(t)
    BY <1>3, <2>3
  <2>4. \/ \E c \in Clients : PeerStep(c) \/ ServerStep(c)
        \/ \E s \in Streamers : Stream(s)
        \/ \E t \in Threads : EndSend(t)
        \/ FinalizeRound
    BY DEF Next, SendStep
  <2>5. CASE FinalizeRound
    BY <1>7, <2>5
  <2> QED  BY <2>1, <2>2, <2>3, <2>4, <2>5
<1> QED  BY <1>8 DEF Touched

LEMMA MutexStep == TypeOK /\ RoundsOK /\ MutexOK /\ Next => MutexOK'
<1> SUFFICES ASSUME TypeOK, RoundsOK, MutexOK, Next PROVE MutexOK'
  OBVIOUS
<1>0. Nobody \notin Threads /\ Nobody \notin Clients /\ clientMutex \in [Clients -> Threads \cup {Nobody}]
  BY ThreadsAssumption DEF Threads, TypeOK
<1>1. ASSUME NEW t \in Threads, LockClient(t) PROVE MutexOK'
  <2>1. PICK c \in Clients : /\ OthersKeep(t) /\ job[t].at = Nobody /\ clientMutex[c] = Nobody
                             /\ clientMutex' = [clientMutex EXCEPT ![c] = t] /\ job'[t].at = c
    BY <1>1, ClientLocked
  <2> QED  BY <1>0, <2>1 DEF MutexOK, OthersKeep
<1>2. ASSUME NEW t \in Threads, WriteHalf(t) PROVE MutexOK'
  <2>1. /\ OthersKeep(t) /\ job[t].at \in Clients
        /\ \/ job'[t].at = job[t].at /\ UNCHANGED clientMutex
           \/ job'[t].at = Nobody /\ clientMutex' = [clientMutex EXCEPT ![job[t].at] = Nobody]
    BY <1>2, HalfWritten
  <2> QED  BY <1>0, <2>1 DEF MutexOK, OthersKeep
<1>3. CASE \A t \in Threads : ~LockClient(t) /\ ~WriteHalf(t)
  <2>1. /\ UNCHANGED clientMutex
        /\ \/ UNCHANGED job
           \/ \E t \in Threads : OthersKeep(t) /\ job[t].at = Nobody /\ job'[t].at = Nobody
    BY <1>3, NoClientTouched
  <2> QED  BY <1>0, <2>1 DEF MutexOK, OthersKeep
<1> QED  BY <1>1, <1>2, <1>3


\* What a step does to the socket of a client whose mutex stays as it is.
LEMMA SocketsStep ==
  ASSUME TypeOK, Next, \A t \in Threads : ~WriteHalf(t)
  PROVE  \/ UNCHANGED socket
         \/ \E c \in Clients :
              /\ \/ socket[c] # <<>> /\ socket' = [socket EXCEPT ![c] = Tail(@)]
                 \/ socket' = [socket EXCEPT ![c] = <<>>]
              /\ UNCHANGED <<job, clientMutex>>
<1>1. ASSUME NEW c \in Clients, PeerStep(c) PROVE UNCHANGED socket \/ PeerReads(c) \/ PeerCloses(c)
  BY <1>1 DEF PeerStep, Accept, PeerBeginsCommand, PeerEndsCommand
<1>2. ASSUME NEW c \in Clients, ServerStep(c) PROVE UNCHANGED socket
  BY <1>2 DEF ServerStep, AddClient, ReadHeader, ReadBody, HandleHook, HandleOther, LeaveHubs,
              FreeClient, Signal, Log
<1>3. ASSUME NEW t \in Threads, LockClient(t) \/ EndSend(t) PROVE UNCHANGED socket
  BY <1>3 DEF LockClient, EndSend
<1>4. ASSUME FinalizeRound \/ \E s \in Streamers : Stream(s) PROVE UNCHANGED socket
  BY <1>4 DEF FinalizeRound, Stream
<1>5. UNCHANGED socket \/ \E c \in Clients : PeerReads(c) \/ PeerCloses(c)
  BY <1>1, <1>2, <1>3, <1>4 DEF Next, SendStep
<1> QED  BY <1>5 DEF PeerReads, PeerCloses, locks

LEMMA ClosedStep == TypeOK /\ ClosedOK /\ Next => ClosedOK'
<1> SUFFICES ASSUME TypeOK, ClosedOK, Next PROVE ClosedOK'
  OBVIOUS
<1>1. peer \in [Clients -> {"absent", "open", "closed"}] /\ DOMAIN socket = Clients
  BY DEF TypeOK
<1>2. ASSUME NEW t \in Threads, WriteHalf(t) PROVE ClosedOK'
  <2>1. UNCHANGED peer
    BY <1>2 DEF WriteHalf, peers
  <2>2. /\ job[t].at \in Clients
        /\ UNCHANGED socket \/ (peer[job[t].at] = "open" /\ \E s : socket' = [socket EXCEPT ![job[t].at] = s])
    BY <1>2, HalfWritten
  <2> QED  BY <1>1, <2>1, <2>2 DEF ClosedOK
<1>3. CASE \E c \in Clients : PeerStep(c)
  <2>1. PICK c \in Clients : PeerStep(c)
    BY <1>3
  <2>2. CASE Accept(c) \/ PeerBeginsCommand(c) \/ PeerEndsCommand(c)
    BY <1>1, <2>2 DEF Accept, PeerBeginsCommand, PeerEndsCommand, ClosedOK
  <2>3. CASE PeerReads(c) \/ PeerCloses(c)
    BY <1>1, <2>3 DEF PeerReads, PeerCloses, peers, ClosedOK
  <2> QED  BY <2>1, <2>2, <2>3 DEF PeerStep
<1>4. CASE \A c \in Clients : ~PeerStep(c)
  <2>1. ASSUME NEW c \in Clients, ServerStep(c) PROVE UNCHANGED <<peer, socket>>
    BY <2>1 DEF ServerStep, AddClient, ReadHeader, ReadBody, HandleHook, HandleOther, LeaveHubs,
                FreeClient, Signal, Log, peers
  <2>2. ASSUME NEW t \in Threads, LockClient(t) \/ EndSend(t) PROVE UNCHANGED <<peer, socket>>
    BY <2>2 DEF LockClient, EndSend, peers
  <2>3. ASSUME FinalizeRound \/ \E s \in Streamers : Stream(s) PROVE UNCHANGED <<peer, socket>>
    BY <2>3 DEF FinalizeRound, Stream, peers
  <2>4. UNCHANGED <<peer, socket>> \/ \E t \in Threads : WriteHalf(t)
    BY <1>4, <2>1, <2>2, <2>3 DEF Next, SendStep
  <2> QED  BY <1>2, <2>4 DEF ClosedOK
<1> QED  BY <1>3, <1>4
-----------------------------------------------------------------------------
\* Packets stay whole.

PacketsWhole(c) == \A i \in DOMAIN socket[c] :
  /\ socket[c][i].half = "header" /\ i < Len(socket[c]) =>
       socket[c][i + 1] = [half |-> "body", by |-> socket[c][i].by]
  /\ socket[c][i].half = "header" /\ i = Len(socket[c]) =>
       clientMutex[c] = socket[c][i].by /\ job[socket[c][i].by].half = "body"

LEMMA WholeMeansNotTorn == NoTornPacket <=> \A c \in Clients : PacketsWhole(c)
BY DEF NoTornPacket, PacketsWhole

LEMMA SocketIsList ==
  ASSUME TypeOK, NEW c \in Clients
  PROVE  /\ socket[c] \in Seq([half : {"header", "body"}, by : Threads])
         /\ DOMAIN socket[c] = 1..Len(socket[c]) /\ Len(socket[c]) \in Nat
         /\ \A i \in 1..Len(socket[c]) : socket[c][i].half \in {"header", "body"} /\ socket[c][i].by \in Threads
<1>1. socket[c] \in Seq([half : {"header", "body"}, by : Threads])
  BY DEF TypeOK
<1>2. /\ DOMAIN socket[c] = 1..Len(socket[c]) /\ Len(socket[c]) \in Nat
      /\ \A i \in 1..Len(socket[c]) : socket[c][i] \in [half : {"header", "body"}, by : Threads]
  BY <1>1, LenProperties, ElementOfSeq
<1> QED  BY <1>1, <1>2

\* A socket stays whole when a thread that does not hold its client sends
\* something else, and the owner of the client, if it has one, keeps it.
LEMMA WholeKept ==
  ASSUME TypeOK, MutexOK, NEW c \in Clients, PacketsWhole(c), socket'[c] = socket[c],
         clientMutex'[c] = clientMutex[c] \/ clientMutex[c] = Nobody,
         UNCHANGED job \/ \E t \in Threads : OthersKeep(t) /\ job[t].at # c
  PROVE  PacketsWhole(c)'
<1>0. Nobody \notin Threads
  BY ThreadsAssumption DEF Threads
<1> SUFFICES ASSUME NEW i \in DOMAIN socket[c], socket[c][i].half = "header", i = Len(socket[c])
             PROVE  clientMutex'[c] = socket[c][i].by /\ job'[socket[c][i].by].half = "body"
  BY DEF PacketsWhole
<1> DEFINE owner == socket[c][i].by
<1>1. owner \in Threads /\ clientMutex[c] = owner /\ job[owner].half = "body"
  BY SocketIsList DEF PacketsWhole
<1> HIDE DEF owner
<1>2. job[owner].at = c
  BY <1>1 DEF MutexOK
<1>3. job'[owner] = job[owner] /\ clientMutex'[c] = clientMutex[c]
  BY <1>0, <1>1, <1>2 DEF OthersKeep
<1> QED  BY <1>1, <1>3 DEF owner

\* What the peer has read is a part of the front.
LEMMA WholeAfterRead ==
  ASSUME TypeOK, NEW c \in Clients, PacketsWhole(c), socket[c] # <<>>, socket'[c] = Tail(socket[c]),
         UNCHANGED <<job, clientMutex>>
  PROVE  PacketsWhole(c)'
<1> DEFINE s == socket[c]
           new == Tail(s)
<1>1. DOMAIN s = 1..Len(s) /\ Len(s) \in Nat
  BY SocketIsList
<1>2. /\ DOMAIN new = 1..Len(new) /\ Len(new) = Len(s) - 1
      /\ \A i \in 1..Len(new) : new[i] = s[i + 1]
  <2>1. s \in Seq([half : {"header", "body"}, by : Threads]) /\ s # <<>>
    BY SocketIsList
  <2>2. /\ new \in Seq([half : {"header", "body"}, by : Threads]) /\ Len(new) = Len(s) - 1
        /\ \A i \in 1..Len(new) : new[i] = s[i + 1]
    BY <2>1, HeadTailProperties
  <2> QED  BY <2>2, LenProperties
<1> HIDE DEF s, new
<1>3. \A i \in DOMAIN new : /\ i + 1 \in DOMAIN s /\ new[i] = s[i + 1]
                            /\ (i = Len(new) <=> i + 1 = Len(s))
                            /\ (i < Len(new) => i + 1 < Len(s) /\ new[i + 1] = s[(i + 1) + 1])
  BY <1>1, <1>2
<1>4. socket[c] = s /\ socket'[c] = new /\ UNCHANGED <<job, clientMutex>>
  BY DEF s, new
<1> QED  BY <1>3, <1>4 DEF PacketsWhole


\* The halves a thread writes while it holds the client: a header is followed by
\* nothing but its body.
LEMMA WholeAfterHeader ==
  ASSUME TypeOK, MutexOK, NEW c \in Clients, PacketsWhole(c), NEW t \in Threads,
         job[t].at = c, job[t].half = "header", UNCHANGED clientMutex, job'[t].half = "body",
         socket'[c] = Append(socket[c], [half |-> "header", by |-> t])
  PROVE  PacketsWhole(c)'
<1> DEFINE s == socket[c]
           new == Append(s, [half |-> "header", by |-> t])
<1>1. /\ DOMAIN s = 1..Len(s) /\ Len(s) \in Nat /\ DOMAIN new = 1..(Len(s) + 1) /\ Len(new) = Len(s) + 1
      /\ \A i \in 1..Len(s) : new[i] = s[i]
      /\ new[Len(s) + 1] = [half |-> "header", by |-> t]
  BY SocketIsList, AppendProperties
<1>2. clientMutex[c] = t
  BY DEF MutexOK
<1>3. \A i \in DOMAIN s : s[i].half = "header" => i < Len(s)
  <2> SUFFICES ASSUME NEW i \in DOMAIN s, s[i].half = "header", i = Len(s) PROVE FALSE
    BY <1>1
  <2>1. clientMutex[c] = s[i].by /\ job[s[i].by].half = "body"
    BY DEF PacketsWhole
  <2> QED  BY <1>2, <2>1
<1>4. \A i \in DOMAIN s : s[i].half = "header" =>
        i < Len(s) /\ s[i + 1] = [half |-> "body", by |-> s[i].by]
  BY <1>3 DEF PacketsWhole
<1> HIDE DEF s, new
<1>5. \A i \in DOMAIN new :
        /\ new[i].half = "header" /\ i < Len(new) => new[i + 1] = [half |-> "body", by |-> new[i].by]
        /\ new[i].half = "header" /\ i = Len(new) =>
             clientMutex'[c] = new[i].by /\ job'[new[i].by].half = "body"
  <2> TAKE i \in DOMAIN new
  <2>1. CASE i \in 1..Len(s)
    <3>1. i \in DOMAIN s /\ new[i] = s[i] /\ i < Len(new) /\ (i < Len(s) => new[i + 1] = s[i + 1])
      BY <1>1, <2>1
    <3> QED  BY <1>1, <1>4, <3>1
  <2>2. CASE i = Len(s) + 1
    BY <1>1, <1>2, <2>2
  <2> QED  BY <1>1, <2>1, <2>2
<1>6. socket'[c] = new
  BY DEF new, s
<1> QED  BY <1>5, <1>6 DEF PacketsWhole

LEMMA WholeAfterBody ==
  ASSUME TypeOK, MutexOK, NEW c \in Clients, PacketsWhole(c), NEW t \in Threads, job[t].at = c,
         socket'[c] = Append(socket[c], [half |-> "body", by |-> t])
  PROVE  PacketsWhole(c)'
<1> DEFINE s == socket[c]
           new == Append(s, [half |-> "body", by |-> t])
<1>1. /\ DOMAIN s = 1..Len(s) /\ Len(s) \in Nat /\ DOMAIN new = 1..(Len(s) + 1) /\ Len(new) = Len(s) + 1
      /\ \A i \in 1..Len(s) : new[i] = s[i]
      /\ new[Len(s) + 1] = [half |-> "body", by |-> t]
  BY SocketIsList, AppendProperties
<1>2. clientMutex[c] = t
  BY DEF MutexOK
<1>3. \A i \in DOMAIN s : s[i].half = "header" =>
        /\ i < Len(s) => s[i + 1] = [half |-> "body", by |-> s[i].by]
        /\ i = Len(s) => s[i].by = t
  BY <1>2 DEF PacketsWhole
<1> HIDE DEF s, new
<1>4. \A i \in DOMAIN new : new[i].half = "header" =>
        i < Len(new) /\ new[i + 1] = [half |-> "body", by |-> new[i].by]
  <2> TAKE i \in DOMAIN new
  <2>1. CASE i \in 1..Len(s) /\ i < Len(s)
    <3>1. i \in DOMAIN s /\ new[i] = s[i] /\ i < Len(new) /\ new[i + 1] = s[i + 1]
      BY <1>1, <2>1
    <3> QED  BY <1>3, <2>1, <3>1
  <2>2. CASE i \in 1..Len(s) /\ i = Len(s)
    <3>1. i \in DOMAIN s /\ new[i] = s[i] /\ i < Len(new) /\ new[i + 1] = [half |-> "body", by |-> t]
      BY <1>1, <2>2
    <3> QED  BY <1>3, <2>2, <3>1
  <2>3. CASE i = Len(s) + 1
    BY <1>1, <2>3
  <2> QED  BY <1>1, <2>1, <2>2, <2>3
<1>5. socket'[c] = new
  BY DEF new, s
<1>6. \A i \in DOMAIN new : ~(i < Len(new) /\ i = Len(new))
  BY <1>1
<1> QED  BY <1>4, <1>5, <1>6 DEF PacketsWhole

LEMMA PacketStep ==
  TypeOK /\ RoundsOK /\ MutexOK /\ ClosedOK /\ NoTornPacket /\ Next => NoTornPacket'
<1> SUFFICES ASSUME TypeOK, RoundsOK, MutexOK, ClosedOK, NoTornPacket, Next,
                    NEW c \in Clients
             PROVE  PacketsWhole(c)'
  BY DEF NoTornPacket, PacketsWhole
<1>0. /\ PacketsWhole(c) /\ Nobody \notin Threads /\ Nobody # c
      /\ clientMutex \in [Clients -> Threads \cup {Nobody}] /\ DOMAIN socket = Clients
  BY WholeMeansNotTorn, ThreadsAssumption DEF TypeOK, Threads
<1>1. ASSUME NEW t \in Threads, LockClient(t) PROVE PacketsWhole(c)'
  <2>1. UNCHANGED socket
    BY <1>1 DEF LockClient
  <2>2. /\ OthersKeep(t) /\ job[t].at = Nobody
        /\ \E d \in Clients : clientMutex[d] = Nobody /\ clientMutex' = [clientMutex EXCEPT ![d] = t]
    BY <1>1, ClientLocked
  <2>3. clientMutex'[c] = clientMutex[c] \/ clientMutex[c] = Nobody
    BY <1>0, <2>2
  <2> QED  BY <1>0, <2>1, <2>2, <2>3, WholeKept
<1>2. ASSUME NEW t \in Threads, WriteHalf(t) PROVE PacketsWhole(c)'
  <2> DEFINE new == [half |-> job[t].half, by |-> t]
  <2>1. /\ OthersKeep(t) /\ job[t].at \in Clients
        /\ \/ /\ peer[job[t].at] = "closed" /\ UNCHANGED socket
              /\ clientMutex' = [clientMutex EXCEPT ![job[t].at] = Nobody]
           \/ /\ socket' = [socket EXCEPT ![job[t].at] = Append(@, new)]
              /\ job[t].half = "header" /\ UNCHANGED clientMutex /\ job'[t].half = "body"
           \/ /\ socket' = [socket EXCEPT ![job[t].at] = Append(@, new)]
              /\ job[t].half = "body" /\ clientMutex' = [clientMutex EXCEPT ![job[t].at] = Nobody]
    BY <1>2, HalfWritten
  <2>2. CASE job[t].at # c
    <3>1. socket'[c] = socket[c] /\ clientMutex'[c] = clientMutex[c]
      BY <1>0, <2>1, <2>2
    <3> QED  BY <1>0, <2>1, <2>2, <3>1, WholeKept
  <2>3. CASE job[t].at = c /\ peer[c] = "closed" /\ UNCHANGED socket
    <3>1. socket'[c] = <<>>
      BY <2>3 DEF ClosedOK
    <3>2. DOMAIN socket'[c] = {}
      BY <3>1
    <3> QED  BY <3>2 DEF PacketsWhole
  <2>4. CASE /\ job[t].at = c /\ socket' = [socket EXCEPT ![job[t].at] = Append(@, new)]
             /\ job[t].half = "header" /\ UNCHANGED clientMutex /\ job'[t].half = "body"
    <3>1. socket'[c] = Append(socket[c], [half |-> "header", by |-> t])
      BY <1>0, <2>4
    <3> QED  BY <1>0, <2>4, <3>1, WholeAfterHeader
  <2>5. CASE /\ job[t].at = c /\ socket' = [socket EXCEPT ![job[t].at] = Append(@, new)]
             /\ job[t].half = "body"
    <3>1. socket'[c] = Append(socket[c], [half |-> "body", by |-> t])
      BY <1>0, <2>5
    <3> QED  BY <1>0, <2>5, <3>1, WholeAfterBody
  <2> QED  BY <2>1, <2>2, <2>3, <2>4, <2>5
<1>3. CASE \A t \in Threads : ~LockClient(t) /\ ~WriteHalf(t)
  <2>1. /\ UNCHANGED clientMutex
        /\ UNCHANGED job \/ \E t \in Threads : OthersKeep(t) /\ job[t].at = Nobody
    BY <1>3, NoClientTouched
  <2>2. CASE UNCHANGED socket
    BY <1>0, <2>1, <2>2, WholeKept
  <2>3. ASSUME NEW d \in Clients, socket[d] # <<>>, socket' = [socket EXCEPT ![d] = Tail(@)],
               UNCHANGED <<job, clientMutex>>
        PROVE  PacketsWhole(c)'
    <3>1. CASE c = d
      BY <1>0, <2>3, <3>1, WholeAfterRead
    <3>2. CASE c # d
      BY <1>0, <2>1, <2>3, <3>2, WholeKept
    <3> QED  BY <3>1, <3>2
  <2>4. ASSUME NEW d \in Clients, socket' = [socket EXCEPT ![d] = <<>>], UNCHANGED <<job, clientMutex>>
        PROVE  PacketsWhole(c)'
    <3>1. CASE c = d
      <4>1. DOMAIN socket'[c] = {}
        BY <1>0, <2>4, <3>1
      <4> QED  BY <4>1 DEF PacketsWhole
    <3>2. CASE c # d
      BY <1>0, <2>1, <2>4, <3>2, WholeKept
    <3> QED  BY <3>1, <3>2
  <2> QED  BY <1>3, <2>2, <2>3, <2>4, SocketsStep
<1> QED  BY <1>1, <1>2, <1>3
-----------------------------------------------------------------------------
\* The invariant, and what it says.

LEMMA InvInit == Init => IInv
<1> SUFFICES ASSUME Init PROVE IInv
  OBVIOUS
<1>1. TypeOK
  BY TypeInit
<1>2. ClientsOK
  BY ThreadsAssumption DEF Init, ClientsOK, Threads, Alive
<1>3. RoundsOK /\ TargetsOK /\ MutexOK
  BY ThreadsAssumption DEF Init, RoundsOK, TargetsOK, ServesRightly, MutexOK, Threads, Idle
<1>4. ClosedOK /\ NoTornPacket
  BY DEF Init, ClosedOK, NoTornPacket
<1> QED  BY <1>1, <1>2, <1>3, <1>4 DEF IInv

LEMMA InvStep == IInv /\ [Next]_vars => IInv'
<1> SUFFICES ASSUME IInv, [Next]_vars PROVE IInv'
  OBVIOUS
<1>1. CASE Next
  BY <1>1, TypeStep, ClientsStep, RoundsStep, TargetsStep, MutexStep, ClosedStep, PacketStep DEF IInv
<1>2. CASE UNCHANGED vars
  <2>1. UNCHANGED <<pc, job, hooksMutex, clientsMutex, clientMutex, clients, client, listeners,
                    cancelled, socket, peer, inbox, commands, finalizer, sends>>
    BY <1>2 DEF vars, locks, peers, lists
  <2>2. TypeOK' /\ ClosedOK'
    BY <2>1 DEF IInv, TypeOK, ClosedOK
  <2>3. ClientsOK' /\ RoundsOK'
    BY <2>1 DEF IInv, ClientsOK, RoundsOK
  <2>4. TargetsOK' /\ MutexOK'
    BY <2>1 DEF IInv, TargetsOK, ServesRightly, MutexOK
  <2>5. NoTornPacket'
    BY <2>1 DEF IInv, NoTornPacket
  <2> QED  BY <2>2, <2>3, <2>4, <2>5 DEF IInv
<1> QED  BY <1>1, <1>2

LEMMA Invariance == Spec => []IInv
BY InvInit, InvStep, PTL DEF Spec

\* The types of the variables, for any number of threads.
THEOREM TypeCorrect == Spec => []TypeOK
<1>1. IInv => TypeOK
  BY DEF IInv
<1> QED  BY <1>1, Invariance, PTL

\* No thread ever locks, writes to, or is about to visit a client that
\* gst_debugserver_tcp_run has freed.
THEOREM ClientsServedAreLive == Spec => []NoUseAfterFree
<1>1. IInv => NoUseAfterFree
  <2> SUFFICES ASSUME IInv, NEW t \in Threads, NEW c \in Clients, c = job[t].at \/ c \in job[t].left
               PROVE  client[c] = "live"
    BY DEF NoUseAfterFree
  <2>1. ServesRightly(t) /\ ClientsOK
    BY DEF IInv, TargetsOK
  <2>2. job[t].via = "reply" => pc[t] = "reply"
    BY DEF IInv, RoundsOK
  <2> QED  BY <2>1, <2>2 DEF ServesRightly, ClientsOK, Alive
<1> QED  BY <1>1, Invariance, PTL

\* However many threads send to a client, what follows a header on its socket
\* is the body of the same packet.
THEOREM PacketsAreWhole == Spec => []NoTornPacket
<1>1. IInv => NoTornPacket
  BY DEF IInv
<1> QED  BY <1>1, Invariance, PTL

\* When gst_debugserver_tcp_finalize lets the tracer go on to free the hubs, the
\* thread of every client it could see has left them.
THEOREM DrainedMeansLeft == Spec => HubsLeftBeforeFreed
<1> DEFINE P == finalizer' = "drained" /\ finalizer # "drained" =>
                  \A c \in Clients : pc[c] \in {"none", "new", "signal", "bye", "gone"}
<1>1. IInv /\ [Next]_vars => P
  <2> SUFFICES ASSUME IInv, [Next]_vars, finalizer' = "drained", finalizer # "drained", NEW c \in Clients
               PROVE  pc[c] \in {"none", "new", "signal", "bye", "gone"}
    OBVIOUS
  <2>1. UNCHANGED finalizer \/ FinalizeRound
    BY DEF Next, PeerStep, ServerStep, SendStep, Accept, PeerBeginsCommand, PeerEndsCommand, PeerReads,
           PeerCloses, AddClient, ReadHeader, ReadBody, HandleHook, HandleOther, LeaveHubs, FreeClient,
           Signal, Log, Stream, LockClient, WriteHalf, EndSend, vars
  <2>2. clients = <<>>
    BY <2>1 DEF FinalizeRound
  <2>3. pc[c] \notin Alive /\ pc[c] # "streaming"
    BY <2>2 DEF IInv, ClientsOK
  <2>4. /\ c \in Threads
        /\ pc[c] \in {"none", "new", "greet", "reading", "note", "body", "handle", "reply", "leave",
                      "free", "signal", "bye", "gone", "streaming"}
    BY DEF IInv, TypeOK, Threads
  <2> QED  BY <2>3, <2>4 DEF Alive
<1>2. IInv /\ [Next]_vars => [P]_vars
  BY <1>1
<1> QED  BY <1>2, Invariance, PTL DEF Spec, HubsLeftBeforeFreed

=============================================================================
