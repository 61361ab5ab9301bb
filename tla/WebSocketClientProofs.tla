------------------------ MODULE WebSocketClientProofs ------------------------
(***************************************************************************)
(* Proofs about WebSocketClient for any number of connections and messages, *)
(* any schemes and a stream cut in any way: its types, for any number of    *)
(* callers, and for one caller what it can rely on, that the process is not *)
(* terminated by a second receiving thread, that disconnect leaves nothing  *)
(* behind, that no thread receives from another's connection and what       *)
(* WebSocketReceive hands out.  With two callers none of these holds        *)
(* (README, section 5).                                                     *)
(***************************************************************************)
EXTENDS WebSocketClient, SequenceTheorems, FiniteSetTheorems, TLAPS

-----------------------------------------------------------------------------
(* Types.                                                                  *)

(* The initial state has its types.                                        *)
LEMMA InitTypes == Init => TypeOK
<1> SUFFICES ASSUME Init PROVE TypeOK
  OBVIOUS
<1>1. queue \in Seq(Message) /\ delivered \in Seq(Message)
  BY DEF Init
<1>2. inflight \in [Conns -> Seq(Segment)]
  BY DEF Init
<1>3. sent \in [Conns -> Seq(Frames)] /\ nextConn \in 1..(MaxConn + 1)
  BY ClientAssumption DEF Init, ClientAssumption
<1>4. {socket, handle, thread} \subseteq Conns \cup {None} /\ requests \subseteq Requests
  BY DEF Init
<1>5. QED
  BY <1>1, <1>2, <1>3, <1>4 DEF Init, TypeOK

(* What a recv decodes is at most one message, of its connection and of    *)
(* the frame the chunk starts in.                                          *)
WholeOf(chunk) == chunk[1].part = "first" /\ Len(chunk) >= 2

LEMMA DecodedMessage ==
  ASSUME NEW t, NEW s, NEW chunk, NEW msgs \in Decoded(t, s, chunk)
  PROVE  msgs \in {<<>>, <<[conn |-> s, n |-> chunk[1].n, whole |-> WholeOf(chunk)]>>}
BY DEF Decoded, WholeOf

LEMMA DecodedTypes ==
  ASSUME NEW t, NEW s \in Conns, NEW stream \in Seq(Segment), NEW len \in 1..Len(stream),
         NEW msgs \in Decoded(t, s, SubSeq(stream, 1, len))
  PROVE  msgs \in Seq(Message)
<1> DEFINE chunk == SubSeq(stream, 1, len)
<1>1. chunk[1] \in Segment
  OBVIOUS
<1> HIDE DEF chunk
<1>2. [conn |-> s, n |-> chunk[1].n, whole |-> WholeOf(chunk)] \in Message
  BY <1>1 DEF Message, Segment, WholeOf
<1>3. /\ <<>> \in Seq(Message)
      /\ <<[conn |-> s, n |-> chunk[1].n, whole |-> WholeOf(chunk)]>> \in Seq(Message)
  BY <1>2
<1>4. msgs \in Decoded(t, s, chunk)
  BY DEF chunk
<1>5. msgs \in {<<>>, <<[conn |-> s, n |-> chunk[1].n, whole |-> WholeOf(chunk)]>>}
  BY <1>4, DecodedMessage
<1>6. QED
  BY <1>3, <1>5

(* Every step keeps the types.                                             *)
LEMMA NextTypes == TypeOK /\ [Next]_wsVars => TypeOK'
<1> SUFFICES ASSUME TypeOK, [Next]_wsVars PROVE TypeOK'
  OBVIOUS
<1> USE ClientAssumption DEF ClientAssumption, client, network, callers, receivers, Goto
<1>1. ASSUME NEW c \in Callers, ConnectCheck(c) PROVE TypeOK'
  BY <1>1 DEF ConnectCheck, TypeOK
<1>2. ASSUME NEW c \in Callers, ConnectDial(c) PROVE TypeOK'
  <2>1. nextConn' \in 1..(MaxConn + 1) /\ nextConn \in Conns
    BY <1>2 DEF ConnectDial, NewConnection, Conns
  <2>2. QED
    BY <1>2, <2>1 DEF ConnectDial, NewConnection, TypeOK
<1>3. ASSUME NEW c \in Callers, ConnectUpgrade(c) PROVE TypeOK'
  <2>1. requests' \subseteq Requests
    BY <1>3 DEF ConnectUpgrade, Requests
  <2>2. QED
    BY <1>3, <2>1 DEF ConnectUpgrade, NewConnection, TypeOK, Conns
<1>4. ASSUME NEW c \in Callers, ConnectFail(c) PROVE TypeOK'
  <2>1. requests' \subseteq Requests /\ handle' \in Conns \cup {None}
    BY <1>4 DEF ConnectFail, Requests, TypeOK
  <2>2. QED
    BY <1>4, <2>1 DEF ConnectFail, TypeOK
<1>5. ASSUME NEW c \in Callers, HandshakeFail(c) PROVE TypeOK'
  BY <1>5 DEF HandshakeFail, TypeOK
<1>6. ASSUME NEW c \in Callers, Handshake(c) PROVE TypeOK'
  <2>1. socket \in Conns /\ inflight[socket] \in Seq(Segment)
    BY <1>6 DEF Handshake, TypeOK
  <2>2. \A len \in 0..Len(inflight[socket]) :
          SubSeq(inflight[socket], len + 1, Len(inflight[socket])) \in Seq(Segment)
    BY <2>1
  <2>3. inflight' \in [Conns -> Seq(Segment)]
    BY <1>6, <2>1, <2>2 DEF Handshake, TypeOK
  <2>4. QED
    BY <1>6, <2>3 DEF Handshake, TypeOK
<1>7. ASSUME NEW c \in Callers, ConnectConnected(c) \/ ConnectRunning(c) PROVE TypeOK'
  BY <1>7 DEF ConnectConnected, ConnectRunning, TypeOK
<1>8. ASSUME NEW c \in Callers, ConnectSpawn(c) PROVE TypeOK'
  BY <1>8 DEF ConnectSpawn, TypeOK
<1>9. ASSUME NEW c \in Callers, DisconnectCheck(c) \/ DisconnectStop(c) \/ DisconnectDrop(c)
      PROVE  TypeOK'
  BY <1>9 DEF DisconnectCheck, DisconnectStop, DisconnectDrop, TypeOK
<1>10. ASSUME NEW c \in Callers, DisconnectClose(c) PROVE TypeOK'
  BY <1>10 DEF DisconnectClose, CloseSocket, TypeOK
<1>11. ASSUME NEW c \in Callers, DisconnectJoin(c) \/ DisconnectHandles(c) PROVE TypeOK'
  BY <1>11 DEF DisconnectJoin, DisconnectHandles, TypeOK
<1>12. ASSUME NEW c \in Callers, ReceiveMessage(c) PROVE TypeOK'
  <2>1. queue' \in Seq(Message) /\ delivered' \in Seq(Message)
    BY <1>12 DEF ReceiveMessage, PopFront, TypeOK
  <2>2. QED
    BY <1>12, <2>1 DEF ReceiveMessage, TypeOK
<1>13. ASSUME NEW t \in Conns, LoopTest(t) PROVE TypeOK'
  BY <1>13 DEF LoopTest, Source, TypeOK
<1>14. ASSUME NEW t \in Conns, Receive(t) PROVE TypeOK'
  <2> DEFINE s == rxSocket[t]
  <2>1. s \in Conns /\ inflight[s] \in Seq(Segment)
    BY <1>14 DEF Receive, TypeOK
  <2>2. PICK len \in ChunkLengths(t, inflight[s]) :
          /\ \E msgs \in Decoded(t, s, SubSeq(inflight[s], 1, len)) : queue' = Enqueue(msgs)
          /\ inflight' = [inflight EXCEPT ![s] = SubSeq(@, len + 1, Len(@))]
    BY <1>14 DEF Receive
  <2>3. len \in 1..Len(inflight[s])
    BY <2>1, <2>2 DEF ChunkLengths
  <2>4. queue' \in Seq(Message)
    BY <2>1, <2>2, <2>3, DecodedTypes DEF Enqueue, TypeOK
  <2>5. SubSeq(inflight[s], len + 1, Len(inflight[s])) \in Seq(Segment)
    BY <2>1, <2>3
  <2>6. inflight' \in [Conns -> Seq(Segment)]
    BY <2>1, <2>2, <2>5 DEF TypeOK
  <2>7. QED
    BY <1>14, <2>4, <2>6 DEF Receive, TypeOK
<1>15. ASSUME NEW t \in Conns, ReceiveEnd(t) PROVE TypeOK'
  BY <1>15 DEF ReceiveEnd, Noticed, TypeOK
<1>16. ASSUME NEW s \in Conns, ServerSend(s) PROVE TypeOK'
  <2> DEFINE n == Len(sent[s]) + 1
  <2>1. n \in 1..MaxFrames /\ sent' \in [Conns -> Seq(Frames)]
    BY <1>16 DEF ServerSend, TypeOK
  <2> HIDE DEF n
  <2>3. <<[n |-> n, part |-> "first"], [n |-> n, part |-> "last"]>> \in Seq(Segment)
    BY <2>1 DEF Segment
  <2>4. inflight' \in [Conns -> Seq(Segment)]
    BY <1>16, <2>3 DEF ServerSend, TypeOK, n
  <2>5. QED
    BY <1>16, <2>1, <2>4 DEF ServerSend, TypeOK
<1>17. ASSUME NEW s \in Conns, ServerClose(s) PROVE TypeOK'
  BY <1>17 DEF ServerClose, TypeOK
<1>18. CASE UNCHANGED wsVars
  BY <1>18 DEF wsVars, TypeOK
<1>19. QED
  BY <1>1, <1>2, <1>4, <1>7, <1>8, <1>9, <1>10, <1>11, <1>12, <1>13, <1>14, <1>15, <1>16,
     <1>17, <1>18, <1>6, <1>3, <1>5
     DEF Next, Connect, ConnectRest, DisconnectRest, ReceiverStep

(* Every field of the client and of the network has its type, however many *)
(* callers there are.                                                      *)
THEOREM TypeCorrect == Spec => []TypeOK
BY InitTypes, NextTypes, PTL DEF Spec

-----------------------------------------------------------------------------
(* One caller.                                                             *)

(* The connection n is the only one: its socket or its handle is where the *)
(* client looks for it, and nothing else is open.                          *)
Held(n) ==
    /\ n \in Conns /\ open \subseteq {n}
    /\ kind[n] = "ws" => socket = n /\ handle = None
    /\ kind[n] = "wss" => socket = None /\ handle = n

(* Nobody receives and nobody is to be joined.                             *)
Silent == thread = None /\ \A t \in Conns : ~Alive(t)

(* The thread that receives, or has received, is the one a join waits for. *)
Received == thread \in Conns /\ \A t \in Conns : Alive(t) => t = thread

Closed == socket = None /\ handle = None /\ open = {}

(* What each place of the caller c says.  Between two calls the client is  *)
(* running with a thread to join, or there is nothing at all.              *)
Place(c) ==
    /\ pc[c] = "idle" => \/ running /\ Received /\ Held(thread)
                         \/ ~running /\ ~connected /\ Silent /\ Closed
    /\ pc[c] = "opening" => ~running /\ ~connected /\ Silent /\ Closed
    /\ pc[c] = "handshake" => /\ ~running /\ ~connected /\ Silent
                              /\ Held(mine[c]) /\ kind[mine[c]] = "ws"
    /\ pc[c] = "connected" => ~running /\ Silent /\ Held(mine[c])
    /\ pc[c] = "running" => ~running /\ Silent /\ Held(mine[c])
    /\ pc[c] = "spawn" => running /\ Silent /\ Held(mine[c])
    /\ pc[c] = "stop" => Received /\ Held(thread)
    /\ pc[c] = "drop" => ~running /\ Received /\ Held(thread)
    /\ pc[c] = "close" => ~running /\ ~connected /\ Received /\ Held(thread)
    /\ pc[c] = "join" => /\ ~running /\ ~connected /\ Received
                         /\ socket = None /\ open \subseteq {handle}
    /\ pc[c] = "handles" => /\ ~running /\ ~connected /\ Silent
                            /\ socket = None /\ open \subseteq {handle}

OneCallerInv(c) == TypeOK /\ ~terminated /\ Place(c) /\ ReceivesItsOwn

(* A step of the receiving thread or of the server leaves the caller's     *)
(* place as it is.                                                         *)
LEMMA PlaceKept ==
  ASSUME NEW c \in Callers, OneCallerInv(c),
         UNCHANGED <<running, socket, handle, thread, pc, mine, kind, open>>,
         connected' = connected \/ (connected' = FALSE),
         \A t \in Conns : Alive(t)' => Alive(t)
  PROVE  Place(c)'
<1>1. (Received => Received') /\ (Silent => Silent') /\ (Closed => Closed')
  BY DEF Received, Silent, Closed
<1>2. \A n : Held(n) => Held(n)'
  BY DEF Held
<1>3. QED
  BY <1>1, <1>2 DEF OneCallerInv, Place, Held

(* The thread that goes into its recv is the one to be joined, and finds   *)
(* its own connection.                                                     *)
LEMMA OwnSource ==
  ASSUME NEW c \in Callers, OneCallerInv(c), NEW t \in Conns, LoopTest(t), LoopOn(t)
  PROVE  Source(t) \in {t, None}
<1>1. running /\ Alive(t)
  BY DEF LoopTest, LoopOn, Alive
<1>2. TypeOK /\ Place(c)
  BY DEF OneCallerInv
<1>3. pc[c] \in {"idle", "opening", "handshake", "connected", "running", "spawn",
                 "stop", "drop", "close", "join", "handles"}
  BY <1>2 DEF TypeOK
<1>4. Received /\ Held(thread)
  BY <1>1, <1>2, <1>3 DEF Place, Silent
<1>5. t = thread /\ kind[t] \in {"ws", "wss"}
  BY <1>1, <1>2, <1>4 DEF Received, TypeOK
<1>6. QED
  BY <1>4, <1>5 DEF Held, Source

(* Where there is one caller, its places are an inductive invariant.       *)
LEMMA OneCallerNext ==
  ASSUME NEW c, Callers = {c}
  PROVE  OneCallerInv(c) /\ [Next]_wsVars => OneCallerInv(c)'
<1> SUFFICES ASSUME OneCallerInv(c), [Next]_wsVars PROVE OneCallerInv(c)'
  OBVIOUS
<1>0. TypeOK /\ TypeOK' /\ ~terminated /\ Place(c) /\ c \in Callers /\ ReceivesItsOwn
  BY NextTypes DEF OneCallerInv
<1> USE DEF client, network, callers, receivers, Goto, Silent, Received, Closed, Held, Alive, None
<1>1. CASE ConnectCheck(c)
  BY <1>0, <1>1 DEF ConnectCheck, OneCallerInv, Place, TypeOK, ReceivesItsOwn
<1>2. CASE ConnectDial(c)
  BY <1>0, <1>2, ClientAssumption
     DEF ConnectDial, NewConnection, OneCallerInv, Place, TypeOK, Conns, ReceivesItsOwn
<1>3. CASE ConnectUpgrade(c)
  BY <1>0, <1>3, ClientAssumption
     DEF ConnectUpgrade, NewConnection, OneCallerInv, Place, TypeOK, Conns, ReceivesItsOwn
<1>4. CASE ConnectFail(c)
  BY <1>0, <1>4 DEF ConnectFail, OneCallerInv, Place, TypeOK, ReceivesItsOwn
<1>5. CASE Handshake(c)
  BY <1>0, <1>5 DEF Handshake, OneCallerInv, Place, TypeOK, ReceivesItsOwn
<1>6. CASE HandshakeFail(c)
  BY <1>0, <1>6 DEF HandshakeFail, OneCallerInv, Place, TypeOK, ReceivesItsOwn
<1>7. CASE ConnectConnected(c) \/ ConnectRunning(c)
  BY <1>0, <1>7 DEF ConnectConnected, ConnectRunning, OneCallerInv, Place, TypeOK, ReceivesItsOwn
<1>8. CASE ConnectSpawn(c)
  <2>1. ReceivesItsOwn'
    BY <1>0, <1>8 DEF ConnectSpawn, TypeOK, ReceivesItsOwn
  <2>2. QED
    BY <1>0, <1>8, <2>1 DEF ConnectSpawn, OneCallerInv, Place, TypeOK
<1>9. CASE DisconnectCheck(c) \/ DisconnectStop(c) \/ DisconnectDrop(c)
  BY <1>0, <1>9
     DEF DisconnectCheck, DisconnectStop, DisconnectDrop, OneCallerInv, Place, TypeOK, ReceivesItsOwn
<1>10. CASE DisconnectClose(c)
  BY <1>0, <1>10 DEF DisconnectClose, CloseSocket, OneCallerInv, Place, TypeOK, ReceivesItsOwn
<1>11. CASE DisconnectJoin(c)
  <2>1. thread # None => rx[thread] = "done"
    BY <1>11 DEF DisconnectJoin, JoinOver
  <2>2. thread \in Conns => thread # None
    BY ClientAssumption DEF ClientAssumption, Conns
  <2>3. Received => Silent'
    BY <1>11, <2>1, <2>2 DEF DisconnectJoin
  <2>4. QED
    BY <1>0, <1>11, <2>3 DEF DisconnectJoin, OneCallerInv, Place, TypeOK, ReceivesItsOwn
<1>12. CASE DisconnectHandles(c)
  BY <1>0, <1>12 DEF DisconnectHandles, OneCallerInv, Place, TypeOK, ReceivesItsOwn
<1>13. CASE ReceiveMessage(c)
  BY <1>0, <1>13, PlaceKept DEF ReceiveMessage, OneCallerInv, ReceivesItsOwn
<1>14. ASSUME NEW t \in Conns, LoopTest(t) PROVE OneCallerInv(c)'
  <2>1. ReceivesItsOwn'
    <3>1. /\ rx' = [rx EXCEPT ![t] = IF LoopOn(t) THEN "recv" ELSE "done"]
          /\ rxSocket' = [rxSocket EXCEPT ![t] = Source(t)]
      BY <1>14 DEF LoopTest
    <3>2. ASSUME NEW u \in Conns, rx'[u] = "recv" PROVE rxSocket'[u] \in {u, None}
      <4>1. CASE u = t
        <5>1. LoopOn(t) /\ rxSocket'[u] = Source(t)
          BY <1>0, <3>1, <3>2, <4>1 DEF TypeOK
        <5>2. QED
          BY <1>0, <1>14, <4>1, <5>1, OwnSource
      <4>2. CASE u # t
        BY <1>0, <3>1, <3>2, <4>2 DEF TypeOK, ReceivesItsOwn
      <4>3. QED
        BY <4>1, <4>2
    <3>3. QED
      BY <3>2 DEF ReceivesItsOwn
  <2>2. QED
    BY <1>0, <1>14, <2>1, PlaceKept DEF LoopTest, OneCallerInv, TypeOK
<1>15. ASSUME NEW t \in Conns, Receive(t) PROVE OneCallerInv(c)'
  BY <1>0, <1>15, PlaceKept DEF Receive, OneCallerInv, TypeOK, ReceivesItsOwn
<1>16. ASSUME NEW t \in Conns, ReceiveEnd(t) PROVE OneCallerInv(c)'
  BY <1>0, <1>16, PlaceKept DEF ReceiveEnd, Noticed, OneCallerInv, TypeOK, ReceivesItsOwn
<1>17. ASSUME NEW s \in Conns, ServerSend(s) \/ ServerClose(s) PROVE OneCallerInv(c)'
  <2>1. UNCHANGED <<client, callers, receivers, open>>
    BY <1>17 DEF ServerSend, ServerClose
  <2>2. QED
    BY <1>0, <2>1, PlaceKept DEF OneCallerInv, ReceivesItsOwn
<1>18. CASE UNCHANGED wsVars
  BY <1>0, <1>18, PlaceKept DEF wsVars, OneCallerInv, ReceivesItsOwn
<1>19. QED
  BY <1>1, <1>2, <1>4, <1>7, <1>8, <1>9, <1>10, <1>11, <1>12, <1>13, <1>14, <1>15, <1>16,
     <1>17, <1>18, <1>3, <1>5, <1>6 DEF Next, Connect, ConnectRest, DisconnectRest, ReceiverStep

(* It holds in every state.                                                *)
LEMMA OneCallerAlways ==
  ASSUME NEW c, Callers = {c}
  PROVE  Spec => []OneCallerInv(c)
<1>1. Init => OneCallerInv(c)
  BY InitTypes DEF Init, OneCallerInv, Place, Silent, Closed, Alive, ReceivesItsOwn
<1>2. OneCallerInv(c) /\ [Next]_wsVars => OneCallerInv(c)'
  BY OneCallerNext
<1>3. QED
  BY <1>1, <1>2, PTL DEF Spec

(* With one caller the assignment to m_thread in connect never meets a     *)
(* thread that is still joinable, which would call std::terminate.         *)
THEOREM NoTerminate ==
  ASSUME NEW c, Callers = {c}
  PROVE  Spec => []NeverTerminates
<1>1. OneCallerInv(c) => NeverTerminates
  BY DEF OneCallerInv, NeverTerminates
<1>2. QED
  BY <1>1, OneCallerAlways, PTL

(* With one caller nothing of a connection is left when disconnect has     *)
(* returned: no socket, no handle, no receiving thread.                    *)
THEOREM QuietAfterDisconnect ==
  ASSUME NEW c, Callers = {c}
  PROVE  Spec => []DisconnectedIsQuiet
<1>1. OneCallerInv(c) => DisconnectedIsQuiet
  BY DEF OneCallerInv, Place, DisconnectedIsQuiet, Silent, Closed
<1>2. QED
  BY <1>1, OneCallerAlways, PTL

(* With one caller a receiving thread never reads from a connection made   *)
(* after its own, although it looks for m_socket and m_hWebSocket afresh   *)
(* in every round.                                                         *)
THEOREM OwnStream ==
  ASSUME NEW c, Callers = {c}
  PROVE  Spec => []ReceivesItsOwn
<1>1. OneCallerInv(c) => ReceivesItsOwn
  BY DEF OneCallerInv
<1>2. QED
  BY <1>1, OneCallerAlways, PTL

-----------------------------------------------------------------------------
(* What is on the way and what has been received.                          *)

(* Of two segments in the stream the later one is of a newer frame, unless *)
(* the two are the first and the last of one.                              *)
Ordered(q) ==
    \A k, l \in 1..Len(q) : k < l =>
        /\ q[k].n <= q[l].n
        /\ q[k].part = "last" \/ q[l].part = "first" => q[k].n < q[l].n

(* The message m was made of what came before the segments q.              *)
Precedes(m, q) ==
    \A k \in 1..Len(q) :
        /\ m.n <= q[k].n
        /\ m.whole \/ q[k].part = "first" => m.n < q[k].n

(* The message a of a connection was made before its message b.            *)
Before(a, b) == a.n < b.n \/ (a.n = b.n /\ ~a.whole /\ ~b.whole)

InOrder(h) ==
    \A i, j \in 1..Len(h) : i < j =>
        h[i].conn <= h[j].conn /\ (h[i].conn = h[j].conn => Before(h[i], h[j]))

History == delivered \o queue

OnTheWay(s) ==
    /\ Ordered(inflight[s])
    /\ \A k \in 1..Len(inflight[s]) : inflight[s][k].n <= Len(sent[s])

(* Of each connection what is on the way follows what has been received;   *)
(* what has been received is of no connection newer than the open one.     *)
Stems(m) ==
    /\ m.conn < nextConn /\ \A s \in open : m.conn <= s
    /\ Precedes(m, inflight[m.conn])
    /\ m.n <= Len(sent[m.conn])
StreamInv ==
    /\ InOrder(History)
    /\ \A i \in 1..Len(History) : Stems(History[i])
    /\ \A s \in open : s < nextConn
    /\ \A s \in Conns : OnTheWay(s)

(* What is left of the stream when some of it has been taken.              *)
LEMMA Suffix ==
  ASSUME NEW q \in Seq(Segment), NEW len \in 0..Len(q)
  PROVE  /\ SubSeq(q, len + 1, Len(q)) \in Seq(Segment)
         /\ \A k \in 1..Len(SubSeq(q, len + 1, Len(q))) :
              len + k \in 1..Len(q) /\ SubSeq(q, len + 1, Len(q))[k] = q[len + k]
<1> DEFINE r == SubSeq(q, len + 1, Len(q))
<1>1. /\ len + 1 \in Int /\ Len(q) \in Int /\ Len(q) \in Nat /\ len \in Nat
      /\ \A i \in (len + 1)..Len(q) : q[i] \in Segment
  OBVIOUS
<1>2. /\ r \in Seq(Segment)
      /\ Len(r) = IF len + 1 <= Len(q) THEN Len(q) - (len + 1) + 1 ELSE 0
      /\ \A i \in 1..(Len(q) - (len + 1) + 1) : r[i] = q[len + 1 + i - 1]
  BY <1>1, SubSeqProperties
<1> HIDE DEF r
<1>3. ASSUME NEW k \in 1..Len(r)
      PROVE  len + k \in 1..Len(q) /\ r[k] = q[len + k]
  <2>1. /\ k \in 1..(Len(q) - (len + 1) + 1) /\ len + 1 + k - 1 = len + k
        /\ len + k \in 1..Len(q)
    BY <1>1, <1>2
  <2>2. QED
    BY <1>2, <2>1
<1>4. QED
  BY <1>2, <1>3 DEF r

(* What is left is as ordered as the whole.                                *)
LEMMA SuffixOrdered ==
  ASSUME NEW q \in Seq(Segment), NEW len \in 0..Len(q), Ordered(q)
  PROVE  /\ Ordered(SubSeq(q, len + 1, Len(q)))
         /\ \A m : Precedes(m, q) => Precedes(m, SubSeq(q, len + 1, Len(q)))
         /\ \A b : (\A k \in 1..Len(q) : q[k].n <= b) =>
              \A k \in 1..Len(SubSeq(q, len + 1, Len(q))) :
                SubSeq(q, len + 1, Len(q))[k].n <= b
<1> DEFINE r == SubSeq(q, len + 1, Len(q))
<1>1. /\ r \in Seq(Segment)
      /\ \A k \in 1..Len(r) : len + k \in 1..Len(q) /\ r[k] = q[len + k]
  BY Suffix
<1> HIDE DEF r
<1>2. Ordered(r)
  <2>1. SUFFICES ASSUME NEW k \in 1..Len(r), NEW l \in 1..Len(r), k < l
                 PROVE  /\ r[k].n <= r[l].n
                        /\ r[k].part = "last" \/ r[l].part = "first" => r[k].n < r[l].n
    BY DEF Ordered
  <2>2. len + k \in 1..Len(q) /\ len + l \in 1..Len(q) /\ len + k < len + l
    BY <1>1, <2>1
  <2>3. QED
    BY <1>1, <2>2 DEF Ordered
<1>3. \A m : Precedes(m, q) => Precedes(m, r)
  BY <1>1 DEF Precedes
<1>4. QED
  BY <1>1, <1>2, <1>3 DEF r

(* A message precedes what is left of the stream it was taken from.        *)
LEMMA TakenPrecedes ==
  ASSUME NEW q \in Seq(Segment), NEW len \in 1..Len(q), Ordered(q), NEW m,
         m.n = q[1].n, m.whole = WholeOf(SubSeq(q, 1, len))
  PROVE  Precedes(m, SubSeq(q, len + 1, Len(q)))
<1> DEFINE r == SubSeq(q, len + 1, Len(q))
           chunk == SubSeq(q, 1, len)
<1>1. /\ len \in 0..Len(q) /\ r \in Seq(Segment)
      /\ \A k \in 1..Len(r) : len + k \in 1..Len(q) /\ r[k] = q[len + k]
  BY Suffix
<1>2. Len(chunk) = len
  OBVIOUS
<1>3. m.whole => len >= 2
  BY <1>2 DEF WholeOf
<1>4. \A i \in 1..Len(q) : q[i].n \in Nat /\ q[i].part \in {"first", "last"}
  <2>1. \A m1 \in Segment : m1.n \in Nat /\ m1.part \in {"first", "last"}
    BY DEF Segment
  <2>2. QED
    BY <2>1
<1> HIDE DEF r, chunk
<1>5. ASSUME NEW k \in 1..Len(r)
      PROVE  m.n <= r[k].n /\ (m.whole \/ r[k].part = "first" => m.n < r[k].n)
  <2>1. /\ 1 \in 1..Len(q) /\ len + k \in 1..Len(q) /\ 1 < len + k /\ r[k] = q[len + k]
    BY <1>1
  <2>2. m.n <= r[k].n /\ (r[k].part = "first" => m.n < r[k].n)
    BY <2>1 DEF Ordered
  <2>3. CASE m.whole
    <3>1. 2 \in 1..Len(q) /\ 2 < len + k /\ 1 < 2
      BY <1>3, <2>1, <2>3
    <3>2. /\ q[1].n <= q[2].n /\ (q[2].part = "first" => q[1].n < q[2].n)
          /\ q[2].n <= q[len + k].n /\ (q[2].part = "last" => q[2].n < q[len + k].n)
      BY <2>1, <3>1 DEF Ordered
    <3>3. /\ q[1].n \in Nat /\ q[2].n \in Nat /\ q[len + k].n \in Nat
          /\ q[2].part \in {"first", "last"}
      BY <1>4, <2>1, <3>1
    <3>4. q[1].n < q[len + k].n
      BY <3>2, <3>3
    <3>5. QED
      BY <2>1, <2>2, <3>4
  <2>4. QED
    BY <2>2, <2>3
<1>6. QED
  BY <1>5 DEF Precedes, r

(* One message more.                                                       *)
LEMMA OneReceived ==
  ASSUME NEW h \in Seq(Message), NEW m \in Message, InOrder(h),
         \A i \in 1..Len(h) : h[i].conn <= m.conn /\ (h[i].conn = m.conn => Before(h[i], m))
  PROVE  InOrder(Append(h, m))
<1> DEFINE r == Append(h, m)
<1>1. /\ Len(h) \in Nat /\ Len(r) = Len(h) + 1 /\ r[Len(h) + 1] = m
      /\ \A j \in 1..Len(h) : r[j] = h[j]
  BY AppendProperties
<1> HIDE DEF r
<1>2. \A i \in 1..Len(r) : i \in 1..Len(h) \/ i = Len(h) + 1
  BY <1>1
<1>3. ASSUME NEW i \in 1..Len(r), NEW j \in 1..Len(r), i < j
      PROVE  r[i].conn <= r[j].conn /\ (r[i].conn = r[j].conn => Before(r[i], r[j]))
  <2>1. i \in 1..Len(h)
    BY <1>1, <1>2, <1>3
  <2>2. CASE j \in 1..Len(h)
    BY <1>1, <1>3, <2>1, <2>2 DEF InOrder
  <2>3. CASE j = Len(h) + 1
    BY <1>1, <2>1, <2>3
  <2>4. QED
    BY <1>2, <2>2, <2>3
<1>4. QED
  BY <1>3 DEF InOrder, r

(* With one caller at most one connection is open.                         *)
LEMMA OneOpen ==
  ASSUME NEW c \in Callers, OneCallerInv(c)
  PROVE  \A s, t \in open : s = t
<1>1. pc[c] \in {"idle", "opening", "handshake", "connected", "running", "spawn",
                 "stop", "drop", "close", "join", "handles"}
  BY DEF OneCallerInv, TypeOK
<1>2. QED
  BY <1>1 DEF OneCallerInv, Place, Held, Closed

(* A step after which the same messages have been received, and of each    *)
(* connection the same, or a later part of it, is on the way.              *)
LEMMA StreamKept ==
  ASSUME StreamInv, TypeOK, History' = History, UNCHANGED sent,
         \A s \in Conns : \E len \in 0..Len(inflight[s]) :
           inflight'[s] = SubSeq(inflight[s], len + 1, Len(inflight[s])),
         open' \subseteq open, nextConn' = nextConn
  PROVE  StreamInv'
<1>1. ASSUME NEW s \in Conns
      PROVE  OnTheWay(s)' /\ \A m : Precedes(m, inflight[s]) => Precedes(m, inflight'[s])
  <2>1. inflight[s] \in Seq(Segment) /\ OnTheWay(s)
    BY DEF TypeOK, StreamInv
  <2>2. PICK len \in 0..Len(inflight[s]) :
          inflight'[s] = SubSeq(inflight[s], len + 1, Len(inflight[s]))
    OBVIOUS
  <2>3. /\ Ordered(inflight'[s])
        /\ \A m : Precedes(m, inflight[s]) => Precedes(m, inflight'[s])
        /\ \A b : (\A k \in 1..Len(inflight[s]) : inflight[s][k].n <= b) =>
             \A k \in 1..Len(inflight'[s]) : inflight'[s][k].n <= b
    BY <2>1, <2>2, SuffixOrdered DEF OnTheWay
  <2>4. OnTheWay(s)'
    <3>1. \A k \in 1..Len(inflight[s]) : inflight[s][k].n <= Len(sent[s])
      BY <2>1 DEF OnTheWay
    <3>2. \A k \in 1..Len(inflight'[s]) : inflight'[s][k].n <= Len(sent[s])
      BY <2>3, <3>1
    <3>3. QED
      BY <2>3, <3>2 DEF OnTheWay, Ordered
  <2>5. QED
    BY <2>3, <2>4
<1>2. History \in Seq(Message)
  BY ConcatProperties DEF TypeOK, History
<1>3. ASSUME NEW i \in 1..Len(History) PROVE Stems(History[i])'
  <2>1. Stems(History[i]) /\ History[i].conn \in Conns
    <3>1. History[i] \in Message
      BY <1>2
    <3>2. History[i].conn \in Conns
      BY <3>1 DEF Message
    <3>3. QED
      BY <3>2 DEF StreamInv
  <2>2. Precedes(History[i], inflight'[History[i].conn])
    BY <1>1, <2>1 DEF Stems
  <2>3. QED
    BY <2>1, <2>2 DEF Stems, Precedes
<1>4. InOrder(History)'
  BY DEF StreamInv, InOrder, Before
<1>5. QED
  BY <1>1, <1>3, <1>4 DEF StreamInv

(* Nothing of the stream is taken.                                         *)
LEMMA StreamSame ==
  ASSUME StreamInv, TypeOK, History' = History, UNCHANGED <<inflight, sent>>,
         open' \subseteq open, nextConn' = nextConn
  PROVE  StreamInv'
<1>1. \A s \in Conns : OnTheWay(s)'
  BY DEF StreamInv, OnTheWay, Ordered
<1>2. \A i \in 1..Len(History) : Stems(History[i])'
  BY DEF StreamInv, Stems, Precedes
<1>3. InOrder(History)'
  BY DEF StreamInv, InOrder, Before
<1>4. QED
  BY <1>1, <1>2, <1>3 DEF StreamInv

(* A recv takes a part of the stream and makes at most one message of it.  *)
LEMMA StreamReceive ==
  ASSUME NEW c \in Callers, OneCallerInv(c), StreamInv, NEW t \in Conns, Receive(t)
  PROVE  StreamInv'
<1> DEFINE s == rxSocket[t]
           q == inflight[s]
           h == History
           Later(x) == /\ x.conn < nextConn' /\ \A u \in open' : x.conn <= u
                       /\ Precedes(x, inflight'[x.conn])
                       /\ x.n <= Len(sent'[x.conn])
<1>1. /\ s \in Conns /\ s \in open /\ queue \in Seq(Message) /\ delivered \in Seq(Message)
      /\ inflight \in [Conns -> Seq(Segment)] /\ q \in Seq(Segment)
  BY DEF OneCallerInv, TypeOK, Receive
<1>2. PICK len \in ChunkLengths(t, q) :
        /\ \E msgs \in Decoded(t, s, SubSeq(q, 1, len)) : queue' = Enqueue(msgs)
        /\ inflight' = [inflight EXCEPT ![s] = SubSeq(@, len + 1, Len(@))]
  BY DEF Receive
<1>3. len \in 1..Len(q) /\ len \in 0..Len(q)
  BY <1>1, <1>2 DEF ChunkLengths
<1> DEFINE whole == WholeOf(SubSeq(q, 1, len))
           m == [conn |-> s, n |-> q[1].n, whole |-> whole]
<1>4. queue' = queue \/ queue' = queue \o <<m>>
  <2>1. SubSeq(q, 1, len)[1] = q[1]
    BY <1>1, <1>3
  <2> DEFINE chunk == SubSeq(q, 1, len)
  <2>2. PICK msgs \in Decoded(t, s, chunk) : queue' = Enqueue(msgs)
    BY <1>2
  <2> HIDE DEF chunk
  <2>3. msgs \in {<<>>, <<[conn |-> s, n |-> chunk[1].n, whole |-> WholeOf(chunk)]>>}
    BY <2>2, DecodedMessage
  <2>4. chunk[1].n = q[1].n
    BY <2>1 DEF chunk
  <2>5. msgs = <<>> \/ msgs = <<m>>
    BY <2>3, <2>4 DEF chunk
  <2>6. queue \o <<>> = queue
    BY <1>1
  <2>7. QED
    BY <2>2, <2>5, <2>6 DEF Enqueue
<1>5. /\ open' = open /\ nextConn' = nextConn /\ sent' = sent /\ delivered' = delivered
  BY DEF Receive
<1>6. /\ inflight'[s] = SubSeq(q, len + 1, Len(q))
      /\ \A u \in Conns \ {s} : inflight'[u] = inflight[u]
  BY <1>1, <1>2
<1>7. ASSUME NEW u \in Conns
      PROVE  \E k \in 0..Len(inflight[u]) :
               inflight'[u] = SubSeq(inflight[u], k + 1, Len(inflight[u]))
  <2>1. CASE u = s
    BY <1>3, <1>6, <2>1
  <2>2. CASE u # s
    <3>1. inflight[u] \in Seq(Segment) /\ SubSeq(inflight[u], 0 + 1, Len(inflight[u])) = inflight[u]
      BY <1>1
    <3>2. 0 \in 0..Len(inflight[u])
      BY <3>1
    <3>3. QED
      BY <1>6, <2>2, <3>1, <3>2
  <2>3. QED
    BY <2>1, <2>2
<1>8. CASE queue' = queue
  <2>1. History' = History /\ TypeOK
    BY <1>5, <1>8 DEF History, OneCallerInv
  <2>2. QED
    BY <1>5, <1>7, <2>1, StreamKept
<1>9. CASE queue' = queue \o <<m>>
  <2>1. m \in Message
    <3>1. q[1] \in Segment
      BY <1>1, <1>3
    <3>2. q[1].n \in 1..MaxFrames /\ whole \in BOOLEAN
      BY <3>1 DEF Segment, WholeOf
    <3>3. QED
      BY <1>1, <3>2 DEF Message
  <2>2. m.conn = s /\ m.n = q[1].n /\ m.whole = whole
    OBVIOUS
  <2> HIDE DEF m
  <2>3. h \in Seq(Message) /\ History' = Append(h, m)
    <3>1. <<m>> \in Seq(Message)
      BY <2>1
    <3>2. h \in Seq(Message) /\ (delivered \o queue) \o <<m>> = delivered \o (queue \o <<m>>)
      BY <1>1, <3>1, ConcatProperties, ConcatAssociative DEF History
    <3>3. Append(h, m) = h \o <<m>>
      BY <2>1, <3>2, AppendIsConcat
    <3>4. History' = delivered \o (queue \o <<m>>)
      BY <1>5, <1>9 DEF History
    <3>5. QED
      BY <3>2, <3>3, <3>4 DEF History
  <2> HIDE DEF h
  <2>4. /\ Len(h) \in Nat /\ Len(Append(h, m)) = Len(h) + 1 /\ Append(h, m)[Len(h) + 1] = m
        /\ \A j \in 1..Len(h) : Append(h, m)[j] = h[j]
    BY <2>1, <2>3, AppendProperties
  <2>5. OnTheWay(s) /\ 1 \in 1..Len(q)
    BY <1>1, <1>3 DEF StreamInv
  <2>6. \A u \in Conns : OnTheWay(u)' /\ \A x : Precedes(x, inflight[u]) => Precedes(x, inflight'[u])
    <3>1. ASSUME NEW u \in Conns
          PROVE  OnTheWay(u)' /\ \A x : Precedes(x, inflight[u]) => Precedes(x, inflight'[u])
      <4>1. inflight[u] \in Seq(Segment) /\ OnTheWay(u)
        BY <1>1 DEF StreamInv
      <4>2. PICK k \in 0..Len(inflight[u]) :
              inflight'[u] = SubSeq(inflight[u], k + 1, Len(inflight[u]))
        BY <1>7
      <4>3. /\ Ordered(inflight'[u])
            /\ \A x : Precedes(x, inflight[u]) => Precedes(x, inflight'[u])
            /\ \A b : (\A i \in 1..Len(inflight[u]) : inflight[u][i].n <= b) =>
                 \A i \in 1..Len(inflight'[u]) : inflight'[u][i].n <= b
        BY <4>1, <4>2, SuffixOrdered DEF OnTheWay
      <4>4. \A i \in 1..Len(inflight'[u]) : inflight'[u][i].n <= Len(sent[u])
        BY <4>1, <4>3 DEF OnTheWay
      <4>5. QED
        BY <1>5, <4>3, <4>4 DEF OnTheWay, Ordered
    <3>2. QED
      BY <3>1
  <2>7. Later(m)
    <3>1. Precedes(m, inflight'[s])
      BY <1>1, <1>3, <1>6, <2>2, <2>5, TakenPrecedes DEF OnTheWay
    <3>2. m.n <= Len(sent[s])
      BY <2>2, <2>5 DEF OnTheWay
    <3>3. \A u \in open : s <= u
      <4>1. \A u \in open : u = s
        BY <1>1, OneOpen
      <4>2. s <= s
        BY <1>1 DEF Conns
      <4>3. QED
        BY <4>1, <4>2
    <3>4. s < nextConn
      BY <1>1 DEF StreamInv
    <3>5. QED
      BY <1>5, <2>2, <3>1, <3>2, <3>3, <3>4
  <2>8. \A i \in 1..Len(h) : Later(h[i])
    <3>1. ASSUME NEW i \in 1..Len(h) PROVE Later(h[i])
      <4>1. h[i] \in Message /\ Stems(h[i])
        BY <2>3 DEF StreamInv, h
      <4>2. h[i].conn \in Conns
        BY <4>1 DEF Message
      <4>3. Precedes(h[i], inflight'[h[i].conn])
        BY <2>6, <4>1, <4>2 DEF Stems
      <4>4. QED
        BY <1>5, <4>1, <4>3 DEF Stems
    <3>2. QED
      BY <3>1
  <2>9. \A i \in 1..Len(h) : h[i].conn <= m.conn /\ (h[i].conn = m.conn => Before(h[i], m))
    <3>1. ASSUME NEW i \in 1..Len(h)
          PROVE  h[i].conn <= m.conn /\ (h[i].conn = m.conn => Before(h[i], m))
      <4>1. h[i] \in Message /\ Stems(h[i])
        BY <2>3 DEF StreamInv, h
      <4>2. h[i].conn <= s
        BY <1>1, <4>1 DEF Stems
      <4>3. ASSUME h[i].conn = s PROVE Before(h[i], m)
        <5>1. /\ h[i].n <= q[1].n
              /\ h[i].whole \/ q[1].part = "first" => h[i].n < q[1].n
          BY <2>5, <4>1, <4>3 DEF Stems, Precedes
        <5>2. m.whole => q[1].part = "first"
          <6>1. SubSeq(q, 1, len)[1] = q[1]
            BY <1>1, <1>3
          <6>2. QED
            BY <2>2, <6>1 DEF WholeOf
        <5>3. h[i].n \in Nat /\ q[1].n \in Nat
          <6>1. q[1] \in Segment
            BY <1>1, <1>3
          <6>2. h[i].n \in 1..MaxFrames /\ q[1].n \in 1..MaxFrames
            BY <4>1, <6>1 DEF Message, Segment
          <6>3. QED
            BY <6>2
        <5>4. QED
          BY <2>2, <5>1, <5>2, <5>3 DEF Before
      <4>4. QED
        BY <2>2, <4>2, <4>3
    <3>2. QED
      BY <3>1
  <2>10. InOrder(Append(h, m))
    <3>1. InOrder(h)
      BY DEF StreamInv, h
    <3>2. QED
      BY <2>1, <2>3, <2>9, <3>1, OneReceived
  <2>11. \A i \in 1..Len(Append(h, m)) : i \in 1..Len(h) \/ i = Len(h) + 1
    BY <2>4
  <2>12. \A i \in 1..Len(History') : Later(History'[i])
    <3> HIDE DEF Later
    <3>1. \A i \in 1..Len(Append(h, m)) : Later(Append(h, m)[i])
      BY <2>4, <2>7, <2>8, <2>11
    <3>2. QED
      BY <2>3, <3>1
  <2>13. \A i \in 1..Len(History') : Stems(History[i])'
    BY <2>12 DEF Stems, Precedes
  <2>14. InOrder(History)'
    BY <2>3, <2>10 DEF InOrder, Before
  <2>15. \A u \in open' : u < nextConn'
    BY <1>5 DEF StreamInv
  <2>16. QED
    BY <2>6, <2>13, <2>14, <2>15 DEF StreamInv
<1>10. QED
  BY <1>4, <1>8, <1>9

(* The script takes the oldest message: what has been received is the same. *)
LEMMA StreamTaken ==
  ASSUME NEW c \in Callers, TypeOK, StreamInv, ReceiveMessage(c)
  PROVE  StreamInv'
<1>1. /\ queue \in Seq(Message) /\ delivered \in Seq(Message) /\ queue # <<>>
      /\ delivered' = Append(delivered, Head(queue)) /\ queue' = Tail(queue)
  BY DEF TypeOK, ReceiveMessage, PopFront
<1>2. /\ Head(queue) \in Message /\ Tail(queue) \in Seq(Message)
      /\ <<Head(queue)>> \in Seq(Message) /\ queue = <<Head(queue)>> \o Tail(queue)
  BY <1>1, HeadTailProperties
<1>3. Append(delivered, Head(queue)) = delivered \o <<Head(queue)>>
  BY <1>1, <1>2, AppendIsConcat
<1>4. (delivered \o <<Head(queue)>>) \o Tail(queue) = delivered \o (<<Head(queue)>> \o Tail(queue))
  BY <1>1, <1>2, ConcatAssociative
<1>5. History' = History
  BY <1>1, <1>2, <1>3, <1>4 DEF History
<1>6. UNCHANGED <<inflight, sent, open, nextConn>>
  BY DEF ReceiveMessage, network
<1>7. QED
  BY <1>5, <1>6, StreamSame

(* The handshake's recv takes the first of the stream with the answer.     *)
LEMMA StreamDropped ==
  ASSUME NEW c \in Callers, TypeOK, StreamInv, Handshake(c)
  PROVE  StreamInv'
<1>1. socket \in Conns /\ inflight \in [Conns -> Seq(Segment)]
  BY DEF TypeOK, Handshake
<1>2. PICK len \in 0..Len(inflight[socket]) :
        inflight' = [inflight EXCEPT ![socket] = SubSeq(@, len + 1, Len(@))]
  BY DEF Handshake
<1>3. ASSUME NEW u \in Conns
      PROVE  \E k \in 0..Len(inflight[u]) :
               inflight'[u] = SubSeq(inflight[u], k + 1, Len(inflight[u]))
  <2>1. CASE u = socket
    BY <1>1, <1>2, <2>1
  <2>2. CASE u # socket
    <3>1. inflight[u] \in Seq(Segment) /\ SubSeq(inflight[u], 0 + 1, Len(inflight[u])) = inflight[u]
      BY <1>1
    <3>2. 0 \in 0..Len(inflight[u])
      BY <3>1
    <3>3. QED
      BY <1>1, <1>2, <2>2, <3>1, <3>2
  <2>3. QED
    BY <2>1, <2>2
<1>4. History' = History /\ UNCHANGED <<sent, open, nextConn>>
  BY DEF Handshake, History
<1>5. QED
  BY <1>3, <1>4, StreamKept

(* The server sends: the frame follows those on the way.                   *)
LEMMA StreamSent ==
  ASSUME NEW s \in Conns, TypeOK, StreamInv, ServerSend(s)
  PROVE  StreamInv'
<1> DEFINE n == Len(sent[s]) + 1
           q == inflight[s]
           f == <<[n |-> n, part |-> "first"], [n |-> n, part |-> "last"]>>
           r == q \o f
<1>1. /\ sent \in [Conns -> Seq(Frames)] /\ inflight \in [Conns -> Seq(Segment)]
      /\ q \in Seq(Segment) /\ Len(sent[s]) \in Nat /\ n \in 1..MaxFrames
      /\ inflight' = [inflight EXCEPT ![s] = r]
  <2>1. sent \in [Conns -> Seq(Frames)] /\ inflight \in [Conns -> Seq(Segment)]
    BY DEF TypeOK
  <2>2. q \in Seq(Segment) /\ Len(sent[s]) \in Nat /\ Len(sent[s]) < MaxFrames /\ MaxFrames \in Nat
    BY <2>1, ClientAssumption DEF ServerSend, ClientAssumption
  <2>3. n \in 1..MaxFrames
    BY <2>2
  <2>4. inflight' = [inflight EXCEPT ![s] = r]
    BY DEF ServerSend
  <2>5. QED
    BY <2>1, <2>2, <2>3, <2>4
<1>2. /\ History' = History /\ UNCHANGED <<open, nextConn>>
  BY DEF ServerSend, receivers, History
<1>3. Len(sent'[s]) = n /\ \A u \in Conns \ {s} : sent'[u] = sent[u]
  BY <1>1 DEF ServerSend
<1>4. OnTheWay(s)
  BY DEF StreamInv
<1>5. /\ f \in Seq(Segment) /\ Len(f) = 2
      /\ f[1].n = n /\ f[1].part = "first" /\ f[2].n = n /\ f[2].part = "last"
  BY <1>1 DEF Segment
<1> HIDE DEF f
<1>6. /\ r \in Seq(Segment) /\ Len(r) = Len(q) + 2
      /\ \A k \in 1..(Len(q) + 2) : r[k] = IF k <= Len(q) THEN q[k] ELSE f[k - Len(q)]
  <2>1. /\ r \in Seq(Segment) /\ Len(r) = Len(q) + Len(f)
        /\ \A k \in 1..(Len(q) + Len(f)) : r[k] = IF k <= Len(q) THEN q[k] ELSE f[k - Len(q)]
    BY <1>1, <1>5, ConcatProperties
  <2> HIDE DEF r
  <2>2. QED
    BY <1>5, <2>1
<1> HIDE DEF r
<1>7. \A k \in 1..Len(q) : q[k].n \in Nat /\ q[k].n < n
  <2>1. \A k \in 1..Len(q) : q[k].n \in 1..MaxFrames /\ q[k].n <= Len(sent[s])
    <3>1. \A x \in Segment : x.n \in 1..MaxFrames
      BY DEF Segment
    <3>2. QED
      BY <1>1, <1>4, <3>1 DEF OnTheWay
  <2>2. QED
    BY <1>1, <2>1
<1>8. \A k \in 1..Len(r) :
        \/ k \in 1..Len(q) /\ r[k] = q[k]
        \/ k = Len(q) + 1 /\ r[k].n = n /\ r[k].part = "first"
        \/ k = Len(q) + 2 /\ r[k].n = n /\ r[k].part = "last"
  <2>1. Len(q) \in Nat
    BY <1>1
  <2>2. ASSUME NEW k \in 1..Len(r), k \notin 1..Len(q)
        PROVE  (k = Len(q) + 1 /\ r[k] = f[1]) \/ (k = Len(q) + 2 /\ r[k] = f[2])
    <3>1. k \in 1..(Len(q) + 2) /\ ~(k <= Len(q))
      BY <1>6, <2>1, <2>2
    <3>2. (k = Len(q) + 1 /\ k - Len(q) = 1) \/ (k = Len(q) + 2 /\ k - Len(q) = 2)
      BY <2>1, <3>1
    <3>3. r[k] = f[k - Len(q)]
      BY <1>6, <3>1
    <3>4. QED
      BY <3>2, <3>3
  <2>3. \A k \in 1..Len(q) : k \in 1..(Len(q) + 2) /\ k <= Len(q)
    BY <2>1
  <2>4. QED
    BY <1>5, <1>6, <2>2, <2>3
<1>9. Ordered(r)
  <2>1. SUFFICES ASSUME NEW k \in 1..Len(r), NEW l \in 1..Len(r), k < l
                 PROVE  /\ r[k].n <= r[l].n
                        /\ r[k].part = "last" \/ r[l].part = "first" => r[k].n < r[l].n
    BY DEF Ordered
  <2>2. Len(q) \in Nat /\ k \in Int /\ l \in Int
    BY <1>1
  <2>3. CASE l \in 1..Len(q)
    <3>1. k \in 1..Len(q) /\ ~(k = Len(q) + 1) /\ ~(k = Len(q) + 2)
          /\ ~(l = Len(q) + 1) /\ ~(l = Len(q) + 2)
      BY <2>1, <2>2, <2>3
    <3>2. r[k] = q[k] /\ r[l] = q[l]
      BY <1>8, <3>1
    <3>3. QED
      BY <1>4, <2>1, <2>3, <3>1, <3>2 DEF OnTheWay, Ordered
  <2>4. CASE l \notin 1..Len(q) /\ k \in 1..Len(q)
    <3>1. r[l].n = n
      BY <1>8, <2>4
    <3>2. r[k] = q[k]
      <4>1. ~(k = Len(q) + 1) /\ ~(k = Len(q) + 2)
        BY <2>2, <2>4
      <4>2. QED
        BY <1>8, <4>1
    <3>3. q[k].n < n /\ q[k].n \in Nat /\ n \in Nat
      BY <1>1, <1>7, <2>4
    <3>4. QED
      BY <3>1, <3>2, <3>3
  <2>5. CASE l \notin 1..Len(q) /\ k \notin 1..Len(q)
    <3>1. k = Len(q) + 1 /\ l = Len(q) + 2
      BY <1>8, <2>1, <2>2, <2>5
    <3>2. /\ ~(k \in 1..Len(q)) /\ ~(k = Len(q) + 2) /\ ~(l \in 1..Len(q)) /\ ~(l = Len(q) + 1)
      BY <2>2, <3>1
    <3>3. r[k].n = n /\ r[k].part = "first" /\ r[l].n = n /\ r[l].part = "last"
      BY <1>8, <3>2
    <3>4. n <= n /\ ~("first" = "last")
      BY <1>1
    <3>5. QED
      BY <3>3, <3>4
  <2>6. QED
    BY <2>3, <2>4, <2>5
<1>10. \A k \in 1..Len(r) : r[k].n <= n
  <2>1. \A k \in 1..Len(q) : q[k].n <= n
    BY <1>1, <1>7
  <2>2. n <= n
    BY <1>1
  <2>3. QED
    BY <1>8, <2>1, <2>2
<1>11. inflight'[s] = r /\ \A u \in Conns \ {s} : inflight'[u] = inflight[u]
  BY <1>1
<1>12. ASSUME NEW u \in Conns PROVE OnTheWay(u)'
  <2>1. CASE u = s
    BY <1>3, <1>9, <1>10, <1>11, <2>1 DEF OnTheWay, Ordered
  <2>2. CASE u # s
    <3>1. OnTheWay(u) /\ inflight'[u] = inflight[u] /\ sent'[u] = sent[u]
      BY <1>3, <1>11, <2>2 DEF StreamInv
    <3>2. QED
      BY <3>1 DEF OnTheWay, Ordered
  <2>3. QED
    BY <2>1, <2>2
<1>13. ASSUME NEW i \in 1..Len(History) PROVE Stems(History[i])'
  <2> DEFINE m == History[i]
  <2>1. m \in Message /\ Stems(m)
    <3>1. History \in Seq(Message)
      BY ConcatProperties DEF TypeOK, History
    <3>2. QED
      BY <3>1 DEF StreamInv
  <2>2. m.conn \in Conns /\ m.n \in Nat
    <3>1. m.conn \in Conns /\ m.n \in 1..MaxFrames
      BY <2>1 DEF Message
    <3>2. QED
      BY <3>1
  <2>3. Precedes(m, inflight'[m.conn]) /\ m.n <= Len(sent'[m.conn])
    <3>1. CASE m.conn = s
      <4>1. m.n <= Len(sent[s]) /\ m.n < n /\ m.n <= n
        BY <1>1, <2>1, <2>2, <3>1 DEF Stems
      <4>2. \A k \in 1..Len(r) : m.n <= r[k].n /\ (m.whole \/ r[k].part = "first" => m.n < r[k].n)
        BY <1>8, <2>1, <3>1, <4>1 DEF Stems, Precedes
      <4>3. QED
        BY <1>3, <1>11, <3>1, <4>1, <4>2 DEF Precedes
    <3>2. CASE m.conn # s
      BY <1>3, <1>11, <2>1, <2>2, <3>2 DEF Stems
    <3>3. QED
      BY <3>1, <3>2
  <2>4. m' = m
    BY <1>2
  <2>5. QED
    BY <1>2, <2>1, <2>3, <2>4 DEF Stems, Precedes
<1>14. InOrder(History)'
  BY <1>2 DEF StreamInv, InOrder, Before
<1>15. QED
  BY <1>2, <1>12, <1>13, <1>14 DEF StreamInv

(* A new connection is newer than every message received.                  *)
LEMMA StreamOpened ==
  ASSUME NEW c \in Callers, OneCallerInv(c), StreamInv, ConnectDial(c) \/ ConnectUpgrade(c)
  PROVE  StreamInv'
<1>1. pc[c] = "opening" /\ nextConn \in Conns /\ nextConn' = nextConn + 1
      /\ open' = open \cup {nextConn}
  BY DEF ConnectDial, ConnectUpgrade, NewConnection, Goto
<1>2. open = {} /\ nextConn \in Nat
  BY <1>1 DEF OneCallerInv, Place, Closed, Conns
<1>3. History' = History /\ UNCHANGED <<inflight, sent>>
  BY DEF ConnectDial, ConnectUpgrade, History
<1>4. ASSUME NEW i \in 1..Len(History) PROVE Stems(History[i])'
  <2> DEFINE m == History[i]
  <2>1. m \in Message /\ Stems(m)
    <3>1. History \in Seq(Message)
      BY ConcatProperties DEF OneCallerInv, TypeOK, History
    <3>2. QED
      BY <3>1 DEF StreamInv
  <2>2. m.conn \in Conns /\ m.conn < nextConn
    BY <2>1 DEF Stems, Message
  <2>3. m.conn <= nextConn /\ m.conn < nextConn + 1
    BY <1>2, <2>2 DEF Conns
  <2>4. m' = m
    BY <1>3
  <2>5. QED
    BY <1>1, <1>2, <1>3, <2>1, <2>3, <2>4 DEF Stems, Precedes
<1>5. \A s \in open' : s < nextConn'
  BY <1>1, <1>2
<1>6. InOrder(History)' /\ \A s \in Conns : OnTheWay(s)'
  BY <1>3 DEF StreamInv, InOrder, Before, OnTheWay, Ordered
<1>7. QED
  BY <1>3, <1>4, <1>5, <1>6 DEF StreamInv

(* Where there is one caller the stream stays in order.                    *)
LEMMA StreamNext ==
  ASSUME NEW c, Callers = {c}
  PROVE  OneCallerInv(c) /\ StreamInv /\ [Next]_wsVars => StreamInv'
<1> SUFFICES ASSUME OneCallerInv(c), StreamInv, [Next]_wsVars PROVE StreamInv'
  OBVIOUS
<1>0. TypeOK /\ c \in Callers
  BY DEF OneCallerInv
<1> USE DEF client, network, callers, receivers, History
<1>1. CASE \/ ConnectCheck(c) \/ ConnectFail(c) \/ HandshakeFail(c) \/ ConnectConnected(c)
           \/ ConnectRunning(c) \/ ConnectSpawn(c)
  BY <1>0, <1>1, StreamSame
     DEF ConnectCheck, ConnectFail, HandshakeFail, ConnectConnected, ConnectRunning, ConnectSpawn
<1>2. CASE ConnectDial(c) \/ ConnectUpgrade(c)
  BY <1>0, <1>2, StreamOpened
<1>3. CASE DisconnectCheck(c) \/ DisconnectStop(c) \/ DisconnectDrop(c) \/ DisconnectJoin(c)
  BY <1>0, <1>3, StreamSame DEF DisconnectCheck, DisconnectStop, DisconnectDrop, DisconnectJoin
<1>4. CASE DisconnectClose(c) \/ DisconnectHandles(c)
  BY <1>0, <1>4, StreamSame DEF DisconnectClose, CloseSocket, DisconnectHandles
<1>5. CASE ReceiveMessage(c)
  BY <1>0, <1>5, StreamTaken
<1>6. ASSUME NEW t \in Conns, LoopTest(t) \/ ReceiveEnd(t) \/ ServerClose(t) PROVE StreamInv'
  BY <1>0, <1>6, StreamSame DEF LoopTest, ReceiveEnd, ServerClose
<1>7. ASSUME NEW t \in Conns, Receive(t) PROVE StreamInv'
  BY <1>0, <1>7, StreamReceive
<1>8. ASSUME NEW t \in Conns, ServerSend(t) PROVE StreamInv'
  BY <1>0, <1>8, StreamSent
<1>9. CASE Handshake(c)
  BY <1>0, <1>9, StreamDropped
<1>10. CASE UNCHANGED wsVars
  BY <1>0, <1>10, StreamSame DEF wsVars
<1>11. QED
  BY <1>1, <1>2, <1>3, <1>4, <1>5, <1>6, <1>7, <1>8, <1>9, <1>10
     DEF Next, Connect, ConnectRest, DisconnectRest, ReceiverStep

(* At the start nothing is on the way and nothing has been received.       *)
LEMMA StreamInit ==
  ASSUME Init
  PROVE  StreamInv
<1>1. History = <<>> /\ Len(History) = 0
  BY DEF Init, History
<1>2. \A s \in Conns : OnTheWay(s)
  BY DEF Init, OnTheWay, Ordered
<1>3. QED
  BY <1>1, <1>2 DEF Init, StreamInv, InOrder

-----------------------------------------------------------------------------
(* The client as a channel.                                                *)

(* The message that WebSocketReceive hands out is the next one the channel *)
(* may hand out.                                                           *)
LEMMA TakesNext ==
  ASSUME NEW c \in Callers, TypeOK, StreamInv, ReceiveMessage(c)
  PROVE  \E s \in Conns : Channel!Take(s)
<1> DEFINE m == Head(queue)
           h == History
           k == Len(delivered) + 1
           s == m.conn
<1>1. /\ queue \in Seq(Message) /\ delivered \in Seq(Message) /\ queue # <<>>
      /\ delivered' = Append(delivered, m) /\ UNCHANGED sent
  BY DEF TypeOK, ReceiveMessage, network
<1>2. /\ m \in Message /\ s \in Conns /\ Len(queue) \in Nat /\ Len(queue) >= 1 /\ m = queue[1]
      /\ Len(delivered) \in Nat
  <2>1. Len(queue) \in Nat /\ Len(queue) >= 1 /\ Len(delivered) \in Nat
    BY <1>1, EmptySeq
  <2>2. m = queue[1] /\ 1 \in 1..Len(queue)
    BY <1>1, <2>1
  <2>3. m \in Message
    BY <1>1, <2>2, ElementOfSeq
  <2>4. m.conn \in Conns
    BY <2>3 DEF Message
  <2>5. QED
    BY <2>1, <2>2, <2>3, <2>4
<1>3. /\ h \in Seq(Message) /\ Len(h) = Len(delivered) + Len(queue)
      /\ \A i \in 1..(Len(delivered) + Len(queue)) :
           h[i] = IF i <= Len(delivered) THEN delivered[i] ELSE queue[i - Len(delivered)]
  BY <1>1, ConcatProperties DEF History
<1> HIDE DEF h, m
<1>4. /\ k \in 1..Len(h) /\ h[k] = m
      /\ \A i \in 1..Len(delivered) : i \in 1..Len(h) /\ i < k /\ h[i] = delivered[i]
  <2>1. /\ \A i \in 1..Len(delivered) : i \in 1..(Len(delivered) + Len(queue)) /\ i < k /\ i <= Len(delivered)
        /\ k \in 1..(Len(delivered) + Len(queue)) /\ ~(k <= Len(delivered)) /\ k - Len(delivered) = 1
    BY <1>2
  <2>2. QED
    BY <1>2, <1>3, <2>1
<1>5. \A i \in 1..Len(delivered) :
        delivered[i].conn <= s /\ (delivered[i].conn = s => Before(delivered[i], m))
  BY <1>4 DEF StreamInv, InOrder, h
<1>6. m.n \in 1..Len(sent[s]) /\ m.whole \in BOOLEAN
  <2>1. Stems(m) /\ m.n \in 1..MaxFrames /\ m.whole \in BOOLEAN /\ sent[s] \in Seq(Frames)
    BY <1>2, <1>4 DEF StreamInv, h, Message, TypeOK
  <2>2. m.n <= Len(sent[s]) /\ Len(sent[s]) \in Nat
    BY <2>1 DEF Stems
  <2>3. QED
    BY <2>1, <2>2
<1>7. m = [conn |-> s, n |-> m.n, whole |-> m.whole]
  BY <1>2 DEF Message
<1>8. Channel!IsNext(s, m.n, m.whole)
  BY <1>5 DEF Channel!IsNext, Before
<1>9. Channel!Take(s)
  BY <1>1, <1>5, <1>6, <1>7, <1>8 DEF Channel!Take
<1>10. QED
  BY <1>2, <1>9

(* Every other step of the client is none of the channel's.                *)
LEMMA ChannelStep ==
  ASSUME NEW c, Callers = {c}, OneCallerInv(c), StreamInv, [Next]_wsVars
  PROVE  [Channel!Next]_(Channel!channel)
<1>0. TypeOK /\ c \in Callers
  BY DEF OneCallerInv
<1> USE DEF client, network, callers, receivers, Channel!channel
<1>1. CASE \/ ConnectCheck(c) \/ ConnectDial(c) \/ ConnectUpgrade(c) \/ ConnectFail(c)
           \/ Handshake(c) \/ HandshakeFail(c) \/ ConnectConnected(c) \/ ConnectRunning(c)
           \/ ConnectSpawn(c)
  BY <1>1 DEF ConnectCheck, ConnectDial, ConnectUpgrade, ConnectFail, Handshake, HandshakeFail,
              ConnectConnected, ConnectRunning, ConnectSpawn
<1>2. CASE \/ DisconnectCheck(c) \/ DisconnectStop(c) \/ DisconnectDrop(c) \/ DisconnectClose(c)
           \/ DisconnectJoin(c) \/ DisconnectHandles(c)
  BY <1>2 DEF DisconnectCheck, DisconnectStop, DisconnectDrop, DisconnectClose, DisconnectJoin,
              DisconnectHandles
<1>3. CASE ReceiveMessage(c)
  BY <1>0, <1>3, TakesNext DEF Channel!Next
<1>4. ASSUME NEW t \in Conns, ReceiverStep(t) \/ ServerClose(t) PROVE UNCHANGED Channel!channel
  BY <1>4 DEF ReceiverStep, LoopTest, Receive, ReceiveEnd, ServerClose
<1>5. ASSUME NEW s \in Conns, ServerSend(s) PROVE Channel!Send(s)
  BY <1>5 DEF ServerSend, Channel!Send
<1>6. CASE UNCHANGED wsVars
  BY <1>6 DEF wsVars
<1>7. QED
  BY <1>1, <1>2, <1>3, <1>4, <1>5, <1>6
     DEF Next, Connect, ConnectRest, DisconnectRest, Channel!Next

(* With one caller the client is a WebSocketChannel, in whatever parts the *)
(* stream is read: WebSocketReceive hands out frames the servers have sent *)
(* or pieces of them, repeats none and keeps their order.                  *)
THEOREM ChannelImplemented ==
  ASSUME NEW c, Callers = {c}
  PROVE  Spec => ImplementsChannel
<1>1. Init => Channel!Init
  BY DEF Init, Channel!Init
<1>2. Init => StreamInv
  BY StreamInit
<1>3. OneCallerInv(c) /\ StreamInv /\ [Next]_wsVars => StreamInv'
  BY StreamNext
<1>4. OneCallerInv(c) /\ StreamInv /\ [Next]_wsVars => [Channel!Next]_(Channel!channel)
  BY ChannelStep
<1>5. QED
  BY <1>1, <1>2, <1>3, <1>4, OneCallerAlways, PTL DEF Spec, ImplementsChannel, Channel!Spec
=============================================================================
