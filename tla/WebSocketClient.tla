--------------------------- MODULE WebSocketClient ---------------------------
(***************************************************************************)
(* The one WebSocket connection of source/websocket_client.cpp.  The       *)
(* global client is used by the main script and by every worker thread,    *)
(* and each connection has a receiving thread.  Only the message queue is  *)
(* under m_mutex; everything else is read and written without a lock, so   *)
(* connect and disconnect are modelled one shared access at a time.        *)
(*                                                                         *)
(* Connections are numbered in the order they are opened; the number       *)
(* stands for the socket, the WinHTTP handle and the receiving thread made *)
(* for it.  The server is the environment: it sends, and may close, when   *)
(* it likes.  A frame is two segments of the stream, so that a recv can    *)
(* return part of a frame or more than one.  A server of a ws connection   *)
(* sends texts and control frames (Ping, Pong, Close), with or without a   *)
(* payload; over wss WinHTTP keeps the control frames to itself, and a     *)
(* Close, which ends the receiving loop, counts as the hang-up it starts.  *)
(*                                                                         *)
(* Data left out: addresses, the handshake's text, masking and lengths.    *)
(***************************************************************************)
EXTENDS Integers, Sequences, FiniteSets

CONSTANTS
    Callers,   \* threads that call the client: the main script, workers
    Schemes,   \* URL schemes the scripts use: a subset of {"ws", "wss"}
    MaxConn,   \* bound: connections opened in a behaviour
    MaxFrames  \* bound: frames the servers send, over all connections

Conns  == 1..MaxConn
None   == 0     \* INVALID_SOCKET, a null handle, a thread that is not joinable
Frames == {"text", "control"}
Requests == {"session", "connect", "request"}   \* WinHTTP's other handles

ASSUME ClientAssumption ==
    /\ MaxConn \in Nat /\ MaxFrames \in Nat
    /\ Schemes \subseteq {"ws", "wss"}

VARIABLES
    connected, running,   \* m_connected, m_running
    secure,               \* m_secure
    socket,               \* m_socket
    handle,               \* m_hWebSocket
    requests,             \* those of m_hSession, m_hConnect, m_hRequest that are set
    thread,               \* m_thread: the thread a join would wait for
    queue,                \* m_messageQueue
    terminated,           \* std::terminate: a joinable std::thread was overwritten
    pc, mine,             \* a caller's place, and the connection it is opening
    rx, rxSocket,         \* a receiving thread's place, and what its recv reads from
    kind,                 \* "ws" or "wss": the loop a receiving thread runs
    open,                 \* connections whose socket or handle is open
    inflight,             \* segments sent by the server and not yet received
    sent, hungUp,         \* frames the server has sent; whether it has closed
    nextConn,             \* the number of the next connection
    delivered             \* history: what WebSocketReceive has returned

client  == <<connected, running, secure, socket, handle, requests, thread, terminated>>
network == <<open, inflight, sent, hungUp>>
callers == <<pc, mine>>
receivers == <<rx, rxSocket, kind>>
wsVars  == <<client, queue, callers, receivers, network, nextConn, delivered>>

Message == [conn : Conns, n : 1..MaxFrames, whole : BOOLEAN]
Segment == [n : 1..MaxFrames, part : {"first", "last"}]

TypeOK ==
    /\ connected \in BOOLEAN /\ running \in BOOLEAN /\ secure \in BOOLEAN
    /\ {socket, handle, thread} \subseteq Conns \cup {None}
    /\ requests \subseteq Requests
    /\ terminated \in BOOLEAN
    /\ queue \in Seq(Message) /\ delivered \in Seq(Message)
    /\ pc \in [Callers -> {"idle", "opening", "handshake", "connected", "running",
                           "spawn", "stop", "drop", "close", "join", "handles"}]
    /\ mine \in [Callers -> Conns \cup {None}]
    /\ rx \in [Conns -> {"none", "test", "recv", "done"}]
    /\ rxSocket \in [Conns -> Conns \cup {None}]
    /\ kind \in [Conns -> {"ws", "wss"}]
    /\ open \subseteq Conns
    /\ inflight \in [Conns -> Seq(Segment)]
    /\ sent \in [Conns -> Seq(Frames)]
    /\ hungUp \in [Conns -> BOOLEAN]
    /\ nextConn \in 1..(MaxConn + 1)

Init ==
    /\ connected = FALSE /\ running = FALSE /\ secure = FALSE
    /\ socket = None /\ handle = None /\ requests = {} /\ thread = None
    /\ terminated = FALSE
    /\ queue = <<>> /\ delivered = <<>>
    /\ pc = [c \in Callers |-> "idle"] /\ mine = [c \in Callers |-> None]
    /\ rx = [t \in Conns |-> "none"] /\ rxSocket = [t \in Conns |-> None]
    /\ kind = [t \in Conns |-> "ws"]
    /\ open = {}
    /\ inflight = [s \in Conns |-> <<>>]
    /\ sent = [s \in Conns |-> <<>>] /\ hungUp = [s \in Conns |-> FALSE]
    /\ nextConn = 1

Goto(c, from, to) == pc[c] = from /\ pc' = [pc EXCEPT ![c] = to]

-----------------------------------------------------------------------------
(* connect.                                                                *)

(* It refuses while the client is connected or running; otherwise it       *)
(* parses the URL, which sets m_secure.                                    *)
ConnectCheck(c) ==
    /\ ~connected /\ ~running
    /\ nextConn \in Conns
    /\ \E scheme \in Schemes : secure' = (scheme = "wss")
    /\ Goto(c, "idle", "opening")
    /\ UNCHANGED <<connected, running, socket, handle, requests, thread, terminated, queue, mine,
                   receivers, network, nextConn, delivered>>

(* A new connection is made; its number is where connect looks for it.     *)
NewConnection(c, scheme) ==
    /\ nextConn \in Conns
    /\ nextConn' = nextConn + 1
    /\ mine' = [mine EXCEPT ![c] = nextConn]
    /\ open' = open \cup {nextConn}
    /\ kind' = [kind EXCEPT ![nextConn] = scheme]

(* ws: resolve_and_connect puts a connected socket in m_socket.            *)
ConnectDial(c) ==
    /\ ~secure
    /\ Goto(c, "opening", "handshake")
    /\ NewConnection(c, "ws")
    /\ socket' = nextConn
    /\ UNCHANGED <<connected, running, secure, handle, requests, thread, terminated, queue,
                   rx, rxSocket, inflight, sent, hungUp, delivered>>

(* Its one recv of up to 1023 bytes returns the server's answer, and with  *)
(* it whatever of the first frames has come: that is not looked at again.  *)
Handshake(c) ==
    /\ socket \in open
    /\ Goto(c, "handshake", "connected")
    /\ \E len \in 0..Len(inflight[socket]) :
         inflight' = [inflight EXCEPT ![socket] = SubSeq(@, len + 1, Len(@))]
    /\ UNCHANGED <<client, queue, mine, receivers, open, sent, hungUp, nextConn, delivered>>

(* The answer is another one, or the connection breaks: m_socket is closed *)
(* and invalidated.                                                        *)
HandshakeFail(c) ==
    /\ Goto(c, "handshake", "idle")
    /\ open' = open \ {socket}
    /\ socket' = None
    /\ UNCHANGED <<connected, running, secure, handle, requests, thread, terminated, queue,
                   mine, receivers, inflight, sent, hungUp, nextConn, delivered>>

(* wss: connect_wss makes a session, a connection and a request, and of    *)
(* the request m_hWebSocket; m_hRequest is then nulled, not closed.        *)
ConnectUpgrade(c) ==
    /\ secure
    /\ Goto(c, "opening", "connected")
    /\ NewConnection(c, "wss")
    /\ handle' = nextConn /\ requests' = {"session", "connect"}
    /\ UNCHANGED <<connected, running, secure, socket, thread, terminated, queue, rx, rxSocket,
                   inflight, sent, hungUp, delivered>>

(* No connection: the name or the TCP connection fails (ws), or one of     *)
(* connect_wss's calls, and what has been made before it stays.            *)
ConnectFail(c) ==
    /\ Goto(c, "opening", "idle")
    /\ \/ ~secure /\ UNCHANGED <<handle, requests>>
       \/ /\ secure /\ UNCHANGED handle
          /\ requests' \in {requests \ {"session"},
                            (requests \cup {"session"}) \ {"connect"},
                            (requests \cup {"session", "connect"}) \ {"request"},
                            Requests}
       \/ secure /\ requests' = Requests /\ handle' = None
    /\ UNCHANGED <<connected, running, secure, socket, thread, terminated, queue, mine,
                   receivers, network, nextConn, delivered>>

ConnectConnected(c) ==
    /\ Goto(c, "connected", "running")
    /\ connected' = TRUE
    /\ UNCHANGED <<running, secure, socket, handle, requests, thread, terminated, queue, mine,
                   receivers, network, nextConn, delivered>>

ConnectRunning(c) ==
    /\ Goto(c, "running", "spawn")
    /\ running' = TRUE
    /\ UNCHANGED <<connected, secure, socket, handle, requests, thread, terminated, queue, mine,
                   receivers, network, nextConn, delivered>>

(* m_thread = std::thread(...): the new thread starts, then the assignment *)
(* terminates the program if m_thread is still joinable.                   *)
ConnectSpawn(c) ==
    /\ Goto(c, "spawn", "idle")
    /\ rx' = [rx EXCEPT ![mine[c]] = "test"]
    /\ IF thread = None
       THEN thread' = mine[c] /\ UNCHANGED terminated
       ELSE terminated' = TRUE /\ UNCHANGED thread
    /\ UNCHANGED <<connected, running, secure, socket, handle, requests, queue, mine, rxSocket,
                   kind, network, nextConn, delivered>>

-----------------------------------------------------------------------------
(* disconnect.                                                             *)

DisconnectCheck(c) ==
    /\ connected \/ running
    /\ Goto(c, "idle", "stop")
    /\ UNCHANGED <<client, queue, mine, receivers, network, nextConn, delivered>>

DisconnectStop(c) ==
    /\ Goto(c, "stop", "drop")
    /\ running' = FALSE
    /\ UNCHANGED <<connected, secure, socket, handle, requests, thread, terminated, queue, mine,
                   receivers, network, nextConn, delivered>>

DisconnectDrop(c) ==
    /\ Goto(c, "drop", "close")
    /\ connected' = FALSE
    /\ UNCHANGED <<running, secure, socket, handle, requests, thread, terminated, queue, mine,
                   receivers, network, nextConn, delivered>>

KeepSocketOpen(s) == open                             \* mutant: forgets closesocket
CloseSocket(s) == open \ {s}

DisconnectClose(c) ==
    /\ Goto(c, "close", "join")
    /\ open' = CloseSocket(socket)
    /\ socket' = None
    /\ UNCHANGED <<connected, running, secure, handle, requests, thread, terminated, queue, mine,
                   receivers, inflight, sent, hungUp, nextConn, delivered>>

(* if (m_thread.joinable()) m_thread.join();                               *)
JoinOver(t) == t # None => rx[t] = "done"

DetachReceiver(c) ==                                  \* mutant: detach for join
    /\ Goto(c, "join", "handles")
    /\ thread' = None
    /\ UNCHANGED <<connected, running, secure, socket, handle, requests, terminated, queue, mine,
                   receivers, network, nextConn, delivered>>
SkipJoin(c) ==                                        \* mutant: no join
    /\ Goto(c, "join", "handles")
    /\ UNCHANGED <<client, queue, mine, receivers, network, nextConn, delivered>>

DisconnectJoin(c) ==
    /\ JoinOver(thread)
    /\ Goto(c, "join", "handles")
    /\ thread' = None
    /\ UNCHANGED <<connected, running, secure, socket, handle, requests, terminated, queue, mine,
                   receivers, network, nextConn, delivered>>

(* m_hWebSocket is closed, then what is left of request, connection and    *)
(* session: nobody else uses them after the join.                          *)
DisconnectHandles(c) ==
    /\ Goto(c, "handles", "idle")
    /\ open' = open \ {handle}
    /\ handle' = None /\ requests' = {}
    /\ UNCHANGED <<connected, running, secure, socket, thread, terminated, queue, mine,
                   receivers, inflight, sent, hungUp, nextConn, delivered>>

-----------------------------------------------------------------------------
(* receive_message: an empty queue gives the empty string.                 *)
KeepFront(q) == q                                     \* mutant: front() without pop()
PopFront(q) == Tail(q)

ReceiveMessage(c) ==
    /\ pc[c] = "idle" /\ queue # <<>>
    /\ delivered' = Append(delivered, Head(queue))
    /\ queue' = PopFront(queue)
    /\ UNCHANGED <<client, callers, receivers, network, nextConn>>

-----------------------------------------------------------------------------
(* The receiving thread.                                                   *)

(* The loop condition.  recv reads m_socket afresh, whatever connection    *)
(* the thread was made for; so does the wss loop with m_hWebSocket.        *)
Source(t) == IF kind[t] = "ws" THEN socket ELSE handle

LoopOn(t) == running /\ connected /\ (kind[t] = "wss" => handle # None)

LoopTest(t) ==
    /\ rx[t] = "test"
    /\ rx' = [rx EXCEPT ![t] = IF LoopOn(t) THEN "recv" ELSE "done"]
    /\ rxSocket' = [rxSocket EXCEPT ![t] = Source(t)]
    /\ UNCHANGED <<client, queue, callers, kind, network, nextConn, delivered>>

(* recv returns whatever prefix of the stream has come.  WinHTTP hands a   *)
(* message over, or as much of it as has come or fits the buffer.          *)
ChunkLengths(t, stream) ==
    IF kind[t] = "ws" THEN 1..Len(stream)
    ELSE {len \in 1..Len(stream) : len = 1 \/ (len = 2 /\ stream[1].part = "first")}

(* The message made of a chunk, if any.  websocket_frame_decode sees a     *)
(* chunk as one frame: what follows it is dropped, an incomplete frame     *)
(* gives "" as one without payload does, the tail of one is read as if it  *)
(* were a header.  fin and opcode are not looked at.  The wss loop takes   *)
(* any part for a message.  What it is made of a chunk is numbered by the  *)
(* frame the chunk starts in.                                              *)
Decoded(t, s, chunk) ==
    LET whole == chunk[1].part = "first" /\ Len(chunk) >= 2
        message == <<[conn |-> s, n |-> chunk[1].n, whole |-> whole]>>
    IN  IF whole \/ chunk[1].part = "last" \/ kind[t] = "wss" THEN {<<>>, message} ELSE {<<>>}

Enqueue(msgs) == queue \o msgs

Receive(t) ==
    LET s == rxSocket[t] IN
    /\ rx[t] = "recv" /\ s \in open
    /\ \E len \in ChunkLengths(t, inflight[s]) :
         /\ \E msgs \in Decoded(t, s, SubSeq(inflight[s], 1, len)) : queue' = Enqueue(msgs)
         /\ inflight' = [inflight EXCEPT ![s] = SubSeq(@, len + 1, Len(@))]
    /\ rx' = [rx EXCEPT ![t] = "test"]
    /\ UNCHANGED <<client, callers, rxSocket, kind, open, sent, hungUp, nextConn, delivered>>

(* recv returns 0 or SOCKET_ERROR, or WinHTTP an error or a close: the     *)
(* server has hung up or the socket has been closed under the call.        *)
NeverNoticed == UNCHANGED connected                   \* mutant: forgets m_connected
Noticed == connected' = FALSE

ReceiveEnd(t) ==
    LET s == rxSocket[t] IN
    /\ rx[t] = "recv"
    /\ s \in open => hungUp[s] /\ inflight[s] = <<>>
    /\ rx' = [rx EXCEPT ![t] = "done"]
    /\ Noticed
    /\ UNCHANGED <<running, secure, socket, handle, requests, thread, terminated, queue, callers,
                   rxSocket, kind, network, nextConn, delivered>>

-----------------------------------------------------------------------------
(* The server.                                                             *)
FramesSent == {f \in Conns \X (1..MaxFrames) : f[2] <= Len(sent[f[1]])}

ServerSend(s) ==
    /\ s \in open /\ ~hungUp[s]
    /\ Len(sent[s]) < MaxFrames /\ Cardinality(FramesSent) < MaxFrames
    /\ \E frame \in Frames :
         /\ kind[s] = "wss" => frame # "control"
         /\ sent' = [sent EXCEPT ![s] = Append(@, frame)]
    /\ LET n == Len(sent[s]) + 1 IN
       inflight' = [inflight EXCEPT ![s] = @ \o <<[n |-> n, part |-> "first"],
                                                  [n |-> n, part |-> "last"]>>]
    /\ UNCHANGED <<client, queue, callers, receivers, open, hungUp, nextConn, delivered>>

ServerClose(s) ==
    /\ s \in open /\ ~hungUp[s]
    /\ hungUp' = [hungUp EXCEPT ![s] = TRUE]
    /\ UNCHANGED <<client, queue, callers, receivers, open, inflight, sent, nextConn, delivered>>

-----------------------------------------------------------------------------
Connect(c) ==
    \/ ConnectCheck(c) \/ ConnectDial(c) \/ Handshake(c) \/ HandshakeFail(c)
    \/ ConnectUpgrade(c) \/ ConnectFail(c)

(* What connect goes on to do once the handshake is over.                  *)
ConnectRest(c) == ConnectConnected(c) \/ ConnectRunning(c) \/ ConnectSpawn(c)

(* What disconnect goes on to do once it has found something to do.        *)
DisconnectRest(c) ==
    \/ DisconnectStop(c) \/ DisconnectDrop(c) \/ DisconnectClose(c)
    \/ DisconnectJoin(c) \/ DisconnectHandles(c)

ReceiverStep(t) == LoopTest(t) \/ Receive(t) \/ ReceiveEnd(t)

Next ==
    /\ ~terminated
    /\ \/ \E c \in Callers : Connect(c) \/ ConnectRest(c) \/ DisconnectCheck(c) \/ DisconnectRest(c)
                               \/ ReceiveMessage(c)
       \/ \E t \in Conns : ReceiverStep(t) \/ ServerSend(t) \/ ServerClose(t)

Spec == Init /\ [][Next]_wsVars

(* Threads run.  The server owes nothing: it need not send, nor close, nor *)
(* answer a handshake, whose recv then blocks for ever.                    *)
Fairness ==
    /\ \A t \in Conns : WF_wsVars(ReceiverStep(t) /\ ~terminated)
    /\ \A c \in Callers : WF_wsVars((ConnectRest(c) \/ DisconnectRest(c)) /\ ~terminated)

FairSpec == Spec /\ Fairness

-----------------------------------------------------------------------------
(* Properties.                                                             *)

Alive(t) == rx[t] \in {"test", "recv"}

(* Connecting again never overwrites a receiving thread nobody has joined, *)
(* which would end the whole process.                                      *)
NeverTerminates == ~terminated

(* When disconnect has returned, nothing of the connection is left: no     *)
(* socket, no WebSocket handle, no thread to join and none that receives.  *)
DisconnectedIsQuiet ==
    (~running /\ \A c \in Callers : pc[c] \in {"idle", "opening"}) =>
        /\ socket = None /\ handle = None /\ thread = None
        /\ open = {} /\ \A t \in Conns : ~Alive(t)

(* The receiving loops read m_socket and m_hWebSocket afresh in every      *)
(* round: a thread never receives from a connection made after it, whose   *)
(* frames it would share out with that connection's own thread.            *)
ReceivesItsOwn == \A t \in Conns : rx[t] = "recv" => rxSocket[t] \in {t, None}

(* docs/API.md:121, "Retrieves the next queued message", as far as it goes *)
(* in the code: seen from the script and the servers the client is a       *)
(* WebSocketChannel, which may lose frames and hand out pieces of frames   *)
(* and control frames, but repeats no frame and keeps the order in which   *)
(* they were sent, also across connections.                                *)
Channel == INSTANCE WebSocketChannel WITH taken <- delivered
ImplementsChannel == Channel!Spec

(* A connection the server has closed is eventually noticed, so that       *)
(* send_message stops accepting messages.                                  *)
CloseNoticed ==
    \A s \in Conns : (hungUp[s] /\ s \in open /\ running) ~> (~connected \/ s \notin open)

(* disconnect returns, although it joins the receiving thread before it    *)
(* closes the WinHTTP handles: over ws because closesocket ends the recv,  *)
(* over wss only once the server has hung up.                              *)
Closing == {"stop", "drop", "close", "join"}
DisconnectReturns ==
    \A c \in Callers :
        /\ pc[c] \in Closing
        /\ thread # None => kind[thread] = "ws" \/ hungUp[thread]
        ~> pc[c] = "idle"
=============================================================================
