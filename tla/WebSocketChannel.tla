--------------------------- MODULE WebSocketChannel ---------------------------
(***************************************************************************)
(* What the script can rely on of WebSocketReceive (docs/API.md:121),      *)
(* whatever source/websocket_client.cpp makes of the stream: a lossy       *)
(* channel.  It hands out frames its server has sent, control frames like  *)
(* texts, in the order they were sent and each at most once, or pieces of  *)
(* a frame in the frame's place.  The connections are read one after       *)
(* another in the order in which they were opened.                         *)
(***************************************************************************)
EXTENDS Integers, Sequences

CONSTANTS Conns,     \* the connections, numbered as they are opened
          Frames     \* the frames a server sends

VARIABLES sent,      \* the frames the server of each has sent
          taken      \* the messages the script has got, the oldest first

channel == <<sent, taken>>

Init == sent = [s \in Conns |-> <<>>] /\ taken = <<>>

Send(s) ==
    /\ \E frame \in Frames : sent' = [sent EXCEPT ![s] = Append(@, frame)]
    /\ UNCHANGED taken

(* All that has been got of connection s is older than frame n, but for    *)
(* other pieces of it where what is to be handed out is a piece.           *)
IsNext(s, n, whole) ==
    \A j \in 1..Len(taken) : taken[j].conn = s =>
        taken[j].n < n \/ (taken[j].n = n /\ ~whole /\ ~taken[j].whole)

Take(s) ==
    /\ \A j \in 1..Len(taken) : taken[j].conn <= s
    /\ \E n \in 1..Len(sent[s]), whole \in BOOLEAN :
         /\ IsNext(s, n, whole)
         /\ taken' = Append(taken, [conn |-> s, n |-> n, whole |-> whole])
    /\ UNCHANGED sent

Next == \E s \in Conns : Send(s) \/ Take(s)

Spec == Init /\ [][Next]_channel
=============================================================================
