------------------------------ MODULE SessionIO ------------------------------
(***************************************************************************)
(* The connections of ServerCore: Session, RecvBuffer, SessionManager and  *)
(* the dispatch of IocpWorker.  One IOCP thread runs every handler; the    *)
(* kernel completes an overlapped WSARecv or WSASend whenever it likes,    *)
(* partially, late, with an error, or after the socket was closed.         *)
(*                                                                         *)
(* A link holds what belongs to one address: the Session there, the        *)
(* operations the kernel has outstanding with that address (kept apart     *)
(* from the flags Session keeps about them), what the client at the other  *)
(* end sends, and the history of the connection.  Bytes are counted, not   *)
(* spelled: a received byte is its position in the client's stream, a sent *)
(* byte is the packet it belongs to and its position there.                *)
(***************************************************************************)
EXTENDS Naturals, Sequences, SequencesExt

CONSTANTS Sessions,    \* addresses a Session can have, reused after it is destroyed
          Idle,        \* the IOCP thread is between two completions
          Streams,     \* what the clients at each address may send: packet sizes in order
          Header,      \* sizeof(PacketHeader)
          MaxPacket,   \* MAX_PACKET_SIZE, and the capacity of the RecvBuffer
          RecvChunk,   \* the buffer of a RecvEvent
          MaxQueued,   \* MaxQueuedSendBytes
          SendSizes,   \* the sizes of the packets the server sends
          MaxSends     \* bound: packets the server sends on one connection

ASSUME SessionAssumption ==
  /\ Idle \notin Sessions
  /\ Header \in Nat \ {0} /\ MaxPacket \in Nat /\ Header <= MaxPacket
  /\ RecvChunk \in Nat \ {0} /\ MaxQueued \in Nat /\ MaxSends \in Nat
  /\ SendSizes \subseteq Nat \ {0}
  /\ Streams \in [Sessions -> SUBSET Seq(Nat \ {0})]

VARIABLES link,    \* what there is at each address
          thread   \* Idle, or the session whose received packets are processed

vars == <<link, thread>>

Nobody ==
  [alive |-> FALSE, open |-> FALSE, closing |-> FALSE, gone |-> FALSE,
   recvPending |-> FALSE, sendPending |-> FALSE,
   queue |-> <<>>, queued |-> 0, read |-> 0, write |-> 0,
   recvs |-> <<>>, sends |-> <<>>,
   stream |-> <<>>, received |-> 0, handled |-> 0, accepted |-> <<>>, wire |-> <<>>,
   disconnects |-> 0, why |-> "none"]
Fresh(stream) == [Nobody EXCEPT !.alive = TRUE, !.open = TRUE, !.stream = stream]

IsConnected(l) == l.open /\ ~l.closing /\ ~l.gone
DestroyClosed(l) == ~l.open
DestroyDrained(l) == ~l.open /\ ~l.recvPending /\ ~l.sendPending /\ l.queue = <<>>
CanDestroy(l) == ~l.open /\ ~l.recvPending /\ ~l.sendPending
Lesser(m, n) == IF m < n THEN m ELSE n

RequestClose(l, why) ==
  [l EXCEPT !.closing = TRUE, !.why = IF @ = "none" THEN why ELSE @]

-----------------------------------------------------------------------------
(* Sending.                                                                 *)

\* WSASend of what is left of the front packet.
PostSendWhole(l) ==
  [l EXCEPT !.sendPending = TRUE,
            !.sends = Append(@, [packet |-> Head(l.queue).packet, from |-> 0,
                                 len |-> Head(l.queue).size])]
PostSend(l) ==
  LET front == Head(l.queue)
  IN [l EXCEPT !.sendPending = TRUE,
               !.sends = Append(@, [packet |-> front.packet, from |-> front.sent,
                                    len |-> front.size - front.sent])]

Enqueue(l, size) ==
  [l EXCEPT !.queue = Append(@, [packet |-> Len(l.accepted) + 1, size |-> size, sent |-> 0]),
            !.queued = @ + size,
            !.accepted = Append(@, size)]

\* Session::Send; posts says whether a WSASend it needs can be posted.
SendAnyway(l, size, posts) ==
  IF ~IsConnected(l) THEN l
  ELSE IF size > MaxQueued - l.queued THEN RequestClose(l, "slow")
  ELSE IF posts THEN PostSend(Enqueue(l, size))
  ELSE RequestClose(Enqueue(l, size), "kernel")
Send(l, size, posts) ==
  IF ~IsConnected(l) THEN l
  ELSE IF size > MaxQueued - l.queued THEN RequestClose(l, "slow")
  ELSE IF l.sendPending THEN Enqueue(l, size)
  ELSE IF posts THEN PostSend(Enqueue(l, size))
  ELSE RequestClose(Enqueue(l, size), "kernel")

\* What a handler sends: one packet, to some sessions, and WSASend may fail.
Broadcasts ==
  {b \in [to : SUBSET Sessions, failing : SUBSET Sessions, size : SendSizes] :
     b.failing \subseteq b.to}
Broadcast(links, b) ==
  [s \in Sessions |->
     IF s \in b.to /\ Len(links[s].accepted) < MaxSends
     THEN Send(links[s], b.size, s \notin b.failing) ELSE links[s]]

\* Session::Close: OnDisconnected runs once, and may still send to the others.
CloseAgain(links, s, why, b) ==
  LET marked == [RequestClose(links[s], why) EXCEPT !.gone = TRUE, !.disconnects = @ + 1]
  IN [Broadcast([links EXCEPT ![s] = marked], b) EXCEPT ![s].open = FALSE]
Close(links, s, why, b) ==
  LET marked == [RequestClose(links[s], why) EXCEPT !.gone = TRUE, !.disconnects = @ + 1]
  IN IF links[s].gone
     THEN [links EXCEPT ![s] = [RequestClose(@, why) EXCEPT !.open = FALSE]]
     ELSE [Broadcast([links EXCEPT ![s] = marked], b) EXCEPT ![s].open = FALSE]

-----------------------------------------------------------------------------
(* Receiving.                                                               *)

Writable(l) == MaxPacket - l.write
DataSize(l) == l.write - l.read
TotalSize(sizes, n) ==   \* of the first n packets
  LET sum[k \in 0..n] == IF k = 0 THEN 0 ELSE sum[k - 1] + sizes[k] IN sum[n]

\* header->size of the unread data: the size of the packet that begins there,
\* and garbage (0) where none begins.
Beginning(l) ==
  {i \in DOMAIN l.stream : TotalSize(l.stream, i - 1) = l.received - DataSize(l)}
HeaderSize(l) ==
  IF Beginning(l) = {} THEN 0 ELSE l.stream[CHOOSE i \in Beginning(l) : TRUE]

\* The checks of ProcessPackets, in their order.
HasHeader(l) == DataSize(l) >= Header
Malformed(l) == HasHeader(l) /\ HeaderSize(l) \notin Header..MaxPacket
Complete(l) == HasHeader(l) /\ ~Malformed(l) /\ DataSize(l) >= HeaderSize(l)

\* RecvBuffer::OnRead and Clean.
Consume(l, size) == [l EXCEPT !.read = 0, !.write = @ - (l.read + size)]

RecvLength(l) == Lesser(Writable(l), RecvChunk)
PostRecv(l) == [l EXCEPT !.recvPending = TRUE, !.recvs = Append(@, RecvLength(l))]

\* OnRecv: the bytes join the buffer.
Receive(l, bytes) == [l EXCEPT !.write = @ + bytes, !.received = @ + bytes]

-----------------------------------------------------------------------------
(* The IOCP thread.                                                         *)

\* A Session is added only once it is registered and its first WSARecv posted.
Accept(s, stream) ==
  /\ thread = Idle /\ ~link[s].alive
  /\ link' = [link EXCEPT ![s] = PostRecv(Fresh(stream))]
  /\ UNCHANGED thread

\* A completion without bytes is the client's close, a failure, or a cancelled
\* operation of a closed socket.
RecvCompleted(s) ==
  /\ thread = Idle /\ link[s].recvs # <<>>
  /\ \E bytes \in 0..Lesser(Head(link[s].recvs),
                           TotalSize(link[s].stream, Len(link[s].stream)) - link[s].received) :
       LET l == [link[s] EXCEPT !.recvs = Tail(@), !.recvPending = FALSE]
           links == [link EXCEPT ![s] = l]
       IN \/ /\ ~IsConnected(l)
             /\ link' = links /\ UNCHANGED thread
          \/ /\ IsConnected(l) /\ (bytes = 0 \/ bytes > Writable(l))
             /\ \E b \in Broadcasts :
                  link' = Close(links, s, IF bytes = 0 THEN "peer" ELSE "full", b)
             /\ UNCHANGED thread
          \/ /\ IsConnected(l) /\ bytes \in 1..Writable(l)
             /\ link' = [links EXCEPT ![s] = Receive(l, bytes)]
             /\ thread' = s

\* One round of ProcessPackets: OnPacket sends, and accepts the packet, which
\* then leaves the buffer, or refuses it, and the connection is closed.
HandlePacket(s) ==
  LET links == [link EXCEPT ![s].handled = @ + 1]
  IN /\ thread = s /\ IsConnected(link[s]) /\ Complete(link[s])
     /\ \E b \in Broadcasts :
          \/ /\ link' = [Broadcast(links, b) EXCEPT ![s] = Consume(@, HeaderSize(link[s]))]
             /\ UNCHANGED thread
          \/ /\ \E c \in Broadcasts : link' = Close(Broadcast(links, b), s, "handler", c)
             /\ thread' = Idle

\* ProcessPackets fails: a handler closed the connection, or the data is garbage.
StopProcessing(s) ==
  /\ thread = s /\ (~IsConnected(link[s]) \/ Malformed(link[s]))
  /\ \E b \in Broadcasts :
       link' = Close(link, s, IF IsConnected(link[s]) THEN "malformed" ELSE "handler", b)
  /\ thread' = Idle

\* No whole packet is left: the next WSARecv is posted, if there is room for it.
ReceiveMore(s) ==
  /\ thread = s /\ IsConnected(link[s]) /\ ~Malformed(link[s]) /\ ~Complete(link[s])
  /\ \/ RecvLength(link[s]) > 0 /\ link' = [link EXCEPT ![s] = PostRecv(@)]
     \/ \E b \in Broadcasts :
          link' = Close(link, s, IF RecvLength(link[s]) = 0 THEN "full" ELSE "kernel", b)
  /\ thread' = Idle

\* Session::OnSend: a partly sent packet stays in front, a sent one is dropped.
CountSent(l, bytes) ==
  LET front == Head(l.queue)
  IN [l EXCEPT !.queued = @ - bytes,
               !.queue = IF front.sent + bytes < front.size
                         THEN [l.queue EXCEPT ![1].sent = @ + bytes] ELSE Tail(@)]

\* What OnSend leaves when it does not fail.
StopAfterPacket(l, bytes) == CountSent(l, bytes)
SendRest(l, bytes) ==
  LET counted == CountSent(l, bytes)
  IN IF counted.queue = <<>> THEN counted ELSE PostSend(counted)

SendCompleted(s) ==
  /\ thread = Idle /\ link[s].sends # <<>>
  /\ \E bytes \in 0..Head(link[s].sends).len :
       LET op == Head(link[s].sends)
           taken == [i \in 1..bytes |-> <<op.packet, op.from + i>>]
           l == [link[s] EXCEPT !.sends = Tail(@), !.sendPending = FALSE,
                                !.wire = @ \o taken]
           front == Head(l.queue)
           valid == l.queue # <<>> /\ bytes \in 1..(front.size - front.sent)
           after(m) == [link EXCEPT ![s] = m]
       IN \/ ~IsConnected(l) /\ link' = after(l)
          \/ /\ IsConnected(l) /\ ~valid
             /\ \E b \in Broadcasts : link' = Close(after(l), s, "kernel", b)
          \/ IsConnected(l) /\ valid /\ link' = after(SendRest(l, bytes))
          \/ /\ IsConnected(l) /\ valid /\ CountSent(l, bytes).queue # <<>>
             /\ \E b \in Broadcasts :
                  link' = Close(after(CountSent(l, bytes)), s, "kernel", b)
  /\ UNCHANGED thread

\* One iteration of SessionManager::Cleanup.  Update may send, and may ask for
\* the connection to be closed; so may any handler that sends too much to it.
Visit(s) ==
  /\ thread = Idle /\ link[s].alive
  /\ \E asked \in BOOLEAN, b \in Broadcasts :
       LET updated == IF ~IsConnected(link[s]) THEN link
                      ELSE IF asked THEN [link EXCEPT ![s] = RequestClose(@, "handler")]
                      ELSE Broadcast(link, b)
       IN IF updated[s].closing
          THEN \E c \in Broadcasts : link' = Close(updated, s, "handler", c)
          ELSE link' = updated
  /\ UNCHANGED thread

\* The end of Cleanup: the Session and its buffers are freed.
Destroy(s) ==
  /\ thread = Idle /\ link[s].alive /\ CanDestroy(link[s])
  /\ link' = [link EXCEPT ![s].alive = FALSE]
  /\ UNCHANGED thread
-----------------------------------------------------------------------------

Init == link = [s \in Sessions |-> Nobody] /\ thread = Idle

Next ==
  \E s \in Sessions :
    \/ \E stream \in Streams[s] : Accept(s, stream)
    \/ RecvCompleted(s) \/ HandlePacket(s) \/ StopProcessing(s) \/ ReceiveMore(s)
    \/ SendCompleted(s) \/ Visit(s) \/ Destroy(s)

Spec == Init /\ [][Next]_vars

\* The main loop keeps dispatching and cleaning up, a handler returns, and the
\* kernel returns the operations of a closed socket.
Fairness ==
  \A s \in Sessions :
    /\ WF_vars(HandlePacket(s)) /\ WF_vars(StopProcessing(s)) /\ WF_vars(ReceiveMore(s))
    /\ WF_vars(~link[s].open /\ RecvCompleted(s))
    /\ WF_vars(~link[s].open /\ SendCompleted(s))
    /\ WF_vars(Visit(s)) /\ WF_vars(Destroy(s))
FairSpec == Spec /\ Fairness

-----------------------------------------------------------------------------
(* What must not go wrong.                                                  *)

\* A Session is not destroyed while the kernel still holds its address, or
\* while the thread is inside it: no completion is ever dispatched to freed
\* memory (Session.h:9, Session.h:32).
PendingKeepsAlive ==
  \A s \in Sessions :
    link[s].recvs # <<>> \/ link[s].sends # <<>> \/ thread = s => link[s].alive

\* There is one WSASend at a time, and what it reads is the unsent rest of the
\* packet that stays in front until it completes, even after the connection was
\* closed and whatever is appended (Session.cpp:76).  That a packet's bytes have
\* one address while it is queued is the container's doing and not in the model.
SendBufferStable ==
  \A s \in Sessions : link[s].sends # <<>> =>
    /\ Len(link[s].sends) = 1 /\ link[s].queue # <<>>
    /\ LET op == Head(link[s].sends)
           front == Head(link[s].queue)
       IN op.packet = front.packet /\ op.from = front.sent
          /\ op.len = front.size - front.sent

\* However sends complete, the client reads the packets whole and in the order
\* Send accepted them: nothing twice, nothing skipped (Session.cpp:193).
PacketBytes(sizes, n) ==   \* of the first n packets
  LET bytes[k \in 0..n] ==
        IF k = 0 THEN <<>> ELSE bytes[k - 1] \o [i \in 1..sizes[k] |-> <<k, i>>]
  IN bytes[n]
BytesInOrder ==
  \A s \in Sessions : LET sizes == link[s].accepted
                     IN IsPrefix(link[s].wire, PacketBytes(sizes, Len(sizes)))

\* A client is cut off for its data only if it really sent a malformed packet:
\* however TCP splits or joins packets, the buffer has room for the next bytes
\* and packets are read where they begin (Session.cpp:243, RecvBuffer.cpp:38).
LegalPeersKept ==
  \A s \in Sessions :
    /\ link[s].why # "full"
    /\ link[s].why = "malformed" =>
         link[s].stream[link[s].handled + 1] \notin Header..MaxPacket

\* Whole packets that have arrived are handled at once, in order, none twice:
\* between completions a connected session keeps back only the incomplete
\* packet that begins where the handled ones end (Session.cpp:263).
NothingHeldBack ==
  \A s \in Sessions :
    link[s].alive /\ IsConnected(link[s]) =>
      /\ link[s].received - TotalSize(link[s].stream, link[s].handled) = DataSize(link[s])
      /\ thread # s => ~Complete(link[s]) /\ ~Malformed(link[s])

\* Only what is still to be sent counts against the limit of a slow client, and
\* what counts never passes it; the receive positions stay inside the buffer
\* (Session.cpp:69, RecvBuffer.cpp:10).
BuffersHold ==
  \A s \in Sessions :
    LET l == link[s] IN
    /\ l.queued = TotalSize([n \in DOMAIN l.queue |-> l.queue[n].size - l.queue[n].sent],
                           Len(l.queue))
    /\ l.queued <= MaxQueued
    /\ l.read <= l.write /\ l.write <= MaxPacket

\* Streams go through intact both ways, however TCP splits and joins them, no
\* legal client is cut off for that, and the buffers stay inside their limits.
StreamIntact == BytesInOrder /\ LegalPeersKept /\ NothingHeldBack /\ BuffersHold

\* Between two completions a connected session never sits on unsent packets
\* with no WSASend posted, nor has it stopped listening to its client
\* (Session.cpp:84, Session.cpp:166, Session.cpp:237).
NeverStalls ==
  \A s \in Sessions :
    link[s].alive /\ IsConnected(link[s]) =>
      /\ thread = s \/ link[s].recvs # <<>>
      /\ link[s].queue # <<>> <=> link[s].sends # <<>>

\* A session is destroyed only after OnDisconnected ran, and it runs once; after
\* it no packet of that session is handled or accepted (Session.cpp:23).
QuietDisconnect ==
  \A s \in Sessions :
    /\ link[s].alive /\ ~link'[s].alive => link[s].disconnects = 1
    /\ link[s].gone /\ link[s].alive =>
         /\ link'[s].disconnects = link[s].disconnects
         /\ link'[s].handled = link[s].handled
         /\ link'[s].accepted = link[s].accepted
DisconnectsOnce == [][QuietDisconnect]_vars

\* A session asked to close is destroyed in the end, and its address is free
\* again: no cancelled operation is waited for in vain (SessionManager.cpp:17).
ClosedIsDestroyed ==
  \A s \in Sessions : link[s].closing ~> ~link[s].alive
=============================================================================
