--------------------------- MODULE SessionIO_proofs ---------------------------
(***************************************************************************)
(* Two things about every number of sessions, packets of any size, and any *)
(* limits.                                                                 *)
(*                                                                         *)
(* The memory of a connection outlives what the kernel may still do with   *)
(* it: the flags Session keeps about its operations agree with what the    *)
(* kernel has, at most one WSARecv, and at most one WSASend, of the rest   *)
(* of the front packet (Inv, where the bytes do not matter).               *)
(*                                                                         *)
(* And streams pass intact (StreamInv, on top of Inv): what the client was *)
(* sent is the packets dropped from the queue and as much of the front one *)
(* as is counted; what is in the buffer is what arrived after the packets  *)
(* handled.  The sums of packet sizes and the bytes of packets are         *)
(* recursive functions; their lemmas come by induction over sets of        *)
(* numbers.                                                                *)
(***************************************************************************)
EXTENDS SessionIO, SequenceTheorems, WellFoundedInduction, TLAPS

Fields == {"alive", "open", "closing", "gone", "recvPending", "sendPending", "queue", "queued",
           "read", "write", "recvs", "sends", "stream", "received", "handled", "accepted", "wire",
           "disconnects", "why"}
Shape(l) == l = [f \in Fields |-> l[f]]

\* The WSASend outstanding is of the rest of the front packet.
OfFront(op, queue) ==
  /\ queue # <<>>
  /\ op.packet = Head(queue).packet /\ op.from = Head(queue).sent
  /\ op.len = Head(queue).size - Head(queue).sent

Flags(l) ==
  /\ l.alive \in BOOLEAN /\ l.open \in BOOLEAN /\ l.closing \in BOOLEAN /\ l.gone \in BOOLEAN
  /\ l.recvPending \in BOOLEAN /\ l.sendPending \in BOOLEAN
Receives(l) ==
  /\ l.recvs = <<>> \/ \E n : l.recvs = <<n>>
  /\ l.recvPending <=> l.recvs # <<>>
Sends(l) ==
  /\ \E S : l.queue \in Seq(S)
  /\ l.sends = <<>> \/ \E op : l.sends = <<op>> /\ OfFront(op, l.queue)
  /\ l.sendPending <=> l.sends # <<>>
Life(l) ==
  /\ ~l.alive => ~l.open /\ l.recvs = <<>> /\ l.sends = <<>>
  /\ l.alive /\ ~l.open => l.gone
  /\ l.disconnects = IF l.gone THEN 1 ELSE 0
Core(l) == Shape(l) /\ Flags(l) /\ Receives(l) /\ Sends(l) /\ Life(l)

\* Of a connected session packets wait only for a WSASend under way.
Flow(l) == IsConnected(l) => (l.queue # <<>> <=> l.sends # <<>>)

IsLinks(links) == links = [s \in Sessions |-> links[s]]

Inv ==
  /\ thread \in Sessions \cup {Idle} /\ IsLinks(link)
  /\ \A s \in Sessions :
       /\ Core(link[s]) /\ Flow(link[s])
       /\ thread = s => link[s].alive /\ link[s].recvs = <<>>
       /\ IsConnected(link[s]) => thread = s \/ link[s].recvs # <<>>

\* What a step may do to a session it is not about.
Keeps(l, m) ==
  /\ m.alive = l.alive /\ m.open = l.open /\ m.gone = l.gone /\ m.recvs = l.recvs
  /\ m.disconnects = l.disconnects /\ m.handled = l.handled
  /\ l.gone => m.accepted = l.accepted
  /\ IsConnected(m) => IsConnected(l)

-----------------------------------------------------------------------------
(* One session.                                                             *)

LEMMA RequestCloseCore ==
  ASSUME NEW l, Core(l), NEW why
  PROVE  LET m == RequestClose(l, why)
         IN Core(m) /\ ~IsConnected(m) /\ Keeps(l, m) /\ m.queue = l.queue /\ m.sends = l.sends
            /\ m.accepted = l.accepted
<1> DEFINE m == RequestClose(l, why)
<1>1. /\ Shape(m) /\ m.closing
      /\ \A f \in Fields \ {"closing", "why"} : m[f] = l[f]
      /\ m.closing \in BOOLEAN
  BY DEF Core, Shape, Fields, RequestClose
<1>2. /\ m.alive = l.alive /\ m.open = l.open /\ m.gone = l.gone /\ m.recvs = l.recvs
      /\ m.recvPending = l.recvPending /\ m.sendPending = l.sendPending /\ m.sends = l.sends
      /\ m.disconnects = l.disconnects /\ m.handled = l.handled /\ m.accepted = l.accepted
      /\ m.queue = l.queue
  BY <1>1 DEF Fields
<1> HIDE DEF m
<1>3. Core(m)
  BY <1>1, <1>2 DEF Core, Flags, Receives, Sends, Life
<1>4. ~IsConnected(m)
  BY <1>1 DEF IsConnected
<1>5. Keeps(l, m)
  BY <1>2, <1>4 DEF Keeps
<1> QED BY <1>2, <1>3, <1>4, <1>5 DEF m

LEMMA EnqueueCore ==
  ASSUME NEW l, Core(l), IsConnected(l), NEW size
  PROVE  LET m == Enqueue(l, size)
         IN Core(m) /\ Keeps(l, m) /\ m.queue # <<>> /\ m.sends = l.sends
<1> DEFINE m == Enqueue(l, size)
           e == [packet |-> Len(l.accepted) + 1, size |-> size, sent |-> 0]
<1>1. /\ Shape(m) /\ m.queue = Append(l.queue, e)
      /\ \A f \in Fields \ {"queue", "queued", "accepted"} : m[f] = l[f]
  BY DEF Core, Shape, Fields, Enqueue
<1>2. /\ m.alive = l.alive /\ m.open = l.open /\ m.gone = l.gone /\ m.recvs = l.recvs
      /\ m.closing = l.closing
      /\ m.recvPending = l.recvPending /\ m.sendPending = l.sendPending /\ m.sends = l.sends
      /\ m.disconnects = l.disconnects /\ m.handled = l.handled
  BY <1>1 DEF Fields
<1> HIDE DEF m, e
<1>3. PICK S : l.queue \in Seq(S)
  BY DEF Core, Sends
<1>4. /\ m.queue \in Seq(S \cup {e}) /\ m.queue # <<>>
      /\ l.queue # <<>> => Head(m.queue) = Head(l.queue)
  <2>1. l.queue \in Seq(S \cup {e}) /\ e \in S \cup {e}
    BY <1>3
  <2> QED BY <1>1, <2>1
<1>5. \A op : OfFront(op, l.queue) => OfFront(op, m.queue)
  BY <1>4 DEF OfFront
<1>6. Sends(m)
  BY <1>2, <1>4, <1>5 DEF Core, Sends
<1>7. Core(m)
  BY <1>1, <1>2, <1>6 DEF Core, Flags, Receives, Life
<1>8. Keeps(l, m)
  BY <1>2 DEF Keeps, IsConnected
<1> QED BY <1>2, <1>4, <1>7, <1>8 DEF m

LEMMA PostSendCore ==
  ASSUME NEW l, Core(l), l.queue # <<>>, l.sends = <<>>, l.alive
  PROVE  LET m == PostSend(l)
         IN Core(m) /\ Flow(m) /\ Keeps(l, m)
<1> DEFINE m == PostSend(l)
           op == [packet |-> Head(l.queue).packet, from |-> Head(l.queue).sent,
                  len |-> Head(l.queue).size - Head(l.queue).sent]
<1>1. /\ Shape(m) /\ m.sendPending = TRUE /\ m.sends = Append(l.sends, op)
      /\ \A f \in Fields \ {"sendPending", "sends"} : m[f] = l[f]
  BY DEF Core, Shape, Fields, PostSend
<1>2. /\ m.alive = l.alive /\ m.open = l.open /\ m.gone = l.gone /\ m.recvs = l.recvs
      /\ m.closing = l.closing /\ m.recvPending = l.recvPending /\ m.queue = l.queue
      /\ m.disconnects = l.disconnects /\ m.handled = l.handled /\ m.accepted = l.accepted
  BY <1>1 DEF Fields
<1>3. OfFront(op, l.queue)
  BY DEF OfFront
<1> HIDE DEF m, op
<1>4. m.sends = <<op>>
  BY <1>1
<1>5. Sends(m)
  BY <1>1, <1>2, <1>3, <1>4 DEF Core, Sends
<1>6. Core(m)
  BY <1>1, <1>2, <1>5 DEF Core, Flags, Receives, Life
<1>7. Keeps(l, m) /\ Flow(m)
  BY <1>2, <1>4 DEF Keeps, IsConnected, Flow
<1> QED BY <1>6, <1>7 DEF m

LEMMA KeepsTwice ==
  ASSUME NEW l, NEW m, NEW n, Keeps(l, m), Keeps(m, n)
  PROVE  Keeps(l, n)
BY DEF Keeps

LEMMA SendCore ==
  ASSUME NEW l, Core(l), Flow(l), NEW size, NEW posts
  PROVE  LET m == Send(l, size, posts)
         IN Core(m) /\ Flow(m) /\ Keeps(l, m)
<1> DEFINE m == Send(l, size, posts)
<1>1. CASE ~IsConnected(l)
  BY <1>1 DEF Send, Keeps
<1>2. CASE IsConnected(l) /\ m = RequestClose(l, "slow")
  BY <1>2, RequestCloseCore DEF Flow
<1>3. CASE IsConnected(l) /\ l.sendPending /\ m = Enqueue(l, size)
  <2>1. Core(m) /\ Keeps(l, m) /\ m.queue # <<>> /\ m.sends = l.sends
    BY <1>3, EnqueueCore
  <2>2. Flow(m)
    BY <1>3, <2>1 DEF Flow, Core, Sends
  <2> QED BY <2>1, <2>2
<1>4. CASE IsConnected(l) /\ ~l.sendPending /\ m = PostSend(Enqueue(l, size))
  <2> DEFINE e == Enqueue(l, size)
  <2>1. Core(e) /\ Keeps(l, e) /\ e.queue # <<>> /\ e.sends = l.sends
    BY <1>4, EnqueueCore
  <2>2. l.sends = <<>> /\ l.alive
    BY <1>4 DEF Core, Sends, Life, IsConnected
  <2> HIDE DEF e
  <2>3. e.alive /\ e.sends = <<>>
    BY <2>1, <2>2 DEF Keeps
  <2>4. Core(PostSend(e)) /\ Flow(PostSend(e)) /\ Keeps(e, PostSend(e))
    BY <2>1, <2>3, PostSendCore
  <2>5. Keeps(l, PostSend(e))
    BY <2>1, <2>4, KeepsTwice
  <2> QED BY <1>4, <2>4, <2>5 DEF e
<1>5. CASE IsConnected(l) /\ ~l.sendPending /\ m = RequestClose(Enqueue(l, size), "kernel")
  <2> DEFINE e == Enqueue(l, size)
  <2>1. Core(e) /\ Keeps(l, e)
    BY <1>5, EnqueueCore
  <2> HIDE DEF e
  <2>2. /\ Core(RequestClose(e, "kernel")) /\ ~IsConnected(RequestClose(e, "kernel"))
        /\ Keeps(e, RequestClose(e, "kernel"))
    BY <2>1, RequestCloseCore
  <2>3. Keeps(l, RequestClose(e, "kernel"))
    BY <2>1, <2>2, KeepsTwice
  <2> QED BY <1>5, <2>2, <2>3 DEF e, Flow
<1> QED BY <1>1, <1>2, <1>3, <1>4, <1>5 DEF Send

-----------------------------------------------------------------------------
(* All sessions.                                                            *)

LEMMA BroadcastCore ==
  ASSUME NEW links, \A t \in Sessions : Core(links[t]) /\ Flow(links[t]), NEW b
  PROVE  LET sent == Broadcast(links, b)
         IN /\ IsLinks(sent)
            /\ \A t \in Sessions : Core(sent[t]) /\ Flow(sent[t]) /\ Keeps(links[t], sent[t])
<1> DEFINE sent == Broadcast(links, b)
<1>1. IsLinks(sent)
  BY DEF IsLinks, Broadcast
<1>2. ASSUME NEW t \in Sessions
      PROVE  Core(sent[t]) /\ Flow(sent[t]) /\ Keeps(links[t], sent[t])
  <2>1. CASE sent[t] = links[t]
    BY <2>1 DEF Keeps
  <2>2. CASE sent[t] = Send(links[t], b.size, t \notin b.failing)
    BY <2>2, SendCore
  <2> QED BY <2>1, <2>2 DEF Broadcast
<1> QED BY <1>1, <1>2

\* What is left of a session once it is closed.
Closed(l, m) ==
  /\ Core(m) /\ ~m.open /\ m.gone /\ ~IsConnected(m)
  /\ m.alive = l.alive /\ m.recvs = l.recvs /\ m.handled = l.handled
  /\ l.gone => m.disconnects = l.disconnects /\ m.accepted = l.accepted

LEMMA Shut ==
  ASSUME NEW l, Core(l), l.gone
  PROVE  Closed(l, [l EXCEPT !.open = FALSE])
<1> DEFINE m == [l EXCEPT !.open = FALSE]
<1>1. /\ Shape(m) /\ m.open = FALSE
      /\ \A f \in Fields \ {"open"} : m[f] = l[f]
  BY DEF Core, Shape, Fields
<1>2. /\ m.alive = l.alive /\ m.gone = l.gone /\ m.recvs = l.recvs /\ m.closing = l.closing
      /\ m.recvPending = l.recvPending /\ m.sendPending = l.sendPending /\ m.sends = l.sends
      /\ m.disconnects = l.disconnects /\ m.handled = l.handled /\ m.accepted = l.accepted
      /\ m.queue = l.queue
  BY <1>1 DEF Fields
<1> HIDE DEF m
<1>3. Core(m)
  BY <1>1, <1>2 DEF Core, Flags, Receives, Sends, Life
<1> QED BY <1>1, <1>2, <1>3 DEF Closed, IsConnected, m

\* OnDisconnected of a session that had none.
LEMMA Marked ==
  ASSUME NEW l, Core(l), ~l.gone, l.alive, NEW why
  PROVE  LET m == [RequestClose(l, why) EXCEPT !.gone = TRUE, !.disconnects = @ + 1]
         IN Core(m) /\ Flow(m) /\ m.gone /\ m.alive = l.alive /\ m.recvs = l.recvs
            /\ m.handled = l.handled
<1> DEFINE r == RequestClose(l, why)
           m == [r EXCEPT !.gone = TRUE, !.disconnects = @ + 1]
<1>0. Core(r) /\ Keeps(l, r)
  BY RequestCloseCore
<1> HIDE DEF r
<1>1. /\ r.alive = l.alive /\ r.gone = l.gone /\ r.recvs = l.recvs
      /\ r.handled = l.handled /\ r.disconnects = 0
  BY <1>0 DEF Keeps, Core, Life
<1>2. /\ Shape(m) /\ m.gone = TRUE /\ m.disconnects = r.disconnects + 1
      /\ \A f \in Fields \ {"gone", "disconnects"} : m[f] = r[f]
  BY <1>0 DEF Core, Shape, Fields
<1>3. /\ m.alive = r.alive /\ m.open = r.open /\ m.recvs = r.recvs /\ m.closing = r.closing
      /\ m.recvPending = r.recvPending /\ m.sendPending = r.sendPending /\ m.sends = r.sends
      /\ m.handled = r.handled /\ m.accepted = r.accepted /\ m.queue = r.queue
  BY <1>2 DEF Fields
<1> HIDE DEF m
<1>4. m.disconnects = 1
  BY <1>1, <1>2
<1>5. Core(m)
  BY <1>0, <1>2, <1>3, <1>4 DEF Core, Flags, Receives, Sends, Life
<1> QED BY <1>1, <1>2, <1>3, <1>5 DEF Flow, IsConnected, r, m

LEMMA CloseCore ==
  ASSUME NEW links, IsLinks(links), NEW s \in Sessions, NEW why, NEW b,
         Core(links[s]), links[s].alive,
         \A t \in Sessions \ {s} : Core(links[t]) /\ Flow(links[t])
  PROVE  LET left == Close(links, s, why, b)
         IN /\ IsLinks(left) /\ Closed(links[s], left[s])
            /\ \A t \in Sessions \ {s} :
                 Core(left[t]) /\ Flow(left[t]) /\ Keeps(links[t], left[t])
<1> DEFINE left == Close(links, s, why, b)
<1>1. CASE links[s].gone
  <2> DEFINE r == RequestClose(links[s], why)
             m == [r EXCEPT !.open = FALSE]
  <2>1. left = [links EXCEPT ![s] = m]
    BY <1>1 DEF Close
  <2>2. /\ Core(r) /\ r.gone /\ r.alive = links[s].alive /\ r.recvs = links[s].recvs
        /\ r.handled = links[s].handled /\ r.disconnects = links[s].disconnects
        /\ r.accepted = links[s].accepted
    BY <1>1, RequestCloseCore DEF Keeps
  <2> HIDE DEF r
  <2>3. Closed(r, m)
    BY <2>2, Shut
  <2> HIDE DEF m, left
  <2>4. Closed(links[s], m)
    BY <2>2, <2>3 DEF Closed
  <2>5. IsLinks(left) /\ left[s] = m /\ \A t \in Sessions \ {s} : left[t] = links[t]
    BY <2>1 DEF IsLinks
  <2> QED BY <2>4, <2>5 DEF Keeps, left
<1>2. CASE ~links[s].gone
  <2> DEFINE m == [RequestClose(links[s], why) EXCEPT !.gone = TRUE, !.disconnects = @ + 1]
             base == [links EXCEPT ![s] = m]
             sent == Broadcast(base, b)
             q == [sent[s] EXCEPT !.open = FALSE]
  <2>1. left = [sent EXCEPT ![s].open = FALSE]
    BY <1>2 DEF Close
  <2>2. Core(m) /\ Flow(m) /\ m.gone /\ m.alive = links[s].alive /\ m.recvs = links[s].recvs
        /\ m.handled = links[s].handled
    BY <1>2, Marked
  <2> HIDE DEF m
  <2>3. IsLinks(base) /\ base[s] = m /\ \A t \in Sessions \ {s} : base[t] = links[t]
    BY DEF IsLinks
  <2> HIDE DEF base
  <2>4. \A t \in Sessions : Core(base[t]) /\ Flow(base[t])
    BY <2>2, <2>3
  <2>5. /\ IsLinks(sent)
        /\ \A t \in Sessions : Core(sent[t]) /\ Flow(sent[t]) /\ Keeps(base[t], sent[t])
    BY <2>4, BroadcastCore
  <2> HIDE DEF sent
  <2>6. /\ sent[s].gone /\ sent[s].alive = links[s].alive /\ sent[s].recvs = links[s].recvs
        /\ sent[s].handled = links[s].handled /\ Core(sent[s])
    BY <2>2, <2>3, <2>5 DEF Keeps
  <2>7. Closed(sent[s], q)
    BY <2>6, Shut
  <2>8. left = [sent EXCEPT ![s] = q]
    BY <2>1
  <2> HIDE DEF q, left
  <2>9. Closed(links[s], q)
    BY <1>2, <2>6, <2>7 DEF Closed
  <2>10. IsLinks(left) /\ left[s] = q /\ \A t \in Sessions \ {s} : left[t] = sent[t]
    BY <2>5, <2>8 DEF IsLinks
  <2>11. \A t \in Sessions \ {s} : Core(left[t]) /\ Flow(left[t]) /\ Keeps(links[t], left[t])
    BY <2>3, <2>5, <2>10
  <2> QED BY <2>9, <2>10, <2>11 DEF left
<1> QED BY <1>1, <1>2

-----------------------------------------------------------------------------
(* Steps.                                                                   *)

Quiet(l, m) ==
  /\ l.alive /\ ~m.alive => l.disconnects = 1
  /\ l.gone /\ l.alive =>
       m.disconnects = l.disconnects /\ m.handled = l.handled /\ m.accepted = l.accepted

LEMMA OneStep ==
  ASSUME Inv, NEW s \in Sessions, IsLinks(link'), thread \in {Idle, s}, thread' \in {Idle, s},
         Core(link'[s]), Flow(link'[s]), Quiet(link[s], link'[s]),
         thread' = s => link'[s].alive /\ link'[s].recvs = <<>>,
         IsConnected(link'[s]) => thread' = s \/ link'[s].recvs # <<>>,
         \A t \in Sessions \ {s} :
           Core(link'[t]) /\ Flow(link'[t]) /\ Keeps(link[t], link'[t])
  PROVE  Inv' /\ QuietDisconnect
<1>1. Idle \notin Sessions
  BY SessionAssumption DEF SessionAssumption
<1>2. ASSUME NEW t \in Sessions \ {s}
      PROVE  /\ Core(link'[t]) /\ Flow(link'[t]) /\ thread' # t
             /\ IsConnected(link'[t]) => link'[t].recvs # <<>>
  <2>1. IsConnected(link'[t]) => IsConnected(link[t]) /\ link'[t].recvs = link[t].recvs
    BY DEF Keeps
  <2>2. IsConnected(link[t]) => link[t].recvs # <<>>
    BY <1>1 DEF Inv
  <2> QED BY <1>1, <2>1, <2>2
<1>3. \A t \in Sessions :
        /\ Core(link'[t]) /\ Flow(link'[t])
        /\ thread' = t => link'[t].alive /\ link'[t].recvs = <<>>
        /\ IsConnected(link'[t]) => thread' = t \/ link'[t].recvs # <<>>
  BY <1>2
<1>4. Inv'
  BY <1>3 DEF Inv
<1>5. ASSUME NEW t \in Sessions PROVE Quiet(link[t], link'[t])
  BY DEF Keeps, Quiet
<1> QED BY <1>4, <1>5 DEF QuietDisconnect, Quiet

\* The session is closed, after the step did something to it first.
LEMMA CloseStep ==
  ASSUME Inv, NEW s \in Sessions, thread \in {Idle, s}, thread' = Idle, link[s].alive,
         NEW base, IsLinks(base), Core(base[s]), base[s].alive,
         link[s].gone => /\ base[s].gone /\ base[s].disconnects = link[s].disconnects
                         /\ base[s].handled = link[s].handled
                         /\ base[s].accepted = link[s].accepted,
         \A t \in Sessions \ {s} : Core(base[t]) /\ Flow(base[t]) /\ Keeps(link[t], base[t]),
         NEW why, NEW b, link' = Close(base, s, why, b)
  PROVE  Inv' /\ QuietDisconnect
<1>1. /\ IsLinks(link') /\ Closed(base[s], link'[s])
      /\ \A t \in Sessions \ {s} :
           Core(link'[t]) /\ Flow(link'[t]) /\ Keeps(base[t], link'[t])
  BY CloseCore
<1>2. \A t \in Sessions \ {s} : Keeps(link[t], link'[t])
  BY <1>1, KeepsTwice
<1>3. Quiet(link[s], link'[s])
  BY <1>1 DEF Closed, Quiet
<1>4. Core(link'[s]) /\ Flow(link'[s]) /\ ~IsConnected(link'[s])
  BY <1>1 DEF Closed, Flow
<1>5. Idle \notin Sessions
  BY SessionAssumption DEF SessionAssumption
<1> QED BY <1>1, <1>2, <1>3, <1>4, <1>5, OneStep

\* Fields that only count bytes.
Counts == {"queued", "read", "write", "stream", "received", "handled", "wire", "why"}
LEMMA CountsOnly ==
  ASSUME NEW l, Core(l), NEW m, Shape(m), \A f \in Fields \ Counts : m[f] = l[f]
  PROVE  /\ Core(m) /\ (Flow(l) => Flow(m)) /\ (IsConnected(m) <=> IsConnected(l))
         /\ m.alive = l.alive /\ m.open = l.open /\ m.gone = l.gone /\ m.recvs = l.recvs
         /\ m.disconnects = l.disconnects /\ m.accepted = l.accepted
<1>1. /\ m.alive = l.alive /\ m.open = l.open /\ m.gone = l.gone /\ m.recvs = l.recvs
      /\ m.closing = l.closing
      /\ m.recvPending = l.recvPending /\ m.sendPending = l.sendPending /\ m.sends = l.sends
      /\ m.disconnects = l.disconnects /\ m.accepted = l.accepted /\ m.queue = l.queue
  BY DEF Fields, Counts
<1> QED BY <1>1 DEF Core, Flags, Receives, Sends, Life, Flow, IsConnected

LEMMA PostRecvCore ==
  ASSUME NEW l, Core(l), l.recvs = <<>>, l.alive
  PROVE  LET m == PostRecv(l)
         IN Core(m) /\ (Flow(l) => Flow(m)) /\ m.recvs # <<>> /\ m.alive
            /\ m.gone = l.gone /\ m.disconnects = l.disconnects
            /\ m.handled = l.handled /\ m.accepted = l.accepted
<1> DEFINE m == PostRecv(l)
           n == RecvLength(l)
<1>1. /\ Shape(m) /\ m.recvPending = TRUE /\ m.recvs = Append(l.recvs, n)
      /\ \A f \in Fields \ {"recvPending", "recvs"} : m[f] = l[f]
  BY DEF Core, Shape, Fields, PostRecv
<1>2. /\ m.alive = l.alive /\ m.open = l.open /\ m.gone = l.gone /\ m.closing = l.closing
      /\ m.sendPending = l.sendPending /\ m.sends = l.sends /\ m.queue = l.queue
      /\ m.disconnects = l.disconnects /\ m.handled = l.handled /\ m.accepted = l.accepted
  BY <1>1 DEF Fields
<1> HIDE DEF m, n
<1>3. m.recvs = <<n>>
  BY <1>1
<1>4. Receives(m)
  BY <1>1, <1>3 DEF Receives
<1>5. Sends(m)
  BY <1>2 DEF Core, Sends
<1>6. Flags(m) /\ Life(m)
  BY <1>1, <1>2 DEF Core, Flags, Life
<1>7. Core(m)
  BY <1>1, <1>4, <1>5, <1>6 DEF Core
<1> QED BY <1>2, <1>3, <1>7 DEF m, Flow, IsConnected

LEMMA FreshCore ==
  ASSUME NEW stream
  PROVE  /\ Core(Nobody) /\ Flow(Nobody) /\ ~IsConnected(Nobody)
         /\ Core(Fresh(stream)) /\ Flow(Fresh(stream)) /\ Fresh(stream).recvs = <<>>
         /\ Fresh(stream).alive
<1>1. Shape(Nobody)
  BY DEF Nobody, Shape, Fields
<1>2. Nobody.queue = <<>> /\ Nobody.queue \in Seq({})
  BY DEF Nobody
<1>3. Core(Nobody) /\ Flow(Nobody) /\ ~IsConnected(Nobody)
  BY <1>1, <1>2 DEF Nobody, Core, Flags, Receives, Sends, Life, Flow, IsConnected
<1> DEFINE m == Fresh(stream)
<1>4. /\ Shape(m) /\ m.alive = TRUE /\ m.open = TRUE
      /\ \A f \in Fields \ {"alive", "open", "stream"} : m[f] = Nobody[f]
  BY <1>1 DEF Fresh, Shape, Fields
<1>5. /\ m.closing = FALSE /\ m.gone = FALSE /\ m.recvPending = FALSE /\ m.sendPending = FALSE
      /\ m.queue = <<>> /\ m.recvs = <<>> /\ m.sends = <<>> /\ m.disconnects = 0
  BY <1>4 DEF Nobody, Fields
<1> HIDE DEF m
<1>6. Core(m) /\ Flow(m)
  BY <1>2, <1>4, <1>5 DEF Core, Flags, Receives, Sends, Life, Flow
<1> QED BY <1>3, <1>4, <1>5, <1>6 DEF m

LEMMA Single ==
  ASSUME Inv, NEW s \in Sessions, NEW m
  PROVE  LET n == [link EXCEPT ![s] = m]
         IN /\ IsLinks(n) /\ n[s] = m
            /\ \A t \in Sessions \ {s} : Core(n[t]) /\ Flow(n[t]) /\ Keeps(link[t], n[t])
<1>1. IsLinks(link) /\ \A t \in Sessions : Core(link[t]) /\ Flow(link[t])
  BY DEF Inv
<1> DEFINE n == [link EXCEPT ![s] = m]
<1>2. IsLinks(n) /\ n[s] = m /\ \A t \in Sessions \ {s} : n[t] = link[t]
  BY <1>1 DEF IsLinks
<1> QED BY <1>1, <1>2 DEF Keeps

-----------------------------------------------------------------------------
(* The actions.                                                             *)

LEMMA Alive ==
  ASSUME Inv, NEW s \in Sessions
  PROVE  /\ Core(link[s]) /\ Flow(link[s])
         /\ thread = s => thread # Idle /\ link[s].alive /\ link[s].recvs = <<>>
         /\ IsConnected(link[s]) => link[s].alive /\ ~link[s].gone
         /\ link[s].recvs # <<>> \/ link[s].sends # <<>> => link[s].alive
<1>1. Core(link[s]) /\ Flow(link[s]) /\ (thread = s => link[s].alive /\ link[s].recvs = <<>>)
  BY DEF Inv
<1>2. Idle \notin Sessions
  BY SessionAssumption DEF SessionAssumption
<1> QED BY <1>1, <1>2 DEF Core, Life, IsConnected, Flags

LEMMA AcceptStep ==
  ASSUME Inv, NEW s \in Sessions, NEW stream, Accept(s, stream)
  PROVE  Inv' /\ QuietDisconnect
<1> DEFINE m == PostRecv(Fresh(stream))
<1>1. thread = Idle /\ thread' = Idle /\ ~link[s].alive /\ link' = [link EXCEPT ![s] = m]
  BY DEF Accept
<1>2. Core(m) /\ Flow(m) /\ m.recvs # <<>>
  BY FreshCore, PostRecvCore
<1> HIDE DEF m
<1>3. /\ IsLinks(link') /\ link'[s] = m
      /\ \A t \in Sessions \ {s} : Core(link'[t]) /\ Flow(link'[t]) /\ Keeps(link[t], link'[t])
  BY <1>1, Single
<1>4. Quiet(link[s], link'[s]) /\ thread' # s
  BY <1>1, SessionAssumption DEF Quiet, SessionAssumption
<1> QED BY <1>1, <1>2, <1>3, <1>4, OneStep

LEMMA RecvCompletedStep ==
  ASSUME Inv, NEW s \in Sessions, RecvCompleted(s)
  PROVE  Inv' /\ QuietDisconnect
<1> DEFINE l == [link[s] EXCEPT !.recvs = Tail(@), !.recvPending = FALSE]
           links == [link EXCEPT ![s] = l]
<1>1. PICK bytes :
        /\ thread = Idle /\ link[s].recvs # <<>>
        /\ \/ ~IsConnected(l) /\ link' = links /\ thread' = Idle
           \/ IsConnected(l) /\ (\E why, b : link' = Close(links, s, why, b)) /\ thread' = Idle
           \/ /\ IsConnected(l) /\ thread' = s
              /\ link' = [links EXCEPT ![s] = Receive(l, bytes)]
  BY DEF RecvCompleted
<1>2. Core(link[s]) /\ Flow(link[s]) /\ link[s].alive
  BY <1>1, Alive
<1>3. /\ Shape(l) /\ l.recvPending = FALSE /\ l.recvs = Tail(link[s].recvs)
      /\ \A f \in Fields \ {"recvPending", "recvs"} : l[f] = link[s][f]
  BY <1>2 DEF Core, Shape, Fields
<1> HIDE DEF l
<1>4. /\ l.alive = link[s].alive /\ l.open = link[s].open /\ l.gone = link[s].gone
      /\ l.closing = link[s].closing /\ l.sendPending = link[s].sendPending
      /\ l.sends = link[s].sends /\ l.queue = link[s].queue
      /\ l.disconnects = link[s].disconnects /\ l.handled = link[s].handled
      /\ l.accepted = link[s].accepted
  BY <1>3 DEF Fields
<1>5. l.recvs = <<>>
  <2>1. PICK n : link[s].recvs = <<n>>
    BY <1>1, <1>2 DEF Core, Receives
  <2> QED BY <1>3, <2>1
<1>6. Core(l) /\ Flow(l)
  <2>1. Receives(l)
    BY <1>3, <1>5 DEF Receives
  <2>2. Sends(l)
    BY <1>2, <1>4 DEF Core, Sends
  <2>3. Flags(l) /\ Life(l)
    BY <1>2, <1>3, <1>4, <1>5 DEF Core, Flags, Life
  <2> QED BY <1>2, <1>3, <1>4, <2>1, <2>2, <2>3 DEF Core, Flow, IsConnected
<1>7. /\ IsLinks(links) /\ links[s] = l
      /\ \A t \in Sessions \ {s} : Core(links[t]) /\ Flow(links[t]) /\ Keeps(link[t], links[t])
  BY Single
<1>8. s # Idle
  BY SessionAssumption DEF SessionAssumption
<1> HIDE DEF links
<1>9. CASE ~IsConnected(l) /\ link' = links /\ thread' = Idle
  <2>1. Quiet(link[s], link'[s])
    BY <1>2, <1>4, <1>7, <1>9 DEF Quiet
  <2> QED BY <1>1, <1>6, <1>7, <1>8, <1>9, <2>1, OneStep
<1>10. CASE (\E why, b : link' = Close(links, s, why, b)) /\ thread' = Idle
  <2>1. link[s].gone => links[s].gone
    BY <1>4, <1>7
  <2>2. PICK why, b : link' = Close(links, s, why, b)
    BY <1>10
  <2> QED BY <1>1, <1>2, <1>4, <1>6, <1>7, <1>10, <2>1, <2>2, CloseStep
<1>11. CASE IsConnected(l) /\ thread' = s /\ link' = [links EXCEPT ![s] = Receive(l, bytes)]
  <2> DEFINE m == Receive(l, bytes)
  <2>1. /\ IsLinks(link') /\ link'[s] = m
        /\ \A t \in Sessions \ {s} : link'[t] = links[t]
    BY <1>7, <1>11 DEF IsLinks
  <2>2. Shape(m) /\ \A f \in Fields \ Counts : m[f] = l[f]
    BY <1>3 DEF Shape, Fields, Counts, Receive
  <2> HIDE DEF m
  <2>3. Core(m) /\ Flow(m) /\ m.alive = l.alive /\ m.recvs = l.recvs
    BY <1>6, <2>2, CountsOnly
  <2>4. ~link[s].gone
    BY <1>4, <1>11 DEF IsConnected
  <2>5. Quiet(link[s], link'[s])
    BY <1>2, <1>4, <2>1, <2>3, <2>4 DEF Quiet
  <2> QED BY <1>1, <1>2, <1>4, <1>5, <1>7, <1>11, <2>1, <2>3, <2>5, OneStep
<1> QED BY <1>1, <1>9, <1>10, <1>11

LEMMA HandlePacketStep ==
  ASSUME Inv, NEW s \in Sessions, HandlePacket(s)
  PROVE  Inv' /\ QuietDisconnect
<1> DEFINE l == [link[s] EXCEPT !.handled = @ + 1]
           links == [link EXCEPT ![s] = l]
<1>1. PICK b : /\ thread = s /\ IsConnected(link[s])
               /\ \/ /\ thread' = s
                     /\ \E size : link' = [Broadcast(links, b) EXCEPT ![s] = Consume(@, size)]
                  \/ /\ thread' = Idle
                     /\ \E c : link' = Close(Broadcast(links, b), s, "handler", c)
  BY DEF HandlePacket
<1>2. /\ Core(link[s]) /\ Flow(link[s]) /\ link[s].alive /\ link[s].recvs = <<>>
      /\ ~link[s].gone /\ s # Idle
  BY <1>1, Alive
<1>3. Shape(l) /\ \A f \in Fields \ Counts : l[f] = link[s][f]
  BY <1>2 DEF Core, Shape, Fields, Counts
<1> HIDE DEF l
<1>4. Core(l) /\ Flow(l) /\ l.alive = link[s].alive /\ l.recvs = link[s].recvs
  BY <1>2, <1>3, CountsOnly
<1>5. /\ IsLinks(links) /\ links[s] = l
      /\ \A t \in Sessions \ {s} : Core(links[t]) /\ Flow(links[t]) /\ Keeps(link[t], links[t])
  BY Single
<1> HIDE DEF links
<1>6. ASSUME thread' = Idle, NEW c, link' = Close(Broadcast(links, b), s, "handler", c)
      PROVE  Inv' /\ QuietDisconnect
  <2> DEFINE sent == Broadcast(links, b)
  <2>1. link' = Close(sent, s, "handler", c)
    BY <1>6
  <2>2. \A t \in Sessions : Core(links[t]) /\ Flow(links[t])
    BY <1>4, <1>5
  <2>3. /\ IsLinks(sent)
        /\ \A t \in Sessions : Core(sent[t]) /\ Flow(sent[t]) /\ Keeps(links[t], sent[t])
    BY <2>2, BroadcastCore
  <2> HIDE DEF sent
  <2>4. sent[s].alive
    BY <1>2, <1>4, <1>5, <2>3 DEF Keeps
  <2>5. \A t \in Sessions \ {s} : Core(sent[t]) /\ Flow(sent[t]) /\ Keeps(link[t], sent[t])
    BY <1>5, <2>3, KeepsTwice
  <2> QED BY <1>1, <1>2, <1>6, <2>1, <2>3, <2>4, <2>5, CloseStep
<1>7. ASSUME thread' = s, NEW size,
             link' = [Broadcast(links, b) EXCEPT ![s] = Consume(@, size)]
      PROVE  Inv' /\ QuietDisconnect
  <2> DEFINE sent == Broadcast(links, b)
             m == Consume(sent[s], size)
  <2>1. link' = [sent EXCEPT ![s] = m]
    BY <1>7
  <2>2. \A t \in Sessions : Core(links[t]) /\ Flow(links[t])
    BY <1>4, <1>5
  <2>3. /\ IsLinks(sent)
        /\ \A t \in Sessions : Core(sent[t]) /\ Flow(sent[t]) /\ Keeps(links[t], sent[t])
    BY <2>2, BroadcastCore
  <2> HIDE DEF sent
  <2>4. Shape(m) /\ \A f \in Fields \ Counts : m[f] = sent[s][f]
    BY <2>3 DEF Core, Shape, Fields, Counts, Consume
  <2> HIDE DEF m
  <2>5. Core(m) /\ Flow(m) /\ m.alive = sent[s].alive /\ m.recvs = sent[s].recvs
    BY <2>3, <2>4, CountsOnly
  <2>6. m.alive = link[s].alive /\ m.recvs = <<>>
    BY <1>2, <1>4, <1>5, <2>3, <2>5 DEF Keeps
  <2>7. /\ IsLinks(link') /\ link'[s] = m
        /\ \A t \in Sessions \ {s} : link'[t] = sent[t]
    BY <2>1, <2>3 DEF IsLinks
  <2>8. \A t \in Sessions \ {s} : Core(link'[t]) /\ Flow(link'[t]) /\ Keeps(link[t], link'[t])
    BY <1>5, <2>3, <2>7, KeepsTwice
  <2>9. Quiet(link[s], link'[s])
    BY <1>2, <2>6, <2>7 DEF Quiet
  <2> QED BY <1>1, <1>2, <1>7, <2>5, <2>6, <2>7, <2>8, <2>9, OneStep
<1> QED BY <1>1, <1>6, <1>7

LEMMA StopProcessingStep ==
  ASSUME Inv, NEW s \in Sessions, StopProcessing(s)
  PROVE  Inv' /\ QuietDisconnect
<1>1. PICK why, b : thread = s /\ thread' = Idle /\ link' = Close(link, s, why, b)
  BY DEF StopProcessing
<1>2. Core(link[s]) /\ link[s].alive
  BY <1>1, Alive
<1>3. /\ IsLinks(link)
      /\ \A t \in Sessions \ {s} : Core(link[t]) /\ Flow(link[t]) /\ Keeps(link[t], link[t])
  BY DEF Inv, Keeps
<1> QED BY <1>1, <1>2, <1>3, CloseStep

LEMMA ReceiveMoreStep ==
  ASSUME Inv, NEW s \in Sessions, ReceiveMore(s)
  PROVE  Inv' /\ QuietDisconnect
<1>1. /\ thread = s /\ thread' = Idle
      /\ \/ link' = [link EXCEPT ![s] = PostRecv(link[s])]
         \/ \E why, b : link' = Close(link, s, why, b)
  BY DEF ReceiveMore
<1>2. Core(link[s]) /\ Flow(link[s]) /\ link[s].alive /\ link[s].recvs = <<>> /\ s # Idle
  BY <1>1, Alive
<1>3. CASE \E why, b : link' = Close(link, s, why, b)
  <2>1. /\ IsLinks(link)
        /\ \A t \in Sessions \ {s} : Core(link[t]) /\ Flow(link[t]) /\ Keeps(link[t], link[t])
    BY DEF Inv, Keeps
  <2> QED BY <1>1, <1>2, <1>3, <2>1, CloseStep
<1>4. CASE link' = [link EXCEPT ![s] = PostRecv(link[s])]
  <2> DEFINE m == PostRecv(link[s])
  <2>1. Core(m) /\ Flow(m) /\ m.recvs # <<>> /\ m.alive /\ m.gone = link[s].gone
        /\ m.disconnects = link[s].disconnects /\ m.handled = link[s].handled
        /\ m.accepted = link[s].accepted
    BY <1>2, PostRecvCore
  <2> HIDE DEF m
  <2>2. /\ IsLinks(link') /\ link'[s] = m
        /\ \A t \in Sessions \ {s} : Core(link'[t]) /\ Flow(link'[t]) /\ Keeps(link[t], link'[t])
    BY <1>4, Single DEF m
  <2>3. Quiet(link[s], link'[s])
    BY <2>1, <2>2 DEF Quiet
  <2> QED BY <1>1, <1>2, <2>1, <2>2, <2>3, OneStep
<1> QED BY <1>1, <1>3, <1>4

\* OnSend with bytes left to send, or not.
LEMMA CountSentCore ==
  ASSUME NEW l, Core(l), l.sends = <<>>, l.queue # <<>>, NEW bytes
  PROVE  LET m == CountSent(l, bytes)
         IN Core(m) /\ m.sends = <<>> /\ Keeps(l, m)
<1> DEFINE m == CountSent(l, bytes)
           e == [l.queue[1] EXCEPT !.sent = @ + bytes]
<1>1. PICK q : /\ Shape(m) /\ m.queue = q
               /\ \A f \in Fields \ {"queue", "queued"} : m[f] = l[f]
               /\ q \in {[l.queue EXCEPT ![1] = e], Tail(l.queue)}
  BY DEF Core, Shape, Fields, CountSent
<1> HIDE DEF e, m
<1>2. /\ m.alive = l.alive /\ m.open = l.open /\ m.gone = l.gone /\ m.recvs = l.recvs
      /\ m.closing = l.closing
      /\ m.recvPending = l.recvPending /\ m.sendPending = l.sendPending /\ m.sends = l.sends
      /\ m.disconnects = l.disconnects /\ m.handled = l.handled /\ m.accepted = l.accepted
  BY <1>1 DEF Fields
<1>3. PICK S : l.queue \in Seq(S)
  BY DEF Core, Sends
<1>4. q \in Seq(S \cup {e})
  <2>1. l.queue \in Seq(S \cup {e}) /\ Tail(l.queue) \in Seq(S \cup {e})
    BY <1>3
  <2>2. [l.queue EXCEPT ![1] = e] \in Seq(S \cup {e})
    BY <2>1
  <2> QED BY <1>1, <2>1, <2>2
<1>5. Sends(m)
  BY <1>1, <1>2, <1>4 DEF Core, Sends
<1>6. Flags(m) /\ Life(m) /\ Receives(m)
  BY <1>2 DEF Core, Flags, Life, Receives
<1>7. Keeps(l, m)
  BY <1>2 DEF Keeps, IsConnected
<1> QED BY <1>1, <1>2, <1>5, <1>6, <1>7 DEF Core, m

LEMMA SendRestCore ==
  ASSUME NEW l, Core(l), l.sends = <<>>, l.queue # <<>>, l.alive, NEW bytes
  PROVE  LET m == SendRest(l, bytes)
         IN Core(m) /\ Flow(m) /\ Keeps(l, m)
<1> DEFINE c == CountSent(l, bytes)
<1>1. Core(c) /\ c.sends = <<>> /\ Keeps(l, c)
  BY CountSentCore
<1>2. SendRest(l, bytes) = IF c.queue = <<>> THEN c ELSE PostSend(c)
  BY DEF SendRest
<1> HIDE DEF c
<1>3. CASE c.queue = <<>>
  BY <1>1, <1>2, <1>3 DEF Flow
<1>4. CASE c.queue # <<>>
  <2>1. c.alive
    BY <1>1 DEF Keeps
  <2>2. Core(PostSend(c)) /\ Flow(PostSend(c)) /\ Keeps(c, PostSend(c))
    BY <1>1, <1>4, <2>1, PostSendCore
  <2> QED BY <1>1, <1>2, <1>4, <2>2, KeepsTwice
<1> QED BY <1>3, <1>4

LEMMA SendCompletedStep ==
  ASSUME Inv, NEW s \in Sessions, SendCompleted(s)
  PROVE  Inv' /\ QuietDisconnect
<1>1. PICK bytes, taken :
        LET l == [link[s] EXCEPT !.sends = Tail(@), !.sendPending = FALSE, !.wire = @ \o taken]
        IN /\ thread = Idle /\ thread' = Idle /\ link[s].sends # <<>>
           /\ \/ ~IsConnected(l) /\ link' = [link EXCEPT ![s] = l]
              \/ \E why, b : link' = Close([link EXCEPT ![s] = l], s, why, b)
              \/ l.queue # <<>> /\ link' = [link EXCEPT ![s] = SendRest(l, bytes)]
              \/ /\ l.queue # <<>>
                 /\ \E why, b : link' = Close([link EXCEPT ![s] = CountSent(l, bytes)], s, why, b)
  BY DEF SendCompleted
<1> DEFINE l == [link[s] EXCEPT !.sends = Tail(@), !.sendPending = FALSE, !.wire = @ \o taken]
<1>2. Core(link[s]) /\ Flow(link[s]) /\ link[s].alive
  BY <1>1, Alive
<1>3. /\ Shape(l) /\ l.sendPending = FALSE /\ l.sends = Tail(link[s].sends)
      /\ \A f \in Fields \ {"sendPending", "sends", "wire"} : l[f] = link[s][f]
  BY <1>2 DEF Core, Shape, Fields
<1>4. /\ thread = Idle /\ thread' = Idle /\ link[s].sends # <<>>
      /\ \/ ~IsConnected(l) /\ link' = [link EXCEPT ![s] = l]
         \/ \E why, b : link' = Close([link EXCEPT ![s] = l], s, why, b)
         \/ l.queue # <<>> /\ link' = [link EXCEPT ![s] = SendRest(l, bytes)]
         \/ /\ l.queue # <<>>
            /\ \E why, b : link' = Close([link EXCEPT ![s] = CountSent(l, bytes)], s, why, b)
  BY <1>1
<1> HIDE DEF l
<1>5. /\ l.alive = link[s].alive /\ l.open = link[s].open /\ l.gone = link[s].gone
      /\ l.closing = link[s].closing /\ l.recvPending = link[s].recvPending
      /\ l.recvs = link[s].recvs /\ l.queue = link[s].queue
      /\ l.disconnects = link[s].disconnects /\ l.handled = link[s].handled
      /\ l.accepted = link[s].accepted
  BY <1>3 DEF Fields
<1>6. l.sends = <<>>
  <2>1. PICK op : link[s].sends = <<op>>
    BY <1>2, <1>4 DEF Core, Sends
  <2> QED BY <1>3, <2>1
<1>7. Core(l)
  <2>1. Sends(l)
    BY <1>2, <1>3, <1>5, <1>6 DEF Core, Sends
  <2>2. Flags(l) /\ Life(l) /\ Receives(l)
    BY <1>2, <1>3, <1>5, <1>6 DEF Core, Flags, Life, Receives
  <2> QED BY <1>3, <2>1, <2>2 DEF Core
<1>8. s # Idle /\ (link[s].gone => l.gone) /\ l.alive
  BY <1>2, <1>5, SessionAssumption DEF SessionAssumption
<1>9. IsConnected(link[s]) => link[s].recvs # <<>>
  BY <1>4, <1>8 DEF Inv
<1>10. \A m : Keeps(l, m) => Quiet(link[s], m) /\ (IsConnected(m) => m.recvs # <<>>)
  <2> SUFFICES ASSUME NEW m, Keeps(l, m)
               PROVE  Quiet(link[s], m) /\ (IsConnected(m) => m.recvs # <<>>)
    OBVIOUS
  <2>1. IsConnected(l) => IsConnected(link[s])
    BY <1>5 DEF IsConnected
  <2> QED BY <1>2, <1>5, <1>8, <1>9, <2>1 DEF Keeps, Quiet
<1>11. Keeps(l, l)
  BY DEF Keeps
<1>12. CASE ~IsConnected(l) /\ link' = [link EXCEPT ![s] = l]
  <2>1. /\ IsLinks(link') /\ link'[s] = l
        /\ \A t \in Sessions \ {s} : Core(link'[t]) /\ Flow(link'[t]) /\ Keeps(link[t], link'[t])
    BY <1>12, Single
  <2> QED BY <1>4, <1>7, <1>8, <1>10, <1>11, <1>12, <2>1, OneStep DEF Flow
<1>13. CASE l.queue # <<>> /\ link' = [link EXCEPT ![s] = SendRest(l, bytes)]
  <2> DEFINE m == SendRest(l, bytes)
  <2>1. Core(m) /\ Flow(m) /\ Keeps(l, m)
    BY <1>6, <1>7, <1>8, <1>13, SendRestCore
  <2> HIDE DEF m
  <2>2. /\ IsLinks(link') /\ link'[s] = m
        /\ \A t \in Sessions \ {s} : Core(link'[t]) /\ Flow(link'[t]) /\ Keeps(link[t], link'[t])
    BY <1>13, Single DEF m
  <2> QED BY <1>4, <1>8, <1>10, <2>1, <2>2, OneStep
<1>14. ASSUME NEW m, Core(m), Keeps(l, m), NEW why, NEW b,
              link' = Close([link EXCEPT ![s] = m], s, why, b)
       PROVE  Inv' /\ QuietDisconnect
  <2> DEFINE base == [link EXCEPT ![s] = m]
  <2>1. /\ IsLinks(base) /\ base[s] = m
        /\ \A t \in Sessions \ {s} : Core(base[t]) /\ Flow(base[t]) /\ Keeps(link[t], base[t])
    BY Single
  <2>2. link' = Close(base, s, why, b)
    BY <1>14
  <2> HIDE DEF base
  <2>3. base[s].alive /\ (link[s].gone => /\ base[s].gone
                                          /\ base[s].disconnects = link[s].disconnects
                                          /\ base[s].handled = link[s].handled
                                          /\ base[s].accepted = link[s].accepted)
    BY <1>5, <1>8, <1>14, <2>1 DEF Keeps
  <2> QED BY <1>2, <1>4, <1>14, <2>1, <2>2, <2>3, CloseStep
<1>15. CASE \E why, b : link' = Close([link EXCEPT ![s] = l], s, why, b)
  BY <1>7, <1>11, <1>14, <1>15
<1>16. CASE /\ l.queue # <<>>
            /\ \E why, b : link' = Close([link EXCEPT ![s] = CountSent(l, bytes)], s, why, b)
  <2>1. Core(CountSent(l, bytes)) /\ Keeps(l, CountSent(l, bytes))
    BY <1>6, <1>7, <1>16, CountSentCore
  <2> QED BY <1>14, <1>16, <2>1
<1> QED BY <1>4, <1>12, <1>13, <1>15, <1>16

LEMMA VisitStep ==
  ASSUME Inv, NEW s \in Sessions, Visit(s)
  PROVE  Inv' /\ QuietDisconnect
<1>1. PICK updated :
        /\ thread = Idle /\ thread' = Idle /\ link[s].alive
        /\ \/ updated = link
           \/ updated = [link EXCEPT ![s] = RequestClose(link[s], "handler")]
           \/ \E b : updated = Broadcast(link, b)
        /\ link' = updated \/ \E why, b : link' = Close(updated, s, why, b)
  BY DEF Visit
<1>2. IsLinks(link) /\ \A t \in Sessions : Core(link[t]) /\ Flow(link[t])
  BY DEF Inv
<1>3. /\ IsLinks(updated)
      /\ \A t \in Sessions : Core(updated[t]) /\ Flow(updated[t]) /\ Keeps(link[t], updated[t])
  <2>1. CASE updated = link
    BY <1>2, <2>1 DEF Keeps
  <2>2. CASE updated = [link EXCEPT ![s] = RequestClose(link[s], "handler")]
    <3> DEFINE m == RequestClose(link[s], "handler")
    <3>1. Core(m) /\ Flow(m) /\ Keeps(link[s], m)
      BY <1>2, RequestCloseCore DEF Flow
    <3> HIDE DEF m
    <3>2. /\ IsLinks(updated) /\ updated[s] = m
          /\ \A t \in Sessions \ {s} :
               Core(updated[t]) /\ Flow(updated[t]) /\ Keeps(link[t], updated[t])
      BY <2>2, Single DEF m
    <3> QED BY <3>1, <3>2
  <2>3. CASE \E b : updated = Broadcast(link, b)
    BY <1>2, <2>3, BroadcastCore
  <2> QED BY <1>1, <2>1, <2>2, <2>3
<1>4. s # Idle /\ (IsConnected(link[s]) => link[s].recvs # <<>>)
  BY <1>1, SessionAssumption DEF SessionAssumption, Inv
<1>5. CASE link' = updated
  <2>1. Quiet(link[s], link'[s]) /\ (IsConnected(link'[s]) => link'[s].recvs # <<>>)
    BY <1>1, <1>3, <1>4, <1>5 DEF Keeps, Quiet
  <2> QED BY <1>1, <1>3, <1>4, <1>5, <2>1, OneStep
<1>6. CASE \E why, b : link' = Close(updated, s, why, b)
  <2>1. updated[s].alive /\ (link[s].gone => /\ updated[s].gone
                                             /\ updated[s].disconnects = link[s].disconnects
                                             /\ updated[s].handled = link[s].handled
                                             /\ updated[s].accepted = link[s].accepted)
    BY <1>1, <1>3 DEF Keeps
  <2>2. PICK why, b : link' = Close(updated, s, why, b)
    BY <1>6
  <2> QED BY <1>1, <1>3, <2>1, <2>2, CloseStep
<1> QED BY <1>1, <1>5, <1>6

LEMMA DestroyStep ==
  ASSUME Inv, NEW s \in Sessions, Destroy(s)
  PROVE  Inv' /\ QuietDisconnect
<1> DEFINE m == [link[s] EXCEPT !.alive = FALSE]
<1>1. /\ thread = Idle /\ thread' = Idle /\ link[s].alive /\ CanDestroy(link[s])
      /\ link' = [link EXCEPT ![s] = m]
  BY DEF Destroy
<1>2. Core(link[s])
  BY Alive
<1>3. /\ Shape(m) /\ m.alive = FALSE /\ \A f \in Fields \ {"alive"} : m[f] = link[s][f]
  BY <1>2 DEF Core, Shape, Fields
<1> HIDE DEF m
<1>4. /\ m.open = link[s].open /\ m.gone = link[s].gone /\ m.recvs = link[s].recvs
      /\ m.closing = link[s].closing /\ m.recvPending = link[s].recvPending
      /\ m.sendPending = link[s].sendPending /\ m.sends = link[s].sends
      /\ m.queue = link[s].queue /\ m.disconnects = link[s].disconnects
      /\ m.handled = link[s].handled /\ m.accepted = link[s].accepted
  BY <1>3 DEF Fields
<1>5. ~link[s].open /\ link[s].recvs = <<>> /\ link[s].sends = <<>>
  BY <1>1, <1>2 DEF CanDestroy, Core, Receives, Sends
<1>6. Core(m) /\ ~IsConnected(m)
  <2>1. Sends(m) /\ Receives(m)
    BY <1>2, <1>4 DEF Core, Sends, Receives
  <2>2. Flags(m) /\ Life(m)
    BY <1>2, <1>3, <1>4, <1>5 DEF Core, Flags, Life
  <2> QED BY <1>3, <1>4, <1>5, <2>1, <2>2 DEF Core, IsConnected
<1>7. link[s].disconnects = 1
  BY <1>1, <1>2, <1>5 DEF Core, Life
<1>8. /\ IsLinks(link') /\ link'[s] = m
      /\ \A t \in Sessions \ {s} : Core(link'[t]) /\ Flow(link'[t]) /\ Keeps(link[t], link'[t])
  BY <1>1, Single
<1>9. Quiet(link[s], link'[s]) /\ s # Idle
  BY <1>4, <1>7, <1>8, SessionAssumption DEF Quiet, SessionAssumption
<1> QED BY <1>1, <1>6, <1>8, <1>9, OneStep DEF Flow

-----------------------------------------------------------------------------
(* The invariant and what it says.                                          *)

LEMMA InitInv == ASSUME Init PROVE Inv
<1>1. link = [s \in Sessions |-> Nobody] /\ thread = Idle
  BY DEF Init
<1>2. Core(Nobody) /\ Flow(Nobody) /\ ~IsConnected(Nobody)
  BY FreshCore
<1>3. Idle \notin Sessions
  BY SessionAssumption DEF SessionAssumption
<1> QED BY <1>1, <1>2, <1>3 DEF Inv, IsLinks

LEMMA StepInv == ASSUME Inv, [Next]_vars PROVE Inv' /\ (QuietDisconnect \/ UNCHANGED vars)
<1>1. CASE \E s \in Sessions : \E stream : Accept(s, stream)
  BY <1>1, AcceptStep
<1>2. CASE \E s \in Sessions : RecvCompleted(s) \/ HandlePacket(s) \/ StopProcessing(s) \/ ReceiveMore(s)
  BY <1>2, RecvCompletedStep, HandlePacketStep, StopProcessingStep, ReceiveMoreStep
<1>3. CASE \E s \in Sessions : SendCompleted(s) \/ Visit(s) \/ Destroy(s)
  BY <1>3, SendCompletedStep, VisitStep, DestroyStep
<1>4. CASE UNCHANGED vars
  BY <1>4 DEF Inv, vars
<1> QED BY <1>1, <1>2, <1>3, <1>4 DEF Next

LEMMA Invariance == Spec => []Inv
<1>1. Init => Inv
  BY InitInv
<1>2. Inv /\ [Next]_vars => Inv'
  BY StepInv
<1> QED BY <1>1, <1>2, PTL DEF Spec

\* SessionManager frees a Session only when the kernel holds neither of its
\* operations and no handler runs in it (SessionManager.cpp:21, Session.h:32).
THEOREM NoDanglingOperation == Spec => []PendingKeepsAlive
<1>1. ASSUME Inv PROVE PendingKeepsAlive
  BY <1>1, Alive DEF PendingKeepsAlive
<1> QED BY <1>1, Invariance, PTL

\* The WSASend under way is the only one, of the unsent rest of the packet in
\* front of the queue, which stays there until it completes (Session.cpp:175).
THEOREM SendBufferStays == Spec => []SendBufferStable
<1>1. ASSUME Inv PROVE SendBufferStable
  <2>1. ASSUME NEW s \in Sessions, link[s].sends # <<>>
        PROVE  \E op : link[s].sends = <<op>> /\ OfFront(op, link[s].queue)
    BY <1>1, <2>1 DEF Inv, Core, Sends
  <2>2. \A op : Len(<<op>>) = 1 /\ Head(<<op>>) = op
    OBVIOUS
  <2> QED BY <2>1, <2>2 DEF SendBufferStable, OfFront
<1> QED BY <1>1, Invariance, PTL

\* A connected session always listens to its client, and what it has to send
\* is on its way (Session.cpp:84, Session.cpp:166, Session.cpp:237).
THEOREM NoStall == Spec => []NeverStalls
<1>1. ASSUME Inv PROVE NeverStalls
  BY <1>1 DEF Inv, Flow, NeverStalls
<1> QED BY <1>1, Invariance, PTL

\* Close runs OnDisconnected once, before the Session is destroyed, and the
\* session does nothing more for its client after it (Session.cpp:18).
THEOREM OneDisconnect == Spec => DisconnectsOnce
<1>1. Inv /\ [Next]_vars => [QuietDisconnect]_vars
  BY StepInv
<1> QED BY <1>1, Invariance, PTL DEF Spec, DisconnectsOnce

-----------------------------------------------------------------------------
(* Recursive functions.  The principles of induction of the library are       *)
(* about predicates; here they are stated about sets.                         *)

LEMMA Least ==
  ASSUME NEW T \in SUBSET Nat, T # {}
  PROVE  \E n \in T : \A m \in T : n <= m
<1>1. IsWellFoundedOn(OpToRel(<, Nat), Nat)
  BY NatLessThanWellFounded
<1>2. PICK n \in T : \A m \in T : ~(<<m, n>> \in OpToRel(<, Nat))
  BY <1>1, WFMin
<1>3. \A m \in T : ~(m < n)
  BY <1>2 DEF OpToRel
<1> QED BY <1>3

LEMMA Induction ==
  ASSUME NEW G \in SUBSET Nat, 0 \in G, \A n \in G : n + 1 \in G
  PROVE  G = Nat
<1>1. SUFFICES ASSUME Nat \ G # {} PROVE FALSE
  OBVIOUS
<1>2. PICK n \in Nat \ G : \A m \in Nat \ G : n <= m
  BY <1>1, Least
<1>3. n # 0 /\ n - 1 \in Nat /\ n - 1 \in G
  BY <1>2
<1> QED BY <1>2, <1>3

\* A function on 0..L with this first value and these steps.
Iterates(f, L, S, b, step) ==
  f \in [0..L -> S] /\ f[0] = b /\ \A n \in 1..L : f[n] = step[n][f[n - 1]]

LEMMA Recursion ==
  ASSUME NEW L \in Nat, NEW S, NEW b \in S, NEW step, \A n \in 1..L : step[n] \in [S -> S]
  PROVE  \E f : Iterates(f, L, S, b, step)
<1> DEFINE G == {k \in Nat : k <= L => \E f : Iterates(f, k, S, b, step)}
<1>1. 0 \in G
  <2>1. Iterates([n \in 0..0 |-> b], 0, S, b, step)
    BY DEF Iterates
  <2> QED BY <2>1
<1>2. ASSUME NEW k \in G PROVE k + 1 \in G
  <2> SUFFICES ASSUME k + 1 <= L PROVE \E f : Iterates(f, k + 1, S, b, step)
    OBVIOUS
  <2>1. PICK f : Iterates(f, k, S, b, step)
    BY <1>2
  <2> DEFINE v == step[k + 1][f[k]]
             h == [n \in 0..(k + 1) |-> IF n <= k THEN f[n] ELSE v]
  <2>2. v \in S
    BY <1>2, <2>1 DEF Iterates
  <2>3. h \in [0..(k + 1) -> S] /\ h[0] = b
    BY <1>2, <2>1, <2>2 DEF Iterates
  <2>4. ASSUME NEW n \in 1..(k + 1) PROVE h[n] = step[n][h[n - 1]]
    <3>1. CASE n <= k
      <4>1. h[n] = f[n] /\ h[n - 1] = f[n - 1]
        BY <1>2, <2>4, <3>1
      <4> QED BY <2>1, <2>4, <3>1, <4>1 DEF Iterates
    <3>2. CASE n = k + 1
      <4>1. h[n] = v /\ h[n - 1] = f[k]
        BY <1>2, <3>2
      <4> QED BY <3>2, <4>1
    <3> QED BY <1>2, <2>4, <3>1, <3>2
  <2> HIDE DEF h
  <2>5. Iterates(h, k + 1, S, b, step)
    BY <2>3, <2>4 DEF Iterates
  <2> QED BY <2>5
<1>3. L \in G
  BY <1>1, <1>2, Induction
<1> QED BY <1>3

\* Two functions that begin alike and go on alike.
GoAlike(f, g, m) == f[0] = g[0] /\ \A n \in 1..m : f[n - 1] = g[n - 1] => f[n] = g[n]

LEMMA SameRecursion ==
  ASSUME NEW m \in Nat, NEW f, NEW g, GoAlike(f, g, m)
  PROVE  \A n \in 0..m : f[n] = g[n]
<1> DEFINE G == {k \in Nat : k <= m => f[k] = g[k]}
<1>1. 0 \in G
  BY DEF GoAlike
<1>2. ASSUME NEW k \in G PROVE k + 1 \in G
  <2> SUFFICES ASSUME k + 1 <= m PROVE f[k + 1] = g[k + 1]
    OBVIOUS
  <2>1. k + 1 \in 1..m /\ (k + 1) - 1 = k /\ f[k] = g[k]
    BY <1>2
  <2> QED BY <2>1 DEF GoAlike
<1>3. G = Nat
  BY <1>1, <1>2, Induction
<1>4. \A n \in 0..m : n \in G
  BY <1>3
<1> QED BY <1>4

-----------------------------------------------------------------------------
(* Sums of packet sizes.                                                      *)

Adding(sizes) == [n \in 1..Len(sizes) |-> [sum \in Nat |-> sum + sizes[n]]]

\* TotalSize is the values of one function.
LEMMA TotalIs ==
  ASSUME NEW sizes \in Seq(Nat), NEW f, Iterates(f, Len(sizes), Nat, 0, Adding(sizes)),
         NEW n \in 0..Len(sizes)
  PROVE  TotalSize(sizes, n) = f[n]
<1> DEFINE Fits(g) == g = [k \in 0..n |-> IF k = 0 THEN 0 ELSE g[k - 1] + sizes[k]]
           g0 == [k \in 0..n |-> f[k]]
           g1 == CHOOSE g : Fits(g)
<1>0. /\ Len(sizes) \in Nat
      /\ f \in [0..Len(sizes) -> Nat] /\ f[0] = 0
      /\ \A k \in 1..Len(sizes) : f[k] = f[k - 1] + sizes[k]
  <2>1. /\ Len(sizes) \in Nat
        /\ \A k \in 1..Len(sizes) : sizes[k] \in Nat /\ k - 1 \in 0..Len(sizes)
    OBVIOUS
  <2>2. f \in [0..Len(sizes) -> Nat] /\ f[0] = 0
        /\ \A k \in 1..Len(sizes) : f[k] = Adding(sizes)[k][f[k - 1]]
    BY DEF Iterates
  <2>3. \A k \in 1..Len(sizes) : f[k - 1] \in Nat
    BY <2>1, <2>2
  <2> QED BY <2>1, <2>2, <2>3 DEF Adding
<1>1. TotalSize(sizes, n) = g1[n]
  BY DEF TotalSize
<1>2. Fits(g0)
  <2>1. ASSUME NEW k \in 0..n
        PROVE  g0[k] = IF k = 0 THEN 0 ELSE g0[k - 1] + sizes[k]
    <3>1. CASE k = 0
      BY <1>0, <3>1
    <3>2. CASE k # 0
      <4>1. k - 1 \in 0..n /\ k \in 1..Len(sizes)
        BY <1>0, <2>1, <3>2
      <4> QED BY <1>0, <2>1, <3>2, <4>1
    <3> QED BY <3>1, <3>2
  <2> QED BY <2>1
<1>3. Fits(g1)
  BY <1>2
<1> HIDE DEF g1
<1>4. \A k \in 0..n : g1[k] = IF k = 0 THEN 0 ELSE g1[k - 1] + sizes[k]
  BY <1>3
<1>5. f[0] = g1[0]
  BY <1>0, <1>4
<1>6. ASSUME NEW k \in 1..n, f[k - 1] = g1[k - 1] PROVE f[k] = g1[k]
  <2>1. k \in 0..n /\ k # 0 /\ k \in 1..Len(sizes)
    BY <1>0
  <2> QED BY <1>0, <1>4, <1>6, <2>1
<1>7. f[n] = g1[n]
  <2>1. n \in Nat /\ n \in 0..n
    BY <1>0
  <2>2. GoAlike(f, g1, n)
    BY <1>5, <1>6 DEF GoAlike
  <2>3. \A k \in 0..n : f[k] = g1[k]
    BY <2>1, <2>2, SameRecursion
  <2> QED BY <2>1, <2>3
<1> QED BY <1>1, <1>7

LEMMA TotalStep ==
  ASSUME NEW sizes \in Seq(Nat)
  PROVE  /\ TotalSize(sizes, 0) = 0
         /\ \A n \in 0..Len(sizes) : TotalSize(sizes, n) \in Nat
         /\ \A n \in 1..Len(sizes) : TotalSize(sizes, n) = TotalSize(sizes, n - 1) + sizes[n]
<1>0. /\ Len(sizes) \in Nat
      /\ \A n \in 1..Len(sizes) : sizes[n] \in Nat /\ n - 1 \in 0..Len(sizes) /\ n \in 0..Len(sizes)
  OBVIOUS
<1>1. \A n \in 1..Len(sizes) : Adding(sizes)[n] \in [Nat -> Nat]
  BY <1>0 DEF Adding
<1>2. PICK f : Iterates(f, Len(sizes), Nat, 0, Adding(sizes))
  BY <1>0, <1>1, Recursion
<1>3. \A n \in 0..Len(sizes) : TotalSize(sizes, n) = f[n]
  BY <1>2, TotalIs
<1>4. /\ f \in [0..Len(sizes) -> Nat] /\ f[0] = 0
      /\ \A k \in 1..Len(sizes) : f[k] = Adding(sizes)[k][f[k - 1]]
  BY <1>2 DEF Iterates
<1>5. \A n \in 1..Len(sizes) : f[n - 1] \in Nat
  BY <1>0, <1>4
<1>6. \A n \in 1..Len(sizes) : f[n] = f[n - 1] + sizes[n]
  BY <1>0, <1>4, <1>5 DEF Adding
<1>7. 0 \in 0..Len(sizes)
  BY <1>0
<1> QED BY <1>0, <1>3, <1>4, <1>6, <1>7

\* What follows in the sequence does not matter.
LEMMA TotalAgrees ==
  ASSUME NEW sizes \in Seq(Nat), NEW others \in Seq(Nat), NEW n \in Nat,
         n <= Len(sizes), n <= Len(others), \A k \in 1..n : sizes[k] = others[k]
  PROVE  TotalSize(sizes, n) = TotalSize(others, n)
<1> DEFINE G == {k \in Nat : k <= n => TotalSize(sizes, k) = TotalSize(others, k)}
<1>1. 0 \in G
  BY TotalStep
<1>2. ASSUME NEW k \in G PROVE k + 1 \in G
  <2> SUFFICES ASSUME k + 1 <= n PROVE TotalSize(sizes, k + 1) = TotalSize(others, k + 1)
    OBVIOUS
  <2>1. k + 1 \in 1..Len(sizes) /\ k + 1 \in 1..Len(others) /\ k + 1 \in 1..n /\ (k + 1) - 1 = k
    BY <1>2
  <2>2. TotalSize(sizes, k) = TotalSize(others, k)
    BY <1>2
  <2> QED BY <2>1, <2>2, TotalStep
<1>3. n \in G
  BY <1>1, <1>2, Induction
<1> QED BY <1>3

\* No packet is empty, so that every packet begins elsewhere.
LEMMA TotalGrows ==
  ASSUME NEW sizes \in Seq(Nat \ {0}), NEW i \in Nat, NEW j \in Nat, i < j, j <= Len(sizes)
  PROVE  TotalSize(sizes, i) < TotalSize(sizes, j)
<1> DEFINE G == {d \in Nat : i + 1 + d <= Len(sizes) =>
                               TotalSize(sizes, i) < TotalSize(sizes, i + 1 + d)}
<1>0. /\ sizes \in Seq(Nat) /\ Len(sizes) \in Nat /\ \A k \in 1..Len(sizes) : sizes[k] > 0
      /\ \A k \in 1..Len(sizes) : sizes[k] \in Nat
  OBVIOUS
<1>1. 0 \in G
  <2> SUFFICES ASSUME i + 1 <= Len(sizes) PROVE TotalSize(sizes, i) < TotalSize(sizes, i + 1)
    OBVIOUS
  <2>1. i + 1 \in 1..Len(sizes) /\ i \in 0..Len(sizes) /\ (i + 1) - 1 = i
    BY <1>0
  <2>2. TotalSize(sizes, i + 1) = TotalSize(sizes, i) + sizes[i + 1]
    BY <1>0, <2>1, TotalStep
  <2>3. TotalSize(sizes, i) \in Nat /\ sizes[i + 1] \in Nat /\ sizes[i + 1] > 0
    BY <1>0, <2>1, TotalStep
  <2> QED BY <2>2, <2>3
<1>2. ASSUME NEW d \in G PROVE d + 1 \in G
  <2> SUFFICES ASSUME i + 1 + (d + 1) <= Len(sizes)
               PROVE  TotalSize(sizes, i) < TotalSize(sizes, i + 1 + (d + 1))
    OBVIOUS
  <2>1. /\ i + 1 + (d + 1) \in 1..Len(sizes) /\ i + 1 + d \in 0..Len(sizes)
        /\ i \in 0..Len(sizes) /\ (i + 1 + (d + 1)) - 1 = i + 1 + d
    BY <1>0, <1>2
  <2>2. TotalSize(sizes, i) < TotalSize(sizes, i + 1 + d)
    BY <1>0, <1>2, <2>1
  <2> DEFINE k == i + 1 + d
  <2>3. TotalSize(sizes, i + 1 + (d + 1)) = TotalSize(sizes, k) + sizes[i + 1 + (d + 1)]
    BY <1>0, <2>1, TotalStep
  <2>4. /\ TotalSize(sizes, i) \in Nat /\ TotalSize(sizes, k) \in Nat
        /\ sizes[i + 1 + (d + 1)] \in Nat
    BY <1>0, <2>1, TotalStep
  <2> QED BY <2>2, <2>3, <2>4
<1>3. G = Nat
  BY <1>1, <1>2, Induction
<1>4. i + 1 + (j - i - 1) = j /\ j - i - 1 \in Nat
  OBVIOUS
<1>5. j - i - 1 \in G
  BY <1>3, <1>4
<1> QED BY <1>4, <1>5

\* The sizes of a piece of a sequence, the first of them reduced.
LEMMA TotalRest ==
  ASSUME NEW sizes \in Seq(Nat), NEW rest \in Seq(Nat), NEW first \in Nat, NEW less \in Nat,
         first + Len(rest) = Len(sizes), rest # <<>>,
         rest[1] = sizes[first + 1] - less,
         \A k \in 2..Len(rest) : rest[k] = sizes[first + k]
  PROVE  TotalSize(rest, Len(rest)) =
           TotalSize(sizes, Len(sizes)) - TotalSize(sizes, first) - less
<1> DEFINE At(k) == TotalSize(rest, k) = TotalSize(sizes, first + k) - TotalSize(sizes, first) - less
           G == {d \in Nat : d + 1 <= Len(rest) => At(d + 1)}
<1>0. /\ Len(rest) \in Nat \ {0} /\ Len(sizes) \in Nat
      /\ \A k \in 1..Len(rest) : first + k \in 1..Len(sizes) /\ rest[k] \in Nat
      /\ \A k \in 1..Len(sizes) : sizes[k] \in Nat
  OBVIOUS
<1>1. 0 \in G
  <2>1. 1 \in 1..Len(rest) /\ first + 1 \in 1..Len(sizes) /\ (first + 1) - 1 = first
        /\ first \in 0..Len(sizes)
    BY <1>0
  <2>2. TotalSize(rest, 1) = rest[1]
    BY <1>0, <2>1, TotalStep
  <2>3. TotalSize(sizes, first + 1) = TotalSize(sizes, first) + sizes[first + 1]
    BY <2>1, TotalStep
  <2>4. TotalSize(sizes, first) \in Nat /\ sizes[first + 1] \in Nat
    BY <1>0, <2>1, TotalStep
  <2> QED BY <2>2, <2>3, <2>4
<1>2. ASSUME NEW d \in G PROVE d + 1 \in G
  <2> SUFFICES ASSUME (d + 1) + 1 <= Len(rest) PROVE At((d + 1) + 1)
    OBVIOUS
  <2>1. PICK k \in 2..Len(rest) : k = (d + 1) + 1 /\ k - 1 = d + 1
    BY <1>0
  <2>2. PICK u \in 0..Len(sizes), w \in 1..Len(sizes) :
           u = first + (d + 1) /\ w = first + k /\ w - 1 = u
    BY <1>0, <2>1
  <2>3. TotalSize(rest, d + 1) = TotalSize(sizes, u) - TotalSize(sizes, first) - less
    BY <1>0, <1>2, <2>1, <2>2
  <2>4. k \in 1..Len(rest) /\ first \in 0..Len(sizes) /\ rest[k] = sizes[w]
    BY <1>0, <2>2
  <2>5. TotalSize(rest, k) = TotalSize(rest, d + 1) + sizes[w]
    BY <2>1, <2>4, TotalStep
  <2>6. TotalSize(sizes, w) = TotalSize(sizes, u) + sizes[w]
    BY <2>2, TotalStep
  <2>7. TotalSize(sizes, u) \in Nat /\ TotalSize(sizes, first) \in Nat /\ sizes[w] \in Nat
    BY <1>0, <2>4, TotalStep
  <2>8. TotalSize(rest, k) = TotalSize(sizes, w) - TotalSize(sizes, first) - less
    <3> DEFINE upTo == TotalSize(sizes, u)
               before == TotalSize(sizes, first)
               added == sizes[w]
    <3>1. TotalSize(rest, k) = (upTo - before - less) + added /\ TotalSize(sizes, w) = upTo + added
      BY <2>3, <2>5, <2>6
    <3>2. upTo \in Nat /\ before \in Nat /\ added \in Nat
      BY <2>7
    <3> HIDE DEF upTo, before, added
    <3>3. (upTo - before - less) + added = (upTo + added) - before - less
      BY ONLY <3>2, less \in Nat
    <3> QED BY <3>1, <3>3 DEF before
  <2> QED BY <2>1, <2>2, <2>8
<1>3. G = Nat
  BY <1>1, <1>2, Induction
<1>4. Len(rest) - 1 \in Nat /\ (Len(rest) - 1) + 1 = Len(rest)
  BY <1>0
<1>5. Len(rest) - 1 \in G
  BY <1>3, <1>4
<1>6. At(Len(rest))
  BY <1>0, <1>4, <1>5
<1> QED BY <1>6

-----------------------------------------------------------------------------
(* The bytes of packets.                                                      *)

Bytes == Seq(Nat \X Nat)
Piece(n, size) == [i \in 1..size |-> <<n, i>>]
More(n, from, size) == [i \in 1..size |-> <<n, from + i>>]
Sending(sizes) == [n \in 1..Len(sizes) |-> [b \in Bytes |-> b \o Piece(n, sizes[n])]]

LEMMA PieceIs ==
  ASSUME NEW n \in Nat, NEW size \in Nat
  PROVE  /\ Piece(n, size) \in Bytes /\ Len(Piece(n, size)) = size
         /\ \A i \in 1..size : Piece(n, size)[i] = <<n, i>>
BY DEF Piece, Bytes

LEMMA BytesJoin ==
  /\ \A s, t \in Bytes :
       /\ s \o t \in Bytes /\ Len(s \o t) = Len(s) + Len(t) /\ Len(s) \in Nat
       /\ \A i \in 1..(Len(s) + Len(t)) :
            (s \o t)[i] = IF i <= Len(s) THEN s[i] ELSE t[i - Len(s)]
  /\ \A s \in Bytes : s \o <<>> = s
  /\ \A s, t, u \in Bytes : (s \o t) \o u = s \o (t \o u)
<1>1. \A s, t \in Bytes :
        /\ s \o t \in Bytes /\ Len(s \o t) = Len(s) + Len(t) /\ Len(s) \in Nat
        /\ \A i \in 1..(Len(s) + Len(t)) :
             (s \o t)[i] = IF i <= Len(s) THEN s[i] ELSE t[i - Len(s)]
  BY ConcatProperties, LenProperties DEF Bytes
<1>2. \A s \in Bytes : s \o <<>> = s
  BY ConcatEmptySeq DEF Bytes
<1>3. \A s, t, u \in Bytes : (s \o t) \o u = s \o (t \o u)
  BY ConcatAssociative DEF Bytes
<1> QED BY <1>1, <1>2, <1>3

LEMMA BytesEqual ==
  ASSUME NEW s \in Bytes, NEW t \in Bytes, Len(s) = Len(t), \A i \in 1..Len(s) : s[i] = t[i]
  PROVE  s = t
BY SeqEqual DEF Bytes

\* The next bytes of a packet.
LEMMA PieceSplits ==
  ASSUME NEW n \in Nat, NEW m \in Nat, NEW k \in Nat
  PROVE  More(n, m, k) \in Bytes /\ Piece(n, m + k) = Piece(n, m) \o More(n, m, k)
<1> DEFINE more == More(n, m, k)
<1>1. /\ Piece(n, m) \in Bytes /\ Len(Piece(n, m)) = m
      /\ \A i \in 1..m : Piece(n, m)[i] = <<n, i>>
  BY PieceIs
<1>2. more \in Bytes /\ Len(more) = k /\ \A i \in 1..k : more[i] = <<n, m + i>>
  BY DEF Bytes, More
<1> HIDE DEF more
<1>3. m + k \in Nat
  OBVIOUS
<1>4. /\ Piece(n, m + k) \in Bytes /\ Len(Piece(n, m + k)) = m + k
      /\ \A i \in 1..(m + k) : Piece(n, m + k)[i] = <<n, i>>
  BY <1>3, PieceIs
<1> DEFINE both == Piece(n, m) \o more
<1>5. /\ both \in Bytes /\ Len(both) = m + k
      /\ \A i \in 1..(m + k) : both[i] = IF i <= m THEN Piece(n, m)[i] ELSE more[i - m]
  <2>1. /\ both \in Bytes /\ Len(both) = Len(Piece(n, m)) + Len(more)
        /\ \A i \in 1..(Len(Piece(n, m)) + Len(more)) :
             both[i] = IF i <= Len(Piece(n, m)) THEN Piece(n, m)[i]
                       ELSE more[i - Len(Piece(n, m))]
    BY <1>1, <1>2, BytesJoin
  <2> QED BY <1>1, <1>2, <2>1
<1> HIDE DEF both
<1>6. ASSUME NEW i \in 1..(m + k) PROVE both[i] = <<n, i>>
  <2>1. CASE i <= m
    BY <1>1, <1>5, <2>1
  <2>2. CASE ~(i <= m)
    <3>1. i - m \in 1..k /\ m + (i - m) = i
      BY <2>2
    <3> QED BY <1>2, <1>5, <2>2, <3>1
  <2> QED BY <2>1, <2>2
<1>7. Piece(n, m + k) = both
  BY <1>4, <1>5, <1>6, BytesEqual
<1> QED BY <1>2, <1>7 DEF both, more

LEMMA BytesAre ==
  ASSUME NEW sizes \in Seq(Nat), NEW f, Iterates(f, Len(sizes), Bytes, <<>>, Sending(sizes)),
         NEW n \in 0..Len(sizes)
  PROVE  PacketBytes(sizes, n) = f[n]
<1> DEFINE Fits(g) == g = [k \in 0..n |-> IF k = 0 THEN <<>>
                                          ELSE g[k - 1] \o [i \in 1..sizes[k] |-> <<k, i>>]]
           g0 == [k \in 0..n |-> f[k]]
           g1 == CHOOSE g : Fits(g)
<1>0. /\ Len(sizes) \in Nat
      /\ f[0] = <<>> /\ \A k \in 1..Len(sizes) : f[k] = f[k - 1] \o Piece(k, sizes[k])
  <2>1. Len(sizes) \in Nat /\ \A k \in 1..Len(sizes) : k - 1 \in 0..Len(sizes)
    OBVIOUS
  <2>2. f \in [0..Len(sizes) -> Bytes] /\ f[0] = <<>>
        /\ \A k \in 1..Len(sizes) : f[k] = Sending(sizes)[k][f[k - 1]]
    BY DEF Iterates
  <2>3. \A k \in 1..Len(sizes) : f[k - 1] \in Bytes
    BY <2>1, <2>2
  <2> QED BY <2>1, <2>2, <2>3 DEF Sending
<1>1. PacketBytes(sizes, n) = g1[n]
  BY DEF PacketBytes
<1>2. Fits(g0)
  <2>1. ASSUME NEW k \in 0..n
        PROVE  g0[k] = IF k = 0 THEN <<>> ELSE g0[k - 1] \o [i \in 1..sizes[k] |-> <<k, i>>]
    <3>1. CASE k = 0
      BY <1>0, <3>1
    <3>2. CASE k # 0
      <4>1. k - 1 \in 0..n /\ k \in 1..Len(sizes)
        BY <1>0, <2>1, <3>2
      <4> QED BY <1>0, <2>1, <3>2, <4>1 DEF Piece
    <3> QED BY <3>1, <3>2
  <2> QED BY <2>1
<1>3. Fits(g1)
  BY <1>2
<1> HIDE DEF g1
<1>4. \A k \in 0..n : g1[k] = IF k = 0 THEN <<>> ELSE g1[k - 1] \o Piece(k, sizes[k])
  BY <1>3 DEF Piece
<1>5. f[0] = g1[0]
  BY <1>0, <1>4
<1>6. ASSUME NEW k \in 1..n, f[k - 1] = g1[k - 1] PROVE f[k] = g1[k]
  <2>1. k \in 0..n /\ k # 0 /\ k \in 1..Len(sizes)
    BY <1>0
  <2> QED BY <1>0, <1>4, <1>6, <2>1
<1>7. f[n] = g1[n]
  <2>1. n \in Nat /\ n \in 0..n
    BY <1>0
  <2>2. GoAlike(f, g1, n)
    BY <1>5, <1>6 DEF GoAlike
  <2>3. \A k \in 0..n : f[k] = g1[k]
    BY <2>1, <2>2, SameRecursion
  <2> QED BY <2>1, <2>3
<1> QED BY <1>1, <1>7

LEMMA BytesStep ==
  ASSUME NEW sizes \in Seq(Nat)
  PROVE  /\ PacketBytes(sizes, 0) = <<>>
         /\ \A n \in 0..Len(sizes) : PacketBytes(sizes, n) \in Bytes
         /\ \A n \in 1..Len(sizes) :
              PacketBytes(sizes, n) = PacketBytes(sizes, n - 1) \o Piece(n, sizes[n])
<1>0. /\ Len(sizes) \in Nat
      /\ \A n \in 1..Len(sizes) : /\ sizes[n] \in Nat /\ n \in Nat
                                  /\ n - 1 \in 0..Len(sizes) /\ n \in 0..Len(sizes)
  OBVIOUS
<1>1. \A n \in 1..Len(sizes) : Sending(sizes)[n] \in [Bytes -> Bytes]
  <2> SUFFICES ASSUME NEW n \in 1..Len(sizes) PROVE Sending(sizes)[n] \in [Bytes -> Bytes]
    OBVIOUS
  <2>1. Piece(n, sizes[n]) \in Bytes
    BY <1>0, PieceIs
  <2>2. \A b \in Bytes : b \o Piece(n, sizes[n]) \in Bytes
    BY <2>1, ConcatProperties DEF Bytes
  <2> QED BY <2>2 DEF Sending
<1>2. PICK f : Iterates(f, Len(sizes), Bytes, <<>>, Sending(sizes))
  <2>1. <<>> \in Bytes
    BY DEF Bytes
  <2> QED BY <1>0, <1>1, <2>1, Recursion
<1>3. \A n \in 0..Len(sizes) : PacketBytes(sizes, n) = f[n]
  BY <1>2, BytesAre
<1>4. /\ f \in [0..Len(sizes) -> Bytes] /\ f[0] = <<>>
      /\ \A k \in 1..Len(sizes) : f[k] = Sending(sizes)[k][f[k - 1]]
  BY <1>2 DEF Iterates
<1>5. \A n \in 1..Len(sizes) : f[n - 1] \in Bytes
  BY <1>0, <1>4
<1>6. \A n \in 1..Len(sizes) : f[n] = f[n - 1] \o Piece(n, sizes[n])
  BY <1>0, <1>4, <1>5 DEF Sending
<1>7. 0 \in 0..Len(sizes)
  BY <1>0
<1> QED BY <1>0, <1>3, <1>4, <1>6, <1>7

LEMMA BytesAgree ==
  ASSUME NEW sizes \in Seq(Nat), NEW others \in Seq(Nat), NEW n \in Nat,
         n <= Len(sizes), n <= Len(others), \A k \in 1..n : sizes[k] = others[k]
  PROVE  PacketBytes(sizes, n) = PacketBytes(others, n)
<1> DEFINE f == [k \in 0..n |-> PacketBytes(sizes, k)]
           g == [k \in 0..n |-> PacketBytes(others, k)]
<1>1. f[0] = g[0]
  BY BytesStep
<1>2. ASSUME NEW k \in 1..n, f[k - 1] = g[k - 1] PROVE f[k] = g[k]
  <2>1. k \in 1..Len(sizes) /\ k \in 1..Len(others) /\ k - 1 \in 0..n /\ k \in 0..n
    OBVIOUS
  <2> QED BY <1>2, <2>1, BytesStep
<1> HIDE DEF f, g
<1>3. GoAlike(f, g, n)
  BY <1>1, <1>2 DEF GoAlike
<1>4. n \in 0..n /\ \A k \in 0..n : f[k] = g[k]
  BY <1>3, SameRecursion
<1>5. f[n] = PacketBytes(sizes, n) /\ g[n] = PacketBytes(others, n)
  BY <1>4 DEF f, g
<1> QED BY <1>4, <1>5

\* Sequences that continue one another.
Continues(t, s) == s \in Bytes /\ \E u \in Bytes : t = s \o u

LEMMA ContinuesOn ==
  ASSUME NEW s, NEW t, NEW v, Continues(t, s), Continues(v, t)
  PROVE  Continues(v, s)
<1>1. PICK u \in Bytes, w \in Bytes : t = s \o u /\ v = t \o w
  BY DEF Continues
<1>2. u \o w \in Bytes /\ v = s \o (u \o w)
  <2>1. s \in Bytes
    BY DEF Continues
  <2> QED BY <1>1, <2>1, BytesJoin
<1> QED BY <1>2 DEF Continues

LEMMA ContinuesPrefix ==
  ASSUME NEW s, NEW t, Continues(t, s)
  PROVE  IsPrefix(s, t)
<1>1. PICK u \in Bytes : t = s \o u /\ s \in Bytes
  BY DEF Continues
<1>2. Len(s) \in Nat /\ Len(u) \in Nat /\ Len(t) = Len(s) + Len(u)
  BY <1>1, ConcatProperties DEF Bytes
<1>3. SubSeq(s, 1, Len(s)) = SubSeq(t, 1, Len(s))
  <2>1. CASE Len(s) = 0
    BY <2>1, <1>1, SubSeqEmpty
  <2>2. CASE Len(s) # 0
    <3>1. Len(s) \in 1..Len(s) /\ 1 \in 1..Len(s)
      BY <1>2, <2>2
    <3> QED BY <1>1, <3>1, SubSeqOfConcat1 DEF Bytes
  <2> QED BY <2>1, <2>2
<1> QED BY <1>2, <1>3 DEF IsPrefix

\* Some packets and the first bytes of the next are the beginning of them all.
LEMMA BytesBegin ==
  ASSUME NEW sizes \in Seq(Nat), NEW n \in Nat, NEW m \in Nat,
         \/ n = Len(sizes) /\ m = 0
         \/ n < Len(sizes) /\ m <= sizes[n + 1]
  PROVE  /\ PacketBytes(sizes, n) \o Piece(n + 1, m) \in Bytes
         /\ IsPrefix(PacketBytes(sizes, n) \o Piece(n + 1, m), PacketBytes(sizes, Len(sizes)))
<1>0. /\ Len(sizes) \in Nat /\ n \in 0..Len(sizes)
      /\ \A k \in 1..Len(sizes) : sizes[k] \in Nat /\ k \in Nat
  OBVIOUS
<1> DEFINE G == {d \in Nat : n + d <= Len(sizes) =>
                               Continues(PacketBytes(sizes, n + d), PacketBytes(sizes, n))}
<1>1. ASSUME NEW k \in 0..Len(sizes)
      PROVE  Continues(PacketBytes(sizes, k), PacketBytes(sizes, k))
  <2>1. PacketBytes(sizes, k) \in Bytes /\ <<>> \in Bytes
    BY BytesStep DEF Bytes
  <2> QED BY <2>1, BytesJoin DEF Continues
<1>2. ASSUME NEW k \in 1..Len(sizes)
      PROVE  Continues(PacketBytes(sizes, k), PacketBytes(sizes, k - 1))
  <2>1. Piece(k, sizes[k]) \in Bytes /\ k - 1 \in 0..Len(sizes)
    BY <1>0, PieceIs
  <2> QED BY <2>1, BytesStep DEF Continues
<1>3. ASSUME NEW j \in 0..Len(sizes)
      PROVE  Continues(PacketBytes(sizes, Len(sizes)), PacketBytes(sizes, j))
  <2> DEFINE H == {d \in Nat : j + d <= Len(sizes) =>
                                 Continues(PacketBytes(sizes, j + d), PacketBytes(sizes, j))}
  <2>1. 0 \in H
    BY <1>0, <1>1
  <2>2. ASSUME NEW d \in H PROVE d + 1 \in H
    <3> SUFFICES ASSUME j + (d + 1) <= Len(sizes)
                 PROVE  Continues(PacketBytes(sizes, j + (d + 1)), PacketBytes(sizes, j))
      OBVIOUS
    <3>1. j + (d + 1) \in 1..Len(sizes) /\ (j + (d + 1)) - 1 = j + d /\ j + d <= Len(sizes)
      BY <1>0
    <3>2. Continues(PacketBytes(sizes, j + (d + 1)), PacketBytes(sizes, j + d))
      BY <1>2, <3>1
    <3>3. Continues(PacketBytes(sizes, j + d), PacketBytes(sizes, j))
      BY <3>1
    <3> QED BY <3>2, <3>3, ContinuesOn
  <2>3. H = Nat
    BY <2>1, <2>2, Induction
  <2>4. PICK d \in Nat : j + d = Len(sizes)
    <3>1. Len(sizes) - j \in Nat /\ j + (Len(sizes) - j) = Len(sizes)
      BY <1>0
    <3> QED BY <3>1
  <2>5. Continues(PacketBytes(sizes, j + d), PacketBytes(sizes, j))
    <3>1. d \in H
      BY <2>3
    <3>2. j + d <= Len(sizes)
      BY <1>0, <2>4
    <3> QED BY <3>1, <3>2
  <2> QED BY <2>4, <2>5
<1>4. PacketBytes(sizes, n) \in Bytes /\ Piece(n + 1, m) \in Bytes
  BY <1>0, BytesStep, PieceIs
<1>5. PacketBytes(sizes, n) \o Piece(n + 1, m) \in Bytes
  BY <1>4, BytesJoin
<1>6. CASE n = Len(sizes) /\ m = 0
  <2>1. Piece(n + 1, m) = <<>>
    BY <1>6 DEF Piece
  <2>2. PacketBytes(sizes, n) \o Piece(n + 1, m) = PacketBytes(sizes, n)
    BY <1>4, <2>1, BytesJoin
  <2> QED BY <1>0, <1>1, <1>5, <1>6, <2>2, ContinuesPrefix
<1>7. CASE n < Len(sizes) /\ m <= sizes[n + 1]
  <2>1. n + 1 \in 1..Len(sizes) /\ n + 1 \in 0..Len(sizes) /\ (n + 1) - 1 = n /\ sizes[n + 1] \in Nat
    BY <1>0, <1>7
  <2> DEFINE whole == Piece(n + 1, sizes[n + 1])
             part == Piece(n + 1, m)
             rest == More(n + 1, m, sizes[n + 1] - m)
  <2>2. PICK k \in Nat : k = sizes[n + 1] - m
    BY <1>7, <2>1
  <2>3. rest \in Bytes /\ whole = part \o rest
    <3>1. n + 1 \in Nat /\ m + k = sizes[n + 1] /\ rest = More(n + 1, m, k)
      BY <2>1, <2>2
    <3> HIDE DEF rest
    <3> QED BY <3>1, PieceSplits
  <2> HIDE DEF whole, part, rest
  <2>4. PacketBytes(sizes, n + 1) = PacketBytes(sizes, n) \o whole
    BY <2>1, BytesStep DEF whole
  <2>5. part \in Bytes /\ PacketBytes(sizes, n) \o part \in Bytes
    BY <1>4, <1>5 DEF part
  <2>6. PacketBytes(sizes, n + 1) = (PacketBytes(sizes, n) \o part) \o rest
    BY <1>4, <2>3, <2>4, <2>5, BytesJoin
  <2>7. Continues(PacketBytes(sizes, n + 1), PacketBytes(sizes, n) \o part)
    BY <2>3, <2>5, <2>6 DEF Continues
  <2>8. Continues(PacketBytes(sizes, Len(sizes)), PacketBytes(sizes, n) \o part)
    BY <1>3, <2>1, <2>7, ContinuesOn
  <2> QED BY <1>5, <2>8, ContinuesPrefix DEF part
<1> QED BY <1>6, <1>7

\* What is written follows what was.
LEMMA PieceGrows ==
  ASSUME NEW n \in Nat, NEW m \in Nat, NEW k \in Nat, NEW s \in Bytes
  PROVE  (s \o Piece(n, m)) \o More(n, m, k) = s \o Piece(n, m + k)
<1>1. Piece(n, m) \in Bytes
  BY PieceIs
<1>2. More(n, m, k) \in Bytes /\ Piece(n, m + k) = Piece(n, m) \o More(n, m, k)
  BY PieceSplits
<1>3. (s \o Piece(n, m)) \o More(n, m, k) = s \o (Piece(n, m) \o More(n, m, k))
  BY <1>1, <1>2, BytesJoin
<1> QED BY <1>2, <1>3

-----------------------------------------------------------------------------
(* What a connection sends and receives.                                      *)

\* The packets that were sent whole, and the bytes of the next that count as sent.
Done(l) == Len(l.accepted) - Len(l.queue)
Counted(l) == IF l.queue = <<>> THEN 0 ELSE l.queue[1].sent

Entry == [packet : Nat, size : Nat, sent : Nat]
QueueIs(l) ==
  /\ l.accepted \in Seq(Nat \ {0}) /\ l.queue \in Seq(Entry) /\ Done(l) \in Nat
  /\ \A j \in 1..Len(l.queue) :
       /\ l.queue[j].packet = Done(l) + j /\ l.queue[j].size = l.accepted[Done(l) + j]
       /\ j # 1 => l.queue[j].sent = 0
  /\ l.queue # <<>> => Counted(l) < l.accepted[Done(l) + 1]
QueuedIs(l) ==
  /\ l.queued = TotalSize(l.accepted, Len(l.accepted)) - TotalSize(l.accepted, Done(l)) - Counted(l)
  /\ l.queued <= MaxQueued
\* The client has been sent m bytes of the front packet, some of them perhaps
\* after the connection was closed.
WireIs(l, m) ==
  /\ m \in Nat /\ l.wire = PacketBytes(l.accepted, Done(l)) \o Piece(Done(l) + 1, m)
  /\ l.queue = <<>> => m = 0
  /\ l.queue # <<>> => m <= l.accepted[Done(l) + 1]
  /\ IsConnected(l) \/ l.sends # <<>> => m = Counted(l)
Out(l) == QueueIs(l) /\ QueuedIs(l) /\ \E m : WireIs(l, m)

\* The bytes in the buffer are those after the packets handled.
Legal(l) == l.stream[l.handled + 1] \in Header..MaxPacket
In(l) ==
  /\ l.stream \in Seq(Nat \ {0}) /\ l.handled \in 0..Len(l.stream)
  /\ l.received \in Nat /\ l.received <= TotalSize(l.stream, Len(l.stream))
  /\ l.read = 0 /\ l.write \in 0..MaxPacket
  /\ IsConnected(l) =>
       /\ l.received = TotalSize(l.stream, l.handled) + l.write
       /\ \A n : l.recvs = <<n>> => n \in Nat /\ n + l.write <= MaxPacket
  /\ l.why # "full" /\ (l.why = "malformed" => ~IsConnected(l) /\ ~Legal(l))

Settled(l) == ~Complete(l) /\ ~Malformed(l)
StreamInv ==
  \A s \in Sessions :
    /\ Out(link[s]) /\ In(link[s])
    /\ IsConnected(link[s]) /\ thread # s => Settled(link[s])

\* What leaves the receiving of a connection alone, but may end it.
Passive(l, m, why) ==
  /\ m.stream = l.stream /\ m.received = l.received /\ m.handled = l.handled
  /\ m.read = l.read /\ m.write = l.write /\ m.recvs = l.recvs
  /\ IsConnected(m) => IsConnected(l)
  /\ m.why \in {l.why, why, "slow", "kernel"}

LEMMA PassiveTwice ==
  ASSUME NEW l, NEW m, NEW n, NEW why,
         \/ Passive(l, m, why) /\ Passive(m, n, "slow")
         \/ Passive(l, m, "slow") /\ Passive(m, n, why)
  PROVE  Passive(l, n, why)
BY DEF Passive

LEMMA PassiveIn ==
  ASSUME NEW l, NEW m, In(l), NEW why, why \notin {"full", "malformed"}, Passive(l, m, why)
  PROVE  In(m)
BY DEF In, Passive, Legal

LEMMA PassiveSettled ==
  ASSUME NEW l, NEW m, NEW why, Passive(l, m, why), Settled(l)
  PROVE  Settled(m)
<1>1. DataSize(m) = DataSize(l)
  BY DEF DataSize, Passive
<1>2. Beginning(m) = Beginning(l) /\ m.stream = l.stream
  BY <1>1 DEF Beginning, Passive
<1>3. HeaderSize(m) = HeaderSize(l)
  BY <1>2 DEF HeaderSize
<1> QED BY <1>1, <1>3 DEF Settled, Complete, Malformed, HasHeader

\* What leaves the sending alone.
LEMMA OutSame ==
  ASSUME NEW l, NEW m, Out(l), m.accepted = l.accepted, m.queue = l.queue, m.queued = l.queued,
         m.wire = l.wire, IsConnected(m) \/ m.sends # <<>> => IsConnected(l) \/ l.sends # <<>>
  PROVE  Out(m)
<1>1. Done(m) = Done(l) /\ Counted(m) = Counted(l)
  BY DEF Done, Counted
<1>2. QueueIs(m) /\ QueuedIs(m)
  BY <1>1 DEF Out, QueueIs, QueuedIs
<1>3. PICK k : WireIs(l, k)
  BY DEF Out
<1>4. WireIs(m, k)
  BY <1>1, <1>3 DEF WireIs
<1> QED BY <1>2, <1>4 DEF Out

LEMMA RequestCloseOut ==
  ASSUME NEW l, Core(l), Out(l), NEW why
  PROVE  LET m == RequestClose(l, why) IN Out(m) /\ Passive(l, m, why)
<1> DEFINE m == RequestClose(l, why)
<1>1. /\ m.closing /\ m.why \in {l.why, why}
      /\ \A f \in Fields \ {"closing", "why"} : m[f] = l[f]
  BY DEF Core, Shape, Fields, RequestClose
<1> HIDE DEF m
<1>2. /\ m.accepted = l.accepted /\ m.queue = l.queue /\ m.queued = l.queued /\ m.wire = l.wire
      /\ m.sends = l.sends
      /\ m.stream = l.stream /\ m.received = l.received /\ m.handled = l.handled
      /\ m.read = l.read /\ m.write = l.write /\ m.recvs = l.recvs
  BY <1>1 DEF Fields
<1>3. ~IsConnected(m)
  BY <1>1 DEF IsConnected
<1>4. Out(m)
  BY <1>2, <1>3, OutSame
<1> QED BY <1>1, <1>2, <1>3, <1>4 DEF Passive, m

LEMMA EnqueueOut ==
  ASSUME NEW l, Core(l), Out(l), IsConnected(l), NEW size \in Nat \ {0},
         ~(size > MaxQueued - l.queued)
  PROVE  LET m == Enqueue(l, size) IN Out(m) /\ Passive(l, m, "slow") /\ IsConnected(m)
<1> DEFINE m == Enqueue(l, size)
           e == [packet |-> Len(l.accepted) + 1, size |-> size, sent |-> 0]
<1>1. /\ m.queue = Append(l.queue, e) /\ m.queued = l.queued + size
      /\ m.accepted = Append(l.accepted, size)
      /\ \A f \in Fields \ {"queue", "queued", "accepted"} : m[f] = l[f]
  BY DEF Core, Shape, Fields, Enqueue
<1>2. /\ m.wire = l.wire /\ m.sends = l.sends
      /\ m.stream = l.stream /\ m.received = l.received /\ m.handled = l.handled
      /\ m.read = l.read /\ m.write = l.write /\ m.recvs = l.recvs /\ m.why = l.why
      /\ m.open = l.open /\ m.closing = l.closing /\ m.gone = l.gone
  BY <1>1 DEF Fields
<1> HIDE DEF m
<1>3. IsConnected(m) /\ Passive(l, m, "slow")
  BY <1>2 DEF Passive, IsConnected
<1>4. /\ l.accepted \in Seq(Nat \ {0}) /\ l.queue \in Seq(Entry)
      /\ Len(l.accepted) \in Nat /\ Len(l.queue) \in Nat /\ Done(l) \in Nat
      /\ Done(l) + Len(l.queue) = Len(l.accepted)
      /\ l.accepted \in Seq(Nat)
  <2>1. l.accepted \in Seq(Nat \ {0}) /\ l.queue \in Seq(Entry) /\ Done(l) \in Nat
    BY DEF Out, QueueIs
  <2> QED BY <2>1 DEF Done
<1>5. /\ m.accepted \in Seq(Nat \ {0}) /\ Len(m.accepted) = Len(l.accepted) + 1
      /\ m.accepted[Len(l.accepted) + 1] = size
      /\ \A i \in 1..Len(l.accepted) : m.accepted[i] = l.accepted[i]
      /\ m.accepted \in Seq(Nat)
  BY <1>1, <1>4
<1>6. e \in Entry
  BY <1>4 DEF Entry
<1> HIDE DEF e
<1>7. /\ m.queue \in Seq(Entry) /\ Len(m.queue) = Len(l.queue) + 1 /\ m.queue # <<>>
      /\ m.queue[Len(l.queue) + 1] = e
      /\ \A i \in 1..Len(l.queue) : m.queue[i] = l.queue[i]
  BY <1>1, <1>4, <1>6
<1>8. Done(m) = Done(l)
  BY <1>4, <1>5, <1>7 DEF Done
<1>9. Counted(m) = Counted(l) /\ Counted(m) \in Nat
  <2>1. CASE l.queue = <<>>
    <3>1. m.queue[1] = e
      BY <1>7, <2>1
    <3> QED BY <1>7, <2>1, <3>1 DEF Counted, e
  <2>2. CASE l.queue # <<>>
    <3>1. 1 \in 1..Len(l.queue)
      BY <1>4, <2>2
    <3>2. m.queue[1] = l.queue[1] /\ l.queue[1] \in Entry
      BY <1>4, <1>7, <3>1
    <3> QED BY <1>7, <2>2, <3>2 DEF Counted, Entry
  <2> QED BY <2>1, <2>2
<1>10. QueueIs(m)
  <2>1. ASSUME NEW j \in 1..Len(m.queue)
        PROVE  /\ m.queue[j].packet = Done(m) + j /\ m.queue[j].size = m.accepted[Done(m) + j]
               /\ j # 1 => m.queue[j].sent = 0
    <3>1. CASE j \in 1..Len(l.queue)
      <4>1. m.queue[j] = l.queue[j] /\ Done(l) + j \in 1..Len(l.accepted)
        <5>1. /\ Done(l) + Len(l.queue) = Len(l.accepted)
              /\ Done(l) \in Nat /\ Len(l.queue) \in Nat /\ Len(l.accepted) \in Nat
          BY <1>4
        <5>2. Done(l) + j \in 1..Len(l.accepted)
          BY ONLY <3>1, <5>1
        <5> QED BY <1>7, <3>1, <5>2
      <4>2. m.accepted[Done(l) + j] = l.accepted[Done(l) + j]
        BY <1>5, <4>1
      <4> QED BY <1>8, <3>1, <4>1, <4>2 DEF Out, QueueIs
    <3>2. CASE j = Len(l.queue) + 1
      <4>1. m.queue[j] = e
        BY <1>7, <3>2
      <4>2. /\ Done(l) + Len(l.queue) = Len(l.accepted)
            /\ Done(l) \in Nat /\ Len(l.queue) \in Nat /\ Len(l.accepted) \in Nat
        BY <1>4
      <4>3. Done(l) + j = Len(l.accepted) + 1
        BY ONLY <3>2, <4>2
      <4> QED BY <1>5, <1>8, <4>1, <4>3 DEF e
    <3> QED BY <1>4, <1>7, <3>1, <3>2
  <2>2. Counted(m) < m.accepted[Done(m) + 1]
    <3>1. CASE l.queue = <<>>
      <4>1. Counted(l) = 0 /\ Done(l) + 1 = Len(l.accepted) + 1
        BY <1>4, <3>1 DEF Counted
      <4> QED BY <1>5, <1>8, <1>9, <4>1
    <3>2. CASE l.queue # <<>>
      <4>1. Done(l) + 1 \in 1..Len(l.accepted) /\ Counted(l) < l.accepted[Done(l) + 1]
        <5>1. Len(l.queue) > 0
          BY <1>4, <3>2
        <5> QED BY <1>4, <3>2, <5>1 DEF Out, QueueIs
      <4> QED BY <1>5, <1>8, <1>9, <4>1
    <3> QED BY <3>1, <3>2
  <2> QED BY <1>4, <1>5, <1>7, <1>8, <2>1, <2>2 DEF QueueIs
<1>11. QueuedIs(m)
  <2>1. TotalSize(m.accepted, Len(l.accepted)) = TotalSize(l.accepted, Len(l.accepted))
    <3>1. Len(l.accepted) \in Nat /\ Len(l.accepted) <= Len(l.accepted)
          /\ Len(l.accepted) <= Len(m.accepted)
      BY <1>4, <1>5
    <3> QED BY <1>4, <1>5, <3>1, TotalAgrees
  <2>2. Done(l) \in Nat /\ Done(l) <= Len(l.accepted)
    BY <1>4
  <2>3. TotalSize(m.accepted, Done(l)) = TotalSize(l.accepted, Done(l))
    <3>1. Done(l) <= Len(m.accepted) /\ \A k \in 1..Done(l) : m.accepted[k] = l.accepted[k]
      BY <1>4, <1>5, <2>2
    <3> QED BY <1>4, <1>5, <2>2, <3>1, TotalAgrees
  <2>4. Len(m.accepted) \in 1..Len(m.accepted) /\ Len(m.accepted) - 1 = Len(l.accepted)
    BY <1>4, <1>5
  <2>5. TotalSize(m.accepted, Len(m.accepted)) = TotalSize(m.accepted, Len(l.accepted)) + size
    BY <1>5, <2>4, TotalStep
  <2>6. Len(l.accepted) \in 0..Len(l.accepted) /\ Done(l) \in 0..Len(l.accepted)
    BY <1>4
  <2>7. TotalSize(l.accepted, Len(l.accepted)) \in Nat /\ TotalSize(l.accepted, Done(l)) \in Nat
    BY <1>4, <2>6, TotalStep
  <2>8. l.queued = TotalSize(l.accepted, Len(l.accepted)) - TotalSize(l.accepted, Done(l)) - Counted(l)
    BY DEF Out, QueuedIs
  <2>9. MaxQueued \in Nat
    BY SessionAssumption DEF SessionAssumption
  <2>10. m.queued = TotalSize(m.accepted, Len(m.accepted)) - TotalSize(m.accepted, Done(m)) - Counted(m)
    BY <1>1, <1>8, <1>9, <2>1, <2>3, <2>5, <2>7, <2>8
  <2>11. m.queued <= MaxQueued
    BY <1>1, <1>9, <2>7, <2>8, <2>9
  <2> QED BY <2>10, <2>11 DEF QueuedIs
<1>12. \E k : WireIs(m, k)
  <2>1. PICK k : WireIs(l, k)
    BY DEF Out
  <2>2. Done(l) <= Len(l.accepted) /\ Done(l) <= Len(m.accepted)
        /\ \A i \in 1..Done(l) : m.accepted[i] = l.accepted[i]
    BY <1>4, <1>5
  <2>3. PacketBytes(m.accepted, Done(l)) = PacketBytes(l.accepted, Done(l))
    BY <1>4, <1>5, <2>2, BytesAgree
  <2>4. k = Counted(m) /\ Counted(m) < m.accepted[Done(m) + 1]
    BY <1>7, <1>9, <1>10, <2>1 DEF WireIs, QueueIs
  <2>5. m.accepted[Done(m) + 1] \in Nat
    <3>1. Done(m) + 1 \in 1..Len(m.accepted)
      BY <1>4, <1>5, <1>8
    <3> QED BY <1>5, <3>1
  <2>6. k <= m.accepted[Done(m) + 1]
    BY <1>9, <2>4, <2>5
  <2> QED BY <1>2, <1>7, <1>8, <1>9, <2>1, <2>3, <2>4, <2>6 DEF WireIs
<1> QED BY <1>3, <1>10, <1>11, <1>12 DEF Out, m

LEMMA PostSendOut ==
  ASSUME NEW l, Core(l), Out(l), IsConnected(l)
  PROVE  LET m == PostSend(l) IN Out(m) /\ Passive(l, m, "slow")
<1> DEFINE m == PostSend(l)
<1>1. \A f \in Fields \ {"sendPending", "sends"} : m[f] = l[f]
  BY DEF Core, Shape, Fields, PostSend
<1> HIDE DEF m
<1>2. /\ m.accepted = l.accepted /\ m.queue = l.queue /\ m.queued = l.queued /\ m.wire = l.wire
      /\ m.stream = l.stream /\ m.received = l.received /\ m.handled = l.handled
      /\ m.read = l.read /\ m.write = l.write /\ m.recvs = l.recvs /\ m.why = l.why
  BY <1>1 DEF Fields
<1>3. Out(m)
  BY <1>2, OutSame
<1> QED BY <1>2, <1>3 DEF Passive, m

LEMMA SendOut ==
  ASSUME NEW l, Core(l), Out(l), NEW size \in SendSizes, NEW posts
  PROVE  LET m == Send(l, size, posts) IN Out(m) /\ Passive(l, m, "slow")
<1> DEFINE m == Send(l, size, posts)
           e == Enqueue(l, size)
<1>0. size \in Nat \ {0}
  BY SessionAssumption DEF SessionAssumption
<1>1. CASE m = l
  BY <1>1 DEF Passive
<1>2. CASE m = RequestClose(l, "slow")
  BY <1>2, RequestCloseOut
<1>3. ASSUME IsConnected(l), ~(size > MaxQueued - l.queued),
             m = e \/ m = PostSend(e) \/ m = RequestClose(e, "kernel")
      PROVE  Out(m) /\ Passive(l, m, "slow")
  <2>1. Core(e) /\ Out(e) /\ Passive(l, e, "slow") /\ IsConnected(e)
    BY <1>0, <1>3, EnqueueCore, EnqueueOut
  <2> HIDE DEF e
  <2>2. CASE m = PostSend(e)
    <3>1. Out(PostSend(e)) /\ Passive(e, PostSend(e), "slow")
      BY <2>1, PostSendOut
    <3> QED BY <2>1, <2>2, <3>1, PassiveTwice
  <2>3. CASE m = RequestClose(e, "kernel")
    <3>1. Out(RequestClose(e, "kernel")) /\ Passive(e, RequestClose(e, "kernel"), "kernel")
      BY <2>1, RequestCloseOut
    <3> QED BY <2>1, <2>3, <3>1 DEF Passive
  <2> QED BY <1>3, <2>1, <2>2, <2>3
<1> QED BY <1>1, <1>2, <1>3 DEF Send

LEMMA BroadcastOut ==
  ASSUME NEW links, \A t \in Sessions : Core(links[t]) /\ Out(links[t]), NEW b \in Broadcasts
  PROVE  \A t \in Sessions :
           Out(Broadcast(links, b)[t]) /\ Passive(links[t], Broadcast(links, b)[t], "slow")
<1> DEFINE sent == Broadcast(links, b)
<1>1. b.size \in SendSizes
  BY DEF Broadcasts
<1>2. ASSUME NEW t \in Sessions PROVE Out(sent[t]) /\ Passive(links[t], sent[t], "slow")
  <2>1. CASE sent[t] = links[t]
    BY <2>1 DEF Passive
  <2>2. CASE sent[t] = Send(links[t], b.size, t \notin b.failing)
    BY <1>1, <2>2, SendOut
  <2> QED BY <2>1, <2>2 DEF Broadcast
<1> QED BY <1>2

\* Closing sends nothing more and receives nothing more.
LEMMA ShutOut ==
  ASSUME NEW l, Core(l), Out(l)
  PROVE  LET m == [l EXCEPT !.open = FALSE]
         IN Out(m) /\ Passive(l, m, "slow") /\ ~IsConnected(m)
<1> DEFINE m == [l EXCEPT !.open = FALSE]
<1>1. m.open = FALSE /\ \A f \in Fields \ {"open"} : m[f] = l[f]
  BY DEF Core, Shape, Fields
<1> HIDE DEF m
<1>2. /\ m.accepted = l.accepted /\ m.queue = l.queue /\ m.queued = l.queued /\ m.wire = l.wire
      /\ m.sends = l.sends
      /\ m.stream = l.stream /\ m.received = l.received /\ m.handled = l.handled
      /\ m.read = l.read /\ m.write = l.write /\ m.recvs = l.recvs /\ m.why = l.why
  BY <1>1 DEF Fields
<1>3. ~IsConnected(m)
  BY <1>1 DEF IsConnected
<1>4. Out(m)
  BY <1>2, <1>3, OutSame
<1> QED BY <1>2, <1>3, <1>4 DEF Passive, m

LEMMA MarkedOut ==
  ASSUME NEW l, Core(l), Out(l), NEW why
  PROVE  LET m == [RequestClose(l, why) EXCEPT !.gone = TRUE, !.disconnects = @ + 1]
         IN Out(m) /\ Passive(l, m, why)
<1> DEFINE r == RequestClose(l, why)
           m == [r EXCEPT !.gone = TRUE, !.disconnects = @ + 1]
<1>0. Core(r) /\ Out(r) /\ Passive(l, r, why)
  BY RequestCloseCore, RequestCloseOut
<1> HIDE DEF r
<1>1. m.gone = TRUE /\ \A f \in Fields \ {"gone", "disconnects"} : m[f] = r[f]
  BY <1>0 DEF Core, Shape, Fields
<1> HIDE DEF m
<1>2. /\ m.accepted = r.accepted /\ m.queue = r.queue /\ m.queued = r.queued /\ m.wire = r.wire
      /\ m.sends = r.sends
      /\ m.stream = r.stream /\ m.received = r.received /\ m.handled = r.handled
      /\ m.read = r.read /\ m.write = r.write /\ m.recvs = r.recvs /\ m.why = r.why
  BY <1>1 DEF Fields
<1>3. ~IsConnected(m)
  BY <1>1 DEF IsConnected
<1>4. Out(m)
  BY <1>0, <1>2, <1>3, OutSame
<1> QED BY <1>0, <1>2, <1>3, <1>4 DEF Passive, r, m

LEMMA CloseOut ==
  ASSUME NEW links, IsLinks(links), NEW s \in Sessions, NEW why, NEW b \in Broadcasts,
         links[s].alive, \A t \in Sessions : Core(links[t]) /\ Out(links[t])
  PROVE  LET left == Close(links, s, why, b)
         IN /\ \A t \in Sessions : Out(left[t])
            /\ Passive(links[s], left[s], why) /\ ~IsConnected(left[s])
            /\ \A t \in Sessions \ {s} : Passive(links[t], left[t], "slow")
<1> DEFINE left == Close(links, s, why, b)
<1>1. CASE links[s].gone
  <2> DEFINE r == RequestClose(links[s], why)
             m == [r EXCEPT !.open = FALSE]
  <2>1. left = [links EXCEPT ![s] = m]
    BY <1>1 DEF Close
  <2>2. Core(r) /\ Out(r) /\ Passive(links[s], r, why)
    BY RequestCloseCore, RequestCloseOut
  <2> HIDE DEF r
  <2>3. Out(m) /\ Passive(r, m, "slow") /\ ~IsConnected(m)
    BY <2>2, ShutOut
  <2> HIDE DEF m, left
  <2>4. Passive(links[s], m, why)
    BY <2>2, <2>3, PassiveTwice
  <2>5. left[s] = m /\ \A t \in Sessions \ {s} : left[t] = links[t]
    BY <2>1 DEF IsLinks
  <2>6. \A t \in Sessions \ {s} : Passive(links[t], left[t], "slow")
    BY <2>5 DEF Passive
  <2>7. \A t \in Sessions : Out(left[t])
    BY <2>3, <2>5
  <2> QED BY <2>3, <2>4, <2>5, <2>6, <2>7 DEF left
<1>2. CASE ~links[s].gone
  <2> DEFINE m == [RequestClose(links[s], why) EXCEPT !.gone = TRUE, !.disconnects = @ + 1]
             base == [links EXCEPT ![s] = m]
             sent == Broadcast(base, b)
             q == [sent[s] EXCEPT !.open = FALSE]
  <2>1. left = [sent EXCEPT ![s].open = FALSE]
    BY <1>2 DEF Close
  <2>2. Core(m) /\ Out(m) /\ Flow(m) /\ Passive(links[s], m, why)
    BY <1>2, Marked, MarkedOut
  <2> HIDE DEF m
  <2>3. IsLinks(base) /\ base[s] = m /\ \A t \in Sessions \ {s} : base[t] = links[t]
    BY DEF IsLinks
  <2> HIDE DEF base
  <2>4. \A t \in Sessions : Core(base[t]) /\ Out(base[t])
    BY <2>2, <2>3
  <2>5. \A t \in Sessions : Out(sent[t]) /\ Passive(base[t], sent[t], "slow")
    BY <2>4, BroadcastOut
  <2>6. IsLinks(sent)
    BY DEF Broadcast, IsLinks
  <2>7. Core(sent[s])
    <3>1. sent[s] = base[s] \/ sent[s] = Send(base[s], b.size, s \notin b.failing)
      BY DEF Broadcast
    <3> QED BY <2>2, <2>3, <3>1, SendCore
  <2> HIDE DEF sent
  <2>8. Out(q) /\ Passive(sent[s], q, "slow") /\ ~IsConnected(q)
    BY <2>5, <2>7, ShutOut
  <2>9. left = [sent EXCEPT ![s] = q]
    BY <2>1
  <2> HIDE DEF q, left
  <2>10. left[s] = q /\ \A t \in Sessions \ {s} : left[t] = sent[t]
    BY <2>6, <2>9 DEF IsLinks
  <2>11. Passive(links[s], sent[s], why)
    BY <2>2, <2>3, <2>5, PassiveTwice
  <2>12. Passive(links[s], left[s], why)
    BY <2>8, <2>10, <2>11, PassiveTwice
  <2>13. \A t \in Sessions \ {s} : Passive(links[t], left[t], "slow")
    BY <2>3, <2>5, <2>10
  <2>14. \A t \in Sessions : Out(left[t])
    BY <2>5, <2>8, <2>10
  <2> QED BY <2>8, <2>10, <2>12, <2>13, <2>14 DEF left
<1> QED BY <1>1, <1>2

-----------------------------------------------------------------------------
(* Steps of what is sent and received.                                        *)

LEMMA OneStepStream ==
  ASSUME StreamInv, NEW s \in Sessions, thread \in {Idle, s}, Out(link'[s]), In(link'[s]),
         IsConnected(link'[s]) /\ thread' # s => Settled(link'[s]),
         \A t \in Sessions \ {s} : Out(link'[t]) /\ Passive(link[t], link'[t], "slow")
  PROVE  StreamInv'
<1>1. Idle \notin Sessions
  BY SessionAssumption DEF SessionAssumption
<1>2. ASSUME NEW t \in Sessions \ {s}
      PROVE  In(link'[t]) /\ (IsConnected(link'[t]) => Settled(link'[t]))
  <2>1. In(link[t]) /\ (IsConnected(link[t]) => Settled(link[t]))
    BY <1>1 DEF StreamInv
  <2>2. In(link'[t])
    BY <2>1, PassiveIn
  <2>3. IsConnected(link'[t]) => IsConnected(link[t])
    BY DEF Passive
  <2> QED BY <2>1, <2>2, <2>3, PassiveSettled
<1> QED BY <1>2 DEF StreamInv

\* The session is closed, after the step did something to it first.
LEMMA CloseStepStream ==
  ASSUME StreamInv, NEW s \in Sessions, thread \in {Idle, s},
         NEW base, IsLinks(base), base[s].alive, \A t \in Sessions : Core(base[t]) /\ Out(base[t]),
         In(base[s]), \A t \in Sessions \ {s} : Passive(link[t], base[t], "slow"),
         NEW why, why # "full", why = "malformed" => ~Legal(base[s]),
         NEW b \in Broadcasts, link' = Close(base, s, why, b)
  PROVE  StreamInv'
<1>1. /\ \A t \in Sessions : Out(link'[t])
      /\ Passive(base[s], link'[s], why) /\ ~IsConnected(link'[s])
      /\ \A t \in Sessions \ {s} : Passive(base[t], link'[t], "slow")
  BY CloseOut
<1>2. \A t \in Sessions \ {s} : Passive(link[t], link'[t], "slow")
  BY <1>1, PassiveTwice
<1>3. In(link'[s])
  BY <1>1 DEF In, Passive, Legal
<1> QED BY <1>1, <1>2, <1>3, OneStepStream

LEMMA SingleStream ==
  ASSUME Inv, StreamInv, NEW s \in Sessions, NEW m, Core(m), Out(m)
  PROVE  LET n == [link EXCEPT ![s] = m]
         IN /\ IsLinks(n) /\ n[s] = m
            /\ \A t \in Sessions : Core(n[t]) /\ Out(n[t])
            /\ \A t \in Sessions \ {s} : Passive(link[t], n[t], "slow")
<1> DEFINE n == [link EXCEPT ![s] = m]
<1>1. IsLinks(n) /\ n[s] = m /\ \A t \in Sessions \ {s} : n[t] = link[t]
  BY DEF Inv, IsLinks
<1>2. \A t \in Sessions : Core(link[t]) /\ Out(link[t])
  BY DEF Inv, StreamInv
<1> QED BY <1>1, <1>2 DEF Passive

\* Of a connected session, the packet that begins with the unread bytes is the
\* one after those handled.
LEMMA HeaderIs ==
  ASSUME NEW l, In(l), IsConnected(l), HasHeader(l)
  PROVE  l.handled + 1 \in 1..Len(l.stream) /\ HeaderSize(l) = l.stream[l.handled + 1]
<1>1. /\ l.stream \in Seq(Nat \ {0}) /\ l.handled \in 0..Len(l.stream) /\ Len(l.stream) \in Nat
      /\ l.received = TotalSize(l.stream, l.handled) + l.write /\ l.received \in Nat
      /\ l.received <= TotalSize(l.stream, Len(l.stream))
      /\ l.read = 0 /\ l.write \in Nat /\ l.stream \in Seq(Nat)
  BY SessionAssumption DEF In, SessionAssumption
<1>2. DataSize(l) = l.write
  BY <1>1 DEF DataSize
<1>3. l.write > 0
  BY <1>1, <1>2, SessionAssumption DEF HasHeader, SessionAssumption
<1>4. TotalSize(l.stream, l.handled) \in Nat /\ TotalSize(l.stream, Len(l.stream)) \in Nat
  <2>1. Len(l.stream) \in 0..Len(l.stream)
    BY <1>1
  <2> QED BY <1>1, <2>1, TotalStep
<1>5. l.handled < Len(l.stream)
  BY <1>1, <1>3, <1>4
<1>6. l.received - DataSize(l) = TotalSize(l.stream, l.handled)
  BY <1>1, <1>2, <1>4
<1>7. ASSUME NEW i \in 1..Len(l.stream), TotalSize(l.stream, i - 1) = TotalSize(l.stream, l.handled)
      PROVE  i = l.handled + 1
  <2>1. i - 1 \in Nat /\ i - 1 <= Len(l.stream) /\ l.handled \in Nat /\ l.handled <= Len(l.stream)
    BY <1>1
  <2>2. i - 1 \in 0..Len(l.stream)
    BY <2>1
  <2>3. TotalSize(l.stream, i - 1) \in Nat
    BY <1>1, <2>2, TotalStep
  <2>4. i - 1 < l.handled => TotalSize(l.stream, i - 1) < TotalSize(l.stream, l.handled)
    BY <1>1, <2>1, TotalGrows
  <2>5. l.handled < i - 1 => TotalSize(l.stream, l.handled) < TotalSize(l.stream, i - 1)
    BY <1>1, <2>1, TotalGrows
  <2>6. ~(i - 1 < l.handled) /\ ~(l.handled < i - 1)
    BY ONLY <1>4, <1>7, <2>3, <2>4, <2>5
  <2> QED BY <2>1, <2>6
<1>8. DOMAIN l.stream = 1..Len(l.stream)
  BY <1>1
<1>9. l.handled + 1 \in 1..Len(l.stream) /\ (l.handled + 1) - 1 = l.handled
  BY <1>1, <1>5
<1>10. Beginning(l) = {l.handled + 1}
  BY <1>6, <1>7, <1>8, <1>9 DEF Beginning
<1> QED BY <1>9, <1>10 DEF HeaderSize

\* The size of a connected session's packet that is whole.
LEMMA CompleteIs ==
  ASSUME NEW l, In(l), IsConnected(l), Complete(l)
  PROVE  /\ l.handled + 1 \in 1..Len(l.stream) /\ HeaderSize(l) = l.stream[l.handled + 1]
         /\ HeaderSize(l) \in Nat /\ HeaderSize(l) <= l.write
<1>1. l.handled + 1 \in 1..Len(l.stream) /\ HeaderSize(l) = l.stream[l.handled + 1]
  BY HeaderIs DEF Complete
<1>2. HeaderSize(l) \in Nat
  BY <1>1 DEF In
<1>3. l.read = 0 /\ l.write \in Nat
  BY SessionAssumption DEF In, SessionAssumption
<1>4. HeaderSize(l) <= DataSize(l)
  BY <1>2, <1>3 DEF Complete, DataSize
<1> QED BY <1>1, <1>2, <1>3, <1>4 DEF DataSize

LEMMA LesserIs ==
  ASSUME NEW m \in Nat, NEW n \in Nat
  PROVE  Lesser(m, n) \in Nat /\ Lesser(m, n) <= m /\ Lesser(m, n) <= n
         /\ (Lesser(m, n) = 0 => m = 0 \/ n = 0)
BY DEF Lesser

\* A full buffer holds a whole packet, or garbage.
LEMMA RoomLeft ==
  ASSUME NEW l, In(l), IsConnected(l), ~Malformed(l), ~Complete(l)
  PROVE  RecvLength(l) \in Nat /\ RecvLength(l) + l.write <= MaxPacket /\ RecvLength(l) # 0
<1>1. /\ l.read = 0 /\ l.write \in Nat /\ l.write <= MaxPacket /\ MaxPacket \in Nat
      /\ Header \in Nat /\ Header <= MaxPacket /\ RecvChunk \in Nat /\ RecvChunk # 0
  BY SessionAssumption DEF In, SessionAssumption
<1>2. Writable(l) \in Nat /\ Writable(l) + l.write = MaxPacket /\ DataSize(l) = l.write
  BY <1>1 DEF Writable, DataSize
<1>3. RecvLength(l) \in Nat /\ RecvLength(l) <= Writable(l) /\ (RecvLength(l) = 0 => Writable(l) = 0)
  BY <1>1, <1>2, LesserIs DEF RecvLength
<1>4. ASSUME Writable(l) = 0 PROVE FALSE
  <2>1. DataSize(l) = MaxPacket
    BY <1>1, <1>2, <1>4
  <2>2. HasHeader(l)
    BY <1>1, <2>1 DEF HasHeader
  <2>3. HeaderSize(l) \in Header..MaxPacket
    BY <2>2 DEF Malformed
  <2> QED BY <1>1, <2>1, <2>2, <2>3 DEF Complete
<1> QED BY <1>1, <1>2, <1>3, <1>4

LEMMA NobodyStream ==
  ASSUME NEW stream \in Seq(Nat \ {0})
  PROVE  Out(Nobody) /\ In(Nobody) /\ Out(Fresh(stream)) /\ In(Fresh(stream))
         /\ Settled(Fresh(stream)) /\ Fresh(stream).write = 0
<1>1. ASSUME NEW l, l.accepted = <<>>, l.queue = <<>>, l.queued = 0, l.wire = <<>>
      PROVE  Out(l)
  <2>1. Len(<<>>) = 0 /\ <<>> \in Seq(Nat) /\ <<>> \in Seq(Nat \ {0}) /\ <<>> \in Seq(Entry)
    OBVIOUS
  <2>2. Done(l) = 0 /\ Counted(l) = 0
    BY <1>1, <2>1 DEF Done, Counted
  <2>3. TotalSize(<<>>, 0) = 0 /\ PacketBytes(<<>>, 0) = <<>>
    BY <2>1, TotalStep, BytesStep
  <2>4. QueueIs(l)
    BY <1>1, <2>1, <2>2 DEF QueueIs
  <2>5. QueuedIs(l)
    BY <1>1, <2>1, <2>2, <2>3, SessionAssumption DEF QueuedIs, SessionAssumption
  <2>6. Piece(0 + 1, 0) = <<>> /\ <<>> \o <<>> = <<>>
    BY DEF Piece
  <2>7. WireIs(l, 0)
    BY <1>1, <2>2, <2>3, <2>6 DEF WireIs
  <2> QED BY <2>4, <2>5, <2>7 DEF Out
<1>2. ASSUME NEW l, NEW str \in Seq(Nat \ {0}), l.stream = str, l.handled = 0, l.received = 0,
             l.read = 0, l.write = 0, l.recvs = <<>>, l.why = "none"
      PROVE  In(l) /\ Settled(l)
  <2>1. Len(str) \in Nat /\ 0 \in 0..Len(str) /\ Len(str) \in 0..Len(str) /\ str \in Seq(Nat)
    OBVIOUS
  <2>2. TotalSize(str, 0) = 0 /\ TotalSize(str, Len(str)) \in Nat
    BY <2>1, TotalStep
  <2>3. Header > 0 /\ Header \in Nat /\ MaxPacket \in Nat
    BY SessionAssumption DEF SessionAssumption
  <2>4. \A n : <<>> # <<n>>
    OBVIOUS
  <2>5. In(l)
    BY <1>2, <2>1, <2>2, <2>3, <2>4 DEF In
  <2>6. ~HasHeader(l)
    BY <1>2, <2>3 DEF HasHeader, DataSize
  <2> QED BY <2>5, <2>6 DEF Settled, Complete, Malformed
<1>3. /\ Nobody.accepted = <<>> /\ Nobody.queue = <<>> /\ Nobody.queued = 0 /\ Nobody.wire = <<>>
      /\ Nobody.stream = <<>> /\ Nobody.handled = 0 /\ Nobody.received = 0 /\ Nobody.read = 0
      /\ Nobody.write = 0 /\ Nobody.recvs = <<>> /\ Nobody.why = "none" /\ Shape(Nobody)
  BY DEF Nobody, Shape, Fields
<1>4. <<>> \in Seq(Nat \ {0})
  OBVIOUS
<1>5. Out(Nobody) /\ In(Nobody)
  BY <1>1, <1>2, <1>3, <1>4
<1> DEFINE m == Fresh(stream)
<1>6. m.stream = stream /\ \A f \in Fields \ {"alive", "open", "stream"} : m[f] = Nobody[f]
  BY <1>3 DEF Fresh, Shape, Fields
<1> HIDE DEF m
<1>7. /\ m.accepted = <<>> /\ m.queue = <<>> /\ m.queued = 0 /\ m.wire = <<>>
      /\ m.handled = 0 /\ m.received = 0 /\ m.read = 0
      /\ m.write = 0 /\ m.recvs = <<>> /\ m.why = "none"
  BY <1>3, <1>6 DEF Fields
<1>8. Out(m) /\ In(m) /\ Settled(m)
  BY <1>1, <1>2, <1>6, <1>7
<1> QED BY <1>5, <1>7, <1>8 DEF m

\* A WSARecv is posted for what the buffer has room for.
LEMMA PostRecvStream ==
  ASSUME NEW l, Core(l), Out(l), In(l), l.recvs = <<>>,
         RecvLength(l) \in Nat, RecvLength(l) + l.write <= MaxPacket
  PROVE  LET m == PostRecv(l)
         IN Out(m) /\ In(m) /\ (Settled(l) => Settled(m))
            /\ (IsConnected(m) <=> IsConnected(l))
<1> DEFINE m == PostRecv(l)
           n == RecvLength(l)
<1>1. m.recvs = Append(l.recvs, n) /\ \A f \in Fields \ {"recvPending", "recvs"} : m[f] = l[f]
  BY DEF Core, Shape, Fields, PostRecv
<1> HIDE DEF m, n
<1>2. /\ m.accepted = l.accepted /\ m.queue = l.queue /\ m.queued = l.queued /\ m.wire = l.wire
      /\ m.sends = l.sends
      /\ m.stream = l.stream /\ m.received = l.received /\ m.handled = l.handled
      /\ m.read = l.read /\ m.write = l.write /\ m.why = l.why
      /\ m.open = l.open /\ m.closing = l.closing /\ m.gone = l.gone
  BY <1>1 DEF Fields
<1>3. m.recvs = <<n>>
  BY <1>1
<1>4. IsConnected(m) <=> IsConnected(l)
  BY <1>2 DEF IsConnected
<1>5. Out(m)
  BY <1>2, <1>4, OutSame
<1>6. \A k : m.recvs = <<k>> => k = n
  BY <1>3
<1>7. In(m)
  BY <1>2, <1>4, <1>6 DEF In, Legal, n
<1>8. HeaderSize(m) = HeaderSize(l) /\ DataSize(m) = DataSize(l)
  BY <1>2 DEF HeaderSize, Beginning, DataSize
<1>9. Settled(l) => Settled(m)
  BY <1>8 DEF Settled, Complete, Malformed, HasHeader
<1> QED BY <1>4, <1>5, <1>7, <1>9 DEF m

LEMMA AcceptStream ==
  ASSUME Inv, StreamInv, NEW s \in Sessions, NEW stream \in Streams[s], Accept(s, stream)
  PROVE  StreamInv'
<1> DEFINE f == Fresh(stream)
           m == PostRecv(f)
<1>1. thread = Idle /\ link' = [link EXCEPT ![s] = m]
  BY DEF Accept
<1>2. stream \in Seq(Nat \ {0})
  BY SessionAssumption DEF SessionAssumption
<1>3. /\ Core(f) /\ f.recvs = <<>> /\ f.alive /\ Out(f) /\ In(f) /\ Settled(f) /\ f.write = 0
  BY <1>2, FreshCore, NobodyStream
<1> HIDE DEF f
<1>4. MaxPacket \in Nat /\ RecvChunk \in Nat
  BY SessionAssumption DEF SessionAssumption
<1>5. RecvLength(f) \in Nat /\ RecvLength(f) + f.write <= MaxPacket
  <2>1. Writable(f) = MaxPacket
    BY <1>3, <1>4 DEF Writable
  <2>2. RecvLength(f) \in Nat /\ RecvLength(f) <= MaxPacket
    BY <1>4, <2>1, LesserIs DEF RecvLength
  <2> QED BY <1>3, <1>4, <2>2
<1>6. Core(m) /\ Out(m) /\ In(m) /\ Settled(m)
  BY <1>3, <1>5, PostRecvCore, PostRecvStream
<1> HIDE DEF m
<1>7. /\ link'[s] = m /\ \A t \in Sessions : Out(link'[t])
      /\ \A t \in Sessions \ {s} : Passive(link[t], link'[t], "slow")
  BY <1>1, <1>6, SingleStream
<1> QED BY <1>1, <1>6, <1>7, OneStepStream

LEMMA RecvCompletedStream ==
  ASSUME Inv, StreamInv, NEW s \in Sessions, RecvCompleted(s)
  PROVE  StreamInv'
<1> DEFINE l == [link[s] EXCEPT !.recvs = Tail(@), !.recvPending = FALSE]
           links == [link EXCEPT ![s] = l]
           total == TotalSize(link[s].stream, Len(link[s].stream))
<1>1. /\ thread = Idle /\ link[s].recvs # <<>>
      /\ Core(link[s]) /\ Out(link[s]) /\ In(link[s]) /\ link[s].alive
      /\ IsConnected(link[s]) => Settled(link[s])
  <2>1. thread = Idle /\ link[s].recvs # <<>> /\ Idle \notin Sessions
    BY SessionAssumption DEF RecvCompleted, SessionAssumption
  <2>2. Core(link[s]) /\ link[s].alive
    BY <2>1, Alive
  <2> QED BY <2>1, <2>2 DEF StreamInv
<1>2. PICK n : link[s].recvs = <<n>>
  BY <1>1 DEF Core, Receives
<1>3. PICK bytes \in 0..Lesser(n, total - link[s].received) :
        \/ ~IsConnected(l) /\ link' = links
        \/ /\ IsConnected(l) /\ (bytes = 0 \/ bytes > Writable(l))
           /\ \E b \in Broadcasts :
                link' = Close(links, s, IF bytes = 0 THEN "peer" ELSE "full", b)
        \/ /\ IsConnected(l) /\ bytes \in 1..Writable(l) /\ thread' = s
           /\ link' = [links EXCEPT ![s] = Receive(l, bytes)]
  <2>1. Head(link[s].recvs) = n
    BY <1>2
  <2> QED BY <2>1 DEF RecvCompleted
<1>4. /\ Shape(l) /\ l.recvPending = FALSE /\ l.recvs = Tail(link[s].recvs)
      /\ \A f \in Fields \ {"recvPending", "recvs"} : l[f] = link[s][f]
  BY <1>1 DEF Core, Shape, Fields
<1> HIDE DEF l
<1>5. /\ l.alive = link[s].alive /\ l.open = link[s].open /\ l.gone = link[s].gone
      /\ l.closing = link[s].closing /\ l.sendPending = link[s].sendPending
      /\ l.sends = link[s].sends /\ l.queue = link[s].queue
      /\ l.disconnects = link[s].disconnects
      /\ l.accepted = link[s].accepted /\ l.queued = link[s].queued /\ l.wire = link[s].wire
      /\ l.stream = link[s].stream /\ l.received = link[s].received
      /\ l.handled = link[s].handled
      /\ l.read = link[s].read /\ l.write = link[s].write /\ l.why = link[s].why
  BY <1>4 DEF Fields
<1>6. l.recvs = <<>>
  BY <1>2, <1>4
<1>7. Core(l)
  <2>1. Receives(l) /\ Sends(l)
    BY <1>1, <1>4, <1>5, <1>6 DEF Receives, Core, Sends
  <2>2. Flags(l) /\ Life(l)
    BY <1>1, <1>4, <1>5, <1>6 DEF Core, Flags, Life
  <2> QED BY <1>4, <2>1, <2>2 DEF Core
<1>8. IsConnected(l) <=> IsConnected(link[s])
  BY <1>5 DEF IsConnected
<1>9. Out(l)
  BY <1>1, <1>5, <1>8, OutSame
<1>10. In(l)
  <2>1. \A k : l.recvs # <<k>>
    BY <1>6
  <2> QED BY <1>1, <1>5, <1>8, <2>1 DEF In, Legal
<1>11. IsConnected(l) => Settled(l)
  <2>1. HeaderSize(l) = HeaderSize(link[s]) /\ DataSize(l) = DataSize(link[s])
    BY <1>5 DEF HeaderSize, Beginning, DataSize
  <2> QED BY <1>1, <1>8, <2>1 DEF Settled, Complete, Malformed, HasHeader
<1>12. /\ IsLinks(links) /\ links[s] = l
       /\ \A t \in Sessions : Core(links[t]) /\ Out(links[t])
       /\ \A t \in Sessions \ {s} : Passive(link[t], links[t], "slow")
  BY <1>7, <1>9, SingleStream
<1> HIDE DEF links
<1>13. /\ total \in Nat /\ l.received \in Nat /\ l.received <= total
       /\ total = TotalSize(l.stream, Len(l.stream))
  <2>1. link[s].stream \in Seq(Nat) /\ Len(link[s].stream) \in 0..Len(link[s].stream)
    BY <1>1 DEF In
  <2> QED BY <1>1, <1>5, <2>1, TotalStep DEF In
<1> HIDE DEF total
<1>14. IsConnected(l) => n \in Nat /\ n + l.write <= MaxPacket
  BY <1>1, <1>2, <1>5, <1>8 DEF In
<1>15. l.write \in Nat /\ l.write <= MaxPacket /\ MaxPacket \in Nat
  BY <1>10, SessionAssumption DEF In, SessionAssumption
<1>16. IsConnected(l) => /\ bytes \in Nat /\ bytes <= n /\ bytes <= total - l.received
                         /\ bytes + l.write <= MaxPacket /\ bytes <= Writable(l)
  <2> SUFFICES ASSUME IsConnected(l)
               PROVE  /\ bytes \in Nat /\ bytes <= n /\ bytes <= total - l.received
                      /\ bytes + l.write <= MaxPacket /\ bytes <= Writable(l)
    OBVIOUS
  <2>1. total - link[s].received \in Nat /\ n \in Nat
    BY <1>5, <1>13, <1>14
  <2>2. /\ Lesser(n, total - link[s].received) \in Nat /\ Lesser(n, total - link[s].received) <= n
        /\ Lesser(n, total - link[s].received) <= total - link[s].received
    BY <2>1, LesserIs
  <2>3. bytes \in Nat /\ bytes <= n /\ bytes <= total - l.received
    BY <1>5, <2>1, <2>2
  <2> QED BY <1>14, <1>15, <2>1, <2>3 DEF Writable
<1>17. CASE ~IsConnected(l) /\ link' = links
  BY <1>1, <1>9, <1>10, <1>12, <1>17, OneStepStream
<1>18. CASE /\ IsConnected(l) /\ (bytes = 0 \/ bytes > Writable(l))
            /\ \E b \in Broadcasts :
                 link' = Close(links, s, IF bytes = 0 THEN "peer" ELSE "full", b)
  <2>1. bytes = 0
    BY <1>15, <1>16, <1>18 DEF Writable
  <2>2. PICK b \in Broadcasts : link' = Close(links, s, "peer", b)
    BY <1>18, <2>1
  <2>3. links[s].alive /\ In(links[s])
    BY <1>1, <1>5, <1>10, <1>12
  <2> QED BY <1>1, <1>12, <2>2, <2>3, CloseStepStream
<1>19. CASE /\ IsConnected(l) /\ bytes \in 1..Writable(l) /\ thread' = s
            /\ link' = [links EXCEPT ![s] = Receive(l, bytes)]
  <2> DEFINE m == Receive(l, bytes)
  <2>1. /\ m.write = l.write + bytes /\ m.received = l.received + bytes
        /\ \A f \in Fields \ {"write", "received"} : m[f] = l[f]
    BY <1>4 DEF Shape, Fields, Receive
  <2> HIDE DEF m
  <2>2. /\ m.accepted = l.accepted /\ m.queue = l.queue /\ m.queued = l.queued /\ m.wire = l.wire
        /\ m.sends = l.sends
        /\ m.stream = l.stream /\ m.handled = l.handled
        /\ m.read = l.read /\ m.why = l.why /\ m.recvs = l.recvs
        /\ m.open = l.open /\ m.closing = l.closing /\ m.gone = l.gone
    BY <2>1 DEF Fields
  <2>3. IsConnected(m)
    BY <1>19, <2>2 DEF IsConnected
  <2>4. Out(m)
    BY <1>9, <1>19, <2>2, OutSame
  <2>5. /\ l.received = TotalSize(l.stream, l.handled) + l.write
        /\ l.stream \in Seq(Nat) /\ l.handled \in 0..Len(l.stream)
    BY <1>10, <1>19 DEF In
  <2>6. TotalSize(l.stream, l.handled) \in Nat
    BY <2>5, TotalStep
  <2>7. /\ m.write \in 0..MaxPacket /\ m.received \in Nat /\ m.received <= total
        /\ m.received = TotalSize(l.stream, l.handled) + m.write
    BY <1>13, <1>15, <1>16, <1>19, <2>1, <2>5, <2>6
  <2>8. \A k : m.recvs # <<k>>
    BY <1>6, <2>2
  <2>9. In(m)
    BY <1>10, <1>13, <1>19, <2>2, <2>3, <2>7, <2>8 DEF In, Legal
  <2>10. link'[s] = m /\ \A t \in Sessions \ {s} : link'[t] = links[t]
    BY <1>12, <1>19 DEF IsLinks, m
  <2> QED BY <1>1, <1>12, <1>19, <2>4, <2>9, <2>10, OneStepStream
<1> QED BY <1>3, <1>17, <1>18, <1>19

LEMMA HandlePacketStream ==
  ASSUME Inv, StreamInv, NEW s \in Sessions, HandlePacket(s)
  PROVE  StreamInv'
<1> DEFINE l == [link[s] EXCEPT !.handled = @ + 1]
           links == [link EXCEPT ![s] = l]
           size == HeaderSize(link[s])
<1>1. PICK b \in Broadcasts :
        /\ thread = s /\ IsConnected(link[s]) /\ Complete(link[s])
        /\ \/ /\ link' = [Broadcast(links, b) EXCEPT ![s] = Consume(@, size)]
              /\ thread' = s
           \/ \E c \in Broadcasts : link' = Close(Broadcast(links, b), s, "handler", c)
  BY DEF HandlePacket
<1>2. /\ Core(link[s]) /\ Out(link[s]) /\ In(link[s]) /\ link[s].alive /\ link[s].recvs = <<>>
  BY <1>1, Alive DEF StreamInv
<1>3. /\ Shape(l) /\ l.handled = link[s].handled + 1
      /\ \A f \in Fields \ {"handled"} : l[f] = link[s][f]
  BY <1>2 DEF Core, Shape, Fields
<1> HIDE DEF l
<1>4. /\ l.accepted = link[s].accepted /\ l.queued = link[s].queued /\ l.wire = link[s].wire
      /\ l.sends = link[s].sends /\ l.queue = link[s].queue
      /\ l.stream = link[s].stream /\ l.received = link[s].received
      /\ l.read = link[s].read /\ l.write = link[s].write /\ l.why = link[s].why
      /\ l.recvs = link[s].recvs /\ l.alive = link[s].alive
      /\ l.open = link[s].open /\ l.closing = link[s].closing /\ l.gone = link[s].gone
  BY <1>3 DEF Fields
<1>5. Core(l) /\ IsConnected(l)
  <2>1. \A f \in Fields \ Counts : l[f] = link[s][f]
    BY <1>3 DEF Counts
  <2> QED BY <1>1, <1>2, <1>3, <2>1, CountsOnly
<1>6. Out(l)
  BY <1>1, <1>2, <1>4, OutSame
<1>7. /\ IsLinks(links) /\ links[s] = l
      /\ \A t \in Sessions : Core(links[t]) /\ Out(links[t])
      /\ \A t \in Sessions \ {s} : Passive(link[t], links[t], "slow")
  BY <1>5, <1>6, SingleStream
<1> HIDE DEF links
<1>8. /\ link[s].handled + 1 \in 1..Len(link[s].stream)
      /\ size = link[s].stream[link[s].handled + 1] /\ size \in Nat /\ size <= link[s].write
  BY <1>1, <1>2, CompleteIs
<1> HIDE DEF size
<1>9. /\ link[s].received = TotalSize(link[s].stream, link[s].handled) + link[s].write
      /\ link[s].stream \in Seq(Nat) /\ link[s].handled \in 0..Len(link[s].stream)
      /\ link[s].write \in Nat /\ link[s].write <= MaxPacket /\ link[s].read = 0
      /\ Len(link[s].stream) \in Nat
  BY <1>1, <1>2, SessionAssumption DEF In, SessionAssumption
<1>10. (link[s].handled + 1) - 1 = link[s].handled
  BY <1>9
<1>11. TotalSize(l.stream, l.handled) = TotalSize(link[s].stream, link[s].handled) + size
  BY <1>3, <1>4, <1>8, <1>9, <1>10, TotalStep
<1>12. TotalSize(link[s].stream, link[s].handled) \in Nat
  BY <1>9, TotalStep
\* The packet is handled; it may still be in the buffer, as the connection is closed.
<1>13. ASSUME NEW m, m.stream = l.stream, m.handled = l.handled, m.received = l.received,
              m.read = 0, m.write = l.write - size \/ (m.write = l.write /\ ~IsConnected(m)),
              m.recvs = l.recvs, m.why \notin {"full", "malformed"}
       PROVE  In(m)
  <2>1. m.handled \in 0..Len(m.stream)
    BY <1>3, <1>4, <1>8, <1>9, <1>13
  <2>2. m.write \in 0..MaxPacket
    <3>1. MaxPacket \in Nat
      BY SessionAssumption DEF SessionAssumption
    <3>2. m.write = link[s].write - size \/ m.write = link[s].write
      BY <1>4, <1>13
    <3>3. /\ size \in Nat /\ size <= link[s].write
          /\ link[s].write \in Nat /\ link[s].write <= MaxPacket
      BY <1>8, <1>9
    <3> QED BY ONLY <3>1, <3>2, <3>3
  <2>3. IsConnected(m) => m.received = TotalSize(m.stream, m.handled) + m.write
    <3> SUFFICES ASSUME IsConnected(m)
                 PROVE  m.received = TotalSize(m.stream, m.handled) + m.write
      OBVIOUS
    <3>1. m.write = link[s].write - size /\ m.received = link[s].received
      BY <1>4, <1>13
    <3>2. TotalSize(m.stream, m.handled) = TotalSize(link[s].stream, link[s].handled) + size
      BY <1>11, <1>13
    <3> QED BY <1>8, <1>9, <1>12, <3>1, <3>2
  <2>4. \A k : m.recvs # <<k>>
    BY <1>2, <1>4, <1>13
  <2> QED BY <1>2, <1>4, <1>13, <2>1, <2>2, <2>3, <2>4 DEF In
<1>14. link[s].why \notin {"full", "malformed"}
  BY <1>1, <1>2 DEF In
<1>15. ASSUME NEW c \in Broadcasts, link' = Close(Broadcast(links, b), s, "handler", c)
       PROVE  StreamInv'
  <2> DEFINE sent == Broadcast(links, b)
  <2>1. link' = Close(sent, s, "handler", c)
    BY <1>15
  <2>2. \A t \in Sessions : Out(sent[t]) /\ Passive(links[t], sent[t], "slow")
    BY <1>7, BroadcastOut
  <2>3. IsLinks(sent)
    BY DEF Broadcast, IsLinks
  <2>4. ASSUME NEW t \in Sessions PROVE Core(sent[t])
    <3>1. sent[t] = links[t] \/ sent[t] = Send(links[t], b.size, t \notin b.failing)
      BY <1>7 DEF Broadcast
    <3>2. Flow(links[t])
      <4>1. CASE t = s
        BY <1>1, <1>4, <1>5, <1>7, <4>1 DEF Inv, Flow
      <4>2. CASE t # s
        BY <1>7, <4>2 DEF Inv, links
      <4> QED BY <4>1, <4>2
    <3> QED BY <1>7, <3>1, <3>2, SendCore
  <2>5. sent[s].alive
    <3>1. sent[s] = l \/ sent[s] = Send(l, b.size, s \notin b.failing)
      BY <1>7 DEF Broadcast
    <3>2. Flow(l)
      BY <1>1, <1>4, <1>5 DEF Inv, Flow
    <3>3. Keeps(l, Send(l, b.size, s \notin b.failing))
      BY <1>5, <3>2, SendCore
    <3>4. l.alive
      BY <1>2, <1>4
    <3> HIDE DEF sent
    <3> QED BY <3>1, <3>3, <3>4 DEF Keeps
  <2> HIDE DEF sent
  <2>6. /\ \A t \in Sessions : Out(link'[t])
        /\ Passive(sent[s], link'[s], "handler") /\ ~IsConnected(link'[s])
        /\ \A t \in Sessions \ {s} : Passive(sent[t], link'[t], "slow")
    BY <2>1, <2>2, <2>3, <2>4, <2>5, CloseOut
  <2>7. In(link'[s])
    BY <1>4, <1>7, <1>9, <1>13, <1>14, <2>2, <2>6 DEF Passive
  <2>8. \A t \in Sessions \ {s} : Passive(link[t], link'[t], "slow")
    BY <1>7, <2>2, <2>6, PassiveTwice
  <2> QED BY <1>1, <2>6, <2>7, <2>8, OneStepStream
<1>16. CASE /\ link' = [Broadcast(links, b) EXCEPT ![s] = Consume(@, size)]
            /\ thread' = s
  <2> DEFINE sent == Broadcast(links, b)
             m == Consume(sent[s], size)
  <2>1. link' = [sent EXCEPT ![s] = m]
    BY <1>16
  <2>2. \A t \in Sessions : Out(sent[t]) /\ Passive(links[t], sent[t], "slow")
    BY <1>7, BroadcastOut
  <2>3. IsLinks(sent)
    BY DEF Broadcast, IsLinks
  <2>4. Core(sent[s])
    <3>1. sent[s] = l \/ sent[s] = Send(l, b.size, s \notin b.failing)
      BY <1>7 DEF Broadcast
    <3>2. Flow(l)
      BY <1>1, <1>4, <1>5 DEF Inv, Flow
    <3> QED BY <1>5, <3>1, <3>2, SendCore
  <2> HIDE DEF sent
  <2>5. /\ m.read = 0 /\ m.write = sent[s].write - (sent[s].read + size)
        /\ \A f \in Fields \ {"read", "write"} : m[f] = sent[s][f]
    BY <2>4 DEF Core, Shape, Fields, Consume
  <2> HIDE DEF m
  <2>6. /\ m.accepted = sent[s].accepted /\ m.queue = sent[s].queue /\ m.queued = sent[s].queued
        /\ m.wire = sent[s].wire /\ m.sends = sent[s].sends
        /\ m.stream = sent[s].stream /\ m.handled = sent[s].handled
        /\ m.received = sent[s].received
        /\ m.why = sent[s].why /\ m.recvs = sent[s].recvs
        /\ m.open = sent[s].open /\ m.closing = sent[s].closing /\ m.gone = sent[s].gone
    BY <2>5 DEF Fields
  <2>7. Out(m)
    <3>1. IsConnected(m) => IsConnected(sent[s])
      BY <2>6 DEF IsConnected
    <3> QED BY <2>2, <2>6, <3>1, OutSame
  <2>8. /\ sent[s].stream = l.stream /\ sent[s].received = l.received /\ sent[s].handled = l.handled
        /\ sent[s].read = l.read /\ sent[s].write = l.write /\ sent[s].recvs = l.recvs
        /\ sent[s].why \in {l.why, "slow", "kernel"}
    BY <1>7, <2>2 DEF Passive
  <2>9. In(m)
    <3>1. m.write = l.write - size
      BY <1>4, <1>8, <1>9, <2>5, <2>8
    <3> QED BY <1>4, <1>13, <1>14, <2>5, <2>6, <2>8, <3>1
  <2>10. link'[s] = m /\ \A t \in Sessions \ {s} : link'[t] = sent[t]
    BY <2>1, <2>3 DEF IsLinks
  <2>11. \A t \in Sessions \ {s} : Out(link'[t]) /\ Passive(link[t], link'[t], "slow")
    BY <1>7, <2>2, <2>10, PassiveTwice
  <2> QED BY <1>1, <1>16, <2>7, <2>9, <2>10, <2>11, OneStepStream
<1> QED BY <1>1, <1>15, <1>16

LEMMA StopProcessingStream ==
  ASSUME Inv, StreamInv, NEW s \in Sessions, StopProcessing(s)
  PROVE  StreamInv'
<1>1. PICK b \in Broadcasts :
        /\ thread = s /\ (~IsConnected(link[s]) \/ Malformed(link[s]))
        /\ link' = Close(link, s, IF IsConnected(link[s]) THEN "malformed" ELSE "handler", b)
  BY DEF StopProcessing
<1>2. /\ Out(link[s]) /\ In(link[s]) /\ link[s].alive
  BY <1>1, Alive DEF StreamInv
<1>3. /\ IsLinks(link) /\ \A t \in Sessions : Core(link[t]) /\ Out(link[t])
      /\ \A t \in Sessions \ {s} : Passive(link[t], link[t], "slow")
  BY DEF Inv, StreamInv, Passive
<1>4. IsConnected(link[s]) => ~Legal(link[s])
  <2> SUFFICES ASSUME IsConnected(link[s]) PROVE ~Legal(link[s])
    OBVIOUS
  <2>1. HasHeader(link[s]) /\ HeaderSize(link[s]) \notin Header..MaxPacket
    BY <1>1 DEF Malformed
  <2>2. HeaderSize(link[s]) = link[s].stream[link[s].handled + 1]
    BY <1>2, <2>1, HeaderIs
  <2> QED BY <2>1, <2>2 DEF Legal
<1>5. PICK why : /\ link' = Close(link, s, why, b) /\ why # "full"
                 /\ why = "malformed" => ~Legal(link[s])
  BY <1>1, <1>4
<1> QED BY <1>1, <1>2, <1>3, <1>5, CloseStepStream

LEMMA ReceiveMoreStream ==
  ASSUME Inv, StreamInv, NEW s \in Sessions, ReceiveMore(s)
  PROVE  StreamInv'
<1>1. /\ thread = s /\ IsConnected(link[s]) /\ ~Malformed(link[s]) /\ ~Complete(link[s])
      /\ \/ link' = [link EXCEPT ![s] = PostRecv(link[s])]
         \/ \E b \in Broadcasts :
              link' = Close(link, s, IF RecvLength(link[s]) = 0 THEN "full" ELSE "kernel", b)
  BY DEF ReceiveMore
<1>2. /\ Core(link[s]) /\ Out(link[s]) /\ In(link[s]) /\ link[s].alive /\ link[s].recvs = <<>>
  BY <1>1, Alive DEF StreamInv
<1>3. /\ RecvLength(link[s]) \in Nat /\ RecvLength(link[s]) + link[s].write <= MaxPacket
      /\ RecvLength(link[s]) # 0
  BY <1>1, <1>2, RoomLeft
<1>4. CASE link' = [link EXCEPT ![s] = PostRecv(link[s])]
  <2> DEFINE m == PostRecv(link[s])
  <2>1. Core(m) /\ Out(m) /\ In(m) /\ (Settled(link[s]) => Settled(m))
    BY <1>2, <1>3, PostRecvCore, PostRecvStream
  <2> HIDE DEF m
  <2>2. /\ link'[s] = m /\ \A t \in Sessions : Out(link'[t])
        /\ \A t \in Sessions \ {s} : Passive(link[t], link'[t], "slow")
    BY <1>4, <2>1, SingleStream DEF m
  <2>3. Settled(m)
    BY <1>1, <2>1 DEF Settled
  <2> QED BY <1>1, <2>1, <2>2, <2>3, OneStepStream
<1>5. CASE \E b \in Broadcasts :
             link' = Close(link, s, IF RecvLength(link[s]) = 0 THEN "full" ELSE "kernel", b)
  <2>1. PICK b \in Broadcasts : link' = Close(link, s, "kernel", b)
    BY <1>3, <1>5
  <2>2. /\ IsLinks(link) /\ \A t \in Sessions : Core(link[t]) /\ Out(link[t])
        /\ \A t \in Sessions \ {s} : Passive(link[t], link[t], "slow")
    BY DEF Inv, StreamInv, Passive
  <2> QED BY <1>1, <1>2, <2>1, <2>2, CloseStepStream
<1> QED BY <1>1, <1>4, <1>5

\* The front packet, of whose bytes a WSASend took what is not yet counted.
LEMMA FrontIs ==
  ASSUME NEW l, Out(l), l.queue # <<>>
  PROVE  /\ l.queue \in Seq(Entry) /\ Len(l.queue) \in Nat \ {0} /\ Head(l.queue) = l.queue[1]
         /\ l.accepted \in Seq(Nat) /\ Done(l) \in Nat /\ Done(l) + Len(l.queue) = Len(l.accepted)
         /\ Done(l) + 1 \in 1..Len(l.accepted) /\ (Done(l) + 1) - 1 = Done(l)
         /\ Len(l.accepted) \in Nat
         /\ l.queue[1].packet = Done(l) + 1 /\ l.queue[1].size = l.accepted[Done(l) + 1]
         /\ l.queue[1].sent = Counted(l) /\ Counted(l) \in Nat /\ l.accepted[Done(l) + 1] \in Nat
         /\ Counted(l) < l.accepted[Done(l) + 1]
<1>1. /\ l.queue \in Seq(Entry) /\ l.accepted \in Seq(Nat \ {0}) /\ Done(l) \in Nat
      /\ Counted(l) < l.accepted[Done(l) + 1]
      /\ \A j \in 1..Len(l.queue) :
           l.queue[j].packet = Done(l) + j /\ l.queue[j].size = l.accepted[Done(l) + j]
  BY DEF Out, QueueIs
<1>2. Len(l.queue) \in Nat \ {0} /\ Head(l.queue) = l.queue[1] /\ l.queue[1] \in Entry
  BY <1>1
<1>3. Len(l.accepted) \in Nat /\ Done(l) + Len(l.queue) = Len(l.accepted)
  BY <1>1, <1>2 DEF Done
<1>4. l.accepted \in Seq(Nat)
  BY <1>1
<1>5. Done(l) + 1 \in 1..Len(l.accepted) /\ (Done(l) + 1) - 1 = Done(l)
  BY <1>1, <1>2, <1>3
<1>6. l.accepted[Done(l) + 1] \in Nat
  BY <1>4, <1>5
<1>7. 1 \in 1..Len(l.queue) /\ l.queue[1].sent = Counted(l) /\ Counted(l) \in Nat
  BY <1>2 DEF Counted, Entry
<1> QED BY <1>1, <1>2, <1>3, <1>4, <1>5, <1>6, <1>7

WireAt(l, k) == l.wire = PacketBytes(l.accepted, Done(l)) \o Piece(Done(l) + 1, k)

\* The kernel took some bytes of the packet, and OnSend has not counted them.
Uncounted(l, m, bytes) ==
  /\ m.accepted = l.accepted /\ m.queue = l.queue /\ m.queued = l.queued
  /\ m.sends = <<>>
  /\ m.wire = l.wire \o More(Head(l.queue).packet, Head(l.queue).sent, bytes)

LEMMA UncountedIs ==
  ASSUME NEW l, Out(l), l.queue # <<>>, l.sends # <<>>, NEW bytes \in Nat,
         Counted(l) + bytes <= l.accepted[Done(l) + 1], NEW m, Uncounted(l, m, bytes)
  PROVE  /\ QueueIs(m) /\ QueuedIs(m) /\ WireAt(m, Counted(m) + bytes)
         /\ Done(m) = Done(l) /\ Counted(m) = Counted(l)
         /\ ~IsConnected(m) \/ bytes = 0 => Out(m)
<1>1. Done(m) = Done(l) /\ Counted(m) = Counted(l)
  BY DEF Done, Counted, Uncounted
<1>2. QueueIs(m) /\ QueuedIs(m)
  BY <1>1 DEF Out, QueueIs, QueuedIs, Uncounted
<1>3. WireAt(l, Counted(l))
  BY DEF Out, WireIs, WireAt
<1>4. /\ Head(l.queue).packet = Done(l) + 1 /\ Head(l.queue).sent = Counted(l)
      /\ Counted(l) \in Nat /\ Done(l) \in 0..Len(l.accepted) /\ Done(l) + 1 \in Nat
      /\ l.accepted \in Seq(Nat)
  <2>1. /\ Done(l) \in Nat /\ Done(l) + 1 \in 1..Len(l.accepted) /\ Len(l.accepted) \in Nat
        /\ Head(l.queue) = l.queue[1]
        /\ l.queue[1].packet = Done(l) + 1 /\ l.queue[1].sent = Counted(l)
        /\ Counted(l) \in Nat /\ l.accepted \in Seq(Nat)
    BY FrontIs
  <2>2. Done(l) \in 0..Len(l.accepted) /\ Done(l) + 1 \in Nat
    BY ONLY <2>1
  <2> QED BY <2>1, <2>2
<1>5. PacketBytes(l.accepted, Done(l)) \in Bytes
  BY <1>4, BytesStep
<1>6. WireAt(m, Counted(m) + bytes)
  <2> DEFINE whole == PacketBytes(l.accepted, Done(l))
             n == Done(l) + 1
  <2>1. (whole \o Piece(n, Counted(l))) \o More(n, Counted(l), bytes)
          = whole \o Piece(n, Counted(l) + bytes)
    BY <1>4, <1>5, PieceGrows
  <2>2. l.wire = whole \o Piece(n, Counted(l))
    BY <1>3 DEF WireAt
  <2> HIDE DEF whole
  <2>3. m.wire = whole \o Piece(n, Counted(l) + bytes)
    BY <1>4, <2>1, <2>2 DEF Uncounted
  <2>4. m.accepted = l.accepted
    BY DEF Uncounted
  <2> QED BY <1>1, <2>3, <2>4 DEF WireAt, whole
<1>7. ASSUME ~IsConnected(m) \/ bytes = 0 PROVE Out(m)
  <2>1. m.sends = <<>> /\ m.queue # <<>> /\ m.accepted = l.accepted
    BY DEF Uncounted
  <2>2. Counted(m) + bytes \in Nat /\ (bytes = 0 => Counted(m) + bytes = Counted(m))
    BY <1>1, <1>4
  <2>3. WireIs(m, Counted(m) + bytes)
    BY <1>1, <1>6, <1>7, <2>1, <2>2 DEF WireIs, WireAt
  <2> QED BY <1>2, <2>3 DEF Out
<1> QED BY <1>1, <1>2, <1>6, <1>7

\* OnSend counts them.
LEMMA CountSentOut ==
  ASSUME NEW l, Core(l), Out(l), l.queue # <<>>, l.sends # <<>>, NEW bytes \in Nat,
         Counted(l) + bytes <= l.accepted[Done(l) + 1],
         NEW m, Core(m), Uncounted(l, m, bytes)
  PROVE  LET c == CountSent(m, bytes)
         IN Out(c) /\ Passive(m, c, "slow") /\ (IsConnected(m) => IsConnected(c))
<1> DEFINE c == CountSent(m, bytes)
           e == [m.queue[1] EXCEPT !.sent = @ + bytes]
<1>1. /\ m.accepted = l.accepted /\ m.queue = l.queue /\ m.queued = l.queued
      /\ QueueIs(m) /\ QueuedIs(m) /\ WireAt(m, Counted(m) + bytes)
      /\ Done(m) = Done(l) /\ Counted(m) = Counted(l)
  BY UncountedIs DEF Uncounted
<1>2. /\ m.queue \in Seq(Entry) /\ Len(m.queue) \in Nat \ {0} /\ Head(m.queue) = m.queue[1]
      /\ m.accepted \in Seq(Nat) /\ Done(m) \in Nat /\ Done(m) + Len(m.queue) = Len(m.accepted)
      /\ Done(m) + 1 \in 1..Len(m.accepted) /\ (Done(m) + 1) - 1 = Done(m)
      /\ Len(m.accepted) \in Nat
      /\ m.queue[1].packet = Done(m) + 1 /\ m.queue[1].size = m.accepted[Done(m) + 1]
      /\ m.queue[1].sent = Counted(m) /\ Counted(m) \in Nat /\ m.accepted[Done(m) + 1] \in Nat
      /\ Counted(m) + bytes <= m.accepted[Done(m) + 1] /\ m.queue # <<>>
  <2>1. /\ l.queue \in Seq(Entry) /\ Len(l.queue) \in Nat \ {0} /\ Head(l.queue) = l.queue[1]
        /\ l.accepted \in Seq(Nat) /\ Done(l) \in Nat /\ Done(l) + Len(l.queue) = Len(l.accepted)
        /\ Done(l) + 1 \in 1..Len(l.accepted) /\ (Done(l) + 1) - 1 = Done(l)
        /\ Len(l.accepted) \in Nat
        /\ l.queue[1].packet = Done(l) + 1 /\ l.queue[1].size = l.accepted[Done(l) + 1]
        /\ l.queue[1].sent = Counted(l) /\ Counted(l) \in Nat /\ l.accepted[Done(l) + 1] \in Nat
    BY FrontIs
  <2> QED BY <1>1, <2>1
<1> DEFINE next == m.accepted[Done(m) + 1]
<1>10. /\ Len(m.queue) \in Nat \ {0} /\ Done(m) \in Nat /\ Len(m.accepted) \in Nat
      /\ Done(m) + Len(m.queue) = Len(m.accepted)
      /\ Counted(m) \in Nat /\ next \in Nat /\ Counted(m) + bytes <= next /\ bytes \in Nat
  BY <1>2
<1>3. /\ c.queued = m.queued - bytes
      /\ c.queue = IF Counted(m) + bytes < m.accepted[Done(m) + 1]
                   THEN [m.queue EXCEPT ![1] = e] ELSE Tail(m.queue)
      /\ \A f \in Fields \ {"queue", "queued"} : c[f] = m[f]
  BY <1>2 DEF Core, Shape, Fields, CountSent
<1> HIDE DEF c
<1>4. /\ c.accepted = m.accepted /\ c.wire = m.wire
      /\ c.stream = m.stream /\ c.received = m.received /\ c.handled = m.handled
      /\ c.read = m.read /\ c.write = m.write /\ c.recvs = m.recvs /\ c.why = m.why
      /\ c.open = m.open /\ c.closing = m.closing /\ c.gone = m.gone
  BY <1>3 DEF Fields
<1>5. Passive(m, c, "slow") /\ (IsConnected(m) => IsConnected(c))
  BY <1>4 DEF Passive, IsConnected
<1>6. /\ m.accepted \in Seq(Nat \ {0})
      /\ \A j \in 1..Len(m.queue) :
           /\ m.queue[j].packet = Done(m) + j /\ m.queue[j].size = m.accepted[Done(m) + j]
           /\ j # 1 => m.queue[j].sent = 0
      /\ m.queued =
           TotalSize(m.accepted, Len(m.accepted)) - TotalSize(m.accepted, Done(m)) - Counted(m)
      /\ m.queued <= MaxQueued
      /\ m.wire = PacketBytes(m.accepted, Done(m)) \o Piece(Done(m) + 1, Counted(m) + bytes)
  BY <1>1 DEF QueueIs, QueuedIs, WireAt
<1>7. /\ TotalSize(m.accepted, Len(m.accepted)) \in Nat /\ TotalSize(m.accepted, Done(m)) \in Nat
      /\ TotalSize(m.accepted, Done(m) + 1) =
           TotalSize(m.accepted, Done(m)) + m.accepted[Done(m) + 1]
      /\ MaxQueued \in Nat
  <2>1. Len(m.accepted) \in 0..Len(m.accepted) /\ Done(m) \in 0..Len(m.accepted)
    BY <1>2
  <2>2. TotalSize(m.accepted, Len(m.accepted)) \in Nat /\ TotalSize(m.accepted, Done(m)) \in Nat
    BY <1>2, <2>1, TotalStep
  <2>3. TotalSize(m.accepted, Done(m) + 1) =
          TotalSize(m.accepted, (Done(m) + 1) - 1) + m.accepted[Done(m) + 1]
    BY <1>2, TotalStep
  <2> QED BY <1>2, <2>2, <2>3, SessionAssumption DEF SessionAssumption
<1>8. CASE Counted(m) + bytes < m.accepted[Done(m) + 1]
  <2>1. c.queue = [m.queue EXCEPT ![1] = e]
    BY <1>3, <1>8
  <2>2. /\ e.packet = m.queue[1].packet /\ e.size = m.queue[1].size
        /\ e.sent = Counted(m) + bytes /\ e \in Entry
    <3>1. m.queue[1] \in Entry /\ m.queue[1].sent = Counted(m)
      BY <1>2
    <3>2. Counted(m) + bytes \in Nat
      BY <1>10
    <3> QED BY ONLY <3>1, <3>2 DEF Entry, e
  <2> HIDE DEF e
  <2>3. /\ c.queue \in Seq(Entry) /\ Len(c.queue) = Len(m.queue) /\ c.queue # <<>>
        /\ c.queue[1] = e /\ \A j \in 1..Len(m.queue) : j # 1 => c.queue[j] = m.queue[j]
    <3>1. m.queue \in Seq(Entry) /\ e \in Entry /\ Len(m.queue) \in Nat \ {0}
      BY <1>2, <2>2
    <3> QED BY ONLY <2>1, <3>1
  <2>4. Done(c) = Done(m) /\ Counted(c) = Counted(m) + bytes
    BY <1>4, <2>2, <2>3 DEF Done, Counted
  <2>5. ASSUME NEW j \in 1..Len(c.queue)
        PROVE  /\ c.queue[j].packet = Done(c) + j /\ c.queue[j].size = c.accepted[Done(c) + j]
               /\ j # 1 => c.queue[j].sent = 0
    <3>1. CASE j = 1
      BY <1>2, <1>4, <2>2, <2>3, <2>4, <3>1
    <3>2. CASE j # 1
      BY <1>4, <1>6, <2>3, <2>4, <3>2
    <3> QED BY <3>1, <3>2
  <2>6. QueueIs(c)
    BY <1>2, <1>4, <1>6, <1>8, <2>3, <2>4, <2>5 DEF QueueIs
  <2>7. QueuedIs(c)
    <3>1. /\ c.queued = TotalSize(m.accepted, Len(m.accepted)) - TotalSize(m.accepted, Done(m))
                          - Counted(c)
          /\ c.queued <= MaxQueued
      <4>1. /\ c.queued = m.queued - bytes /\ Counted(c) = Counted(m) + bytes
            /\ m.queued = TotalSize(m.accepted, Len(m.accepted)) - TotalSize(m.accepted, Done(m))
                          - Counted(m)
            /\ m.queued <= MaxQueued
        BY <1>3, <1>6, <2>4
      <4>2. /\ TotalSize(m.accepted, Len(m.accepted)) \in Nat
            /\ TotalSize(m.accepted, Done(m)) \in Nat /\ MaxQueued \in Nat
            /\ Counted(m) \in Nat /\ bytes \in Nat
        BY <1>7, <1>10
      <4> QED BY ONLY <4>1, <4>2
    <3> QED BY <1>4, <2>4, <3>1 DEF QueuedIs
  <2>8. WireIs(c, Counted(c))
    <3>1. Counted(c) \in Nat /\ Counted(c) <= c.accepted[Done(c) + 1]
      <4>1. Counted(m) + bytes \in Nat /\ Counted(m) + bytes <= m.accepted[Done(m) + 1]
        BY <1>10
      <4> QED BY <1>4, <2>4, <4>1
    <3> QED BY <1>4, <1>6, <2>3, <2>4, <3>1 DEF WireIs
  <2> QED BY <1>5, <2>6, <2>7, <2>8 DEF Out, c
<1>9. CASE ~(Counted(m) + bytes < m.accepted[Done(m) + 1])
  <2>1. Counted(m) + bytes = m.accepted[Done(m) + 1]
    <3>1. Counted(m) \in Nat /\ bytes \in Nat /\ next \in Nat /\ Counted(m) + bytes <= next
      BY <1>10
    <3>2. ~(Counted(m) + bytes < next)
      BY <1>9
    <3> HIDE DEF next
    <3>3. Counted(m) + bytes = next
      BY ONLY <3>1, <3>2
    <3> QED BY <3>3 DEF next
  <2>2. /\ c.queue \in Seq(Entry) /\ Len(c.queue) = Len(m.queue) - 1
        /\ \A j \in 1..Len(c.queue) : c.queue[j] = m.queue[j + 1]
    <3>1. c.queue = Tail(m.queue) /\ m.queue \in Seq(Entry) /\ m.queue # <<>>
      BY <1>2, <1>3, <1>9
    <3>2. /\ Tail(m.queue) \in Seq(Entry) /\ Len(Tail(m.queue)) = Len(m.queue) - 1
          /\ \A j \in 1..Len(Tail(m.queue)) : Tail(m.queue)[j] = m.queue[j + 1]
      BY <3>1, HeadTailProperties
    <3> QED BY <3>1, <3>2
  <2>3. Done(c) = Done(m) + 1 /\ Done(c) \in Nat /\ Len(c.queue) \in Nat
        /\ Len(c.queue) = Len(m.queue) - 1
    BY <1>10, <1>4, <2>2 DEF Done
  <2>4. \A j \in 1..Len(c.queue) :
          j + 1 \in 1..Len(m.queue) /\ j + 1 # 1 /\ Done(m) + (j + 1) = Done(c) + j
    <3>1. /\ Len(m.queue) \in Nat /\ Done(m) \in Nat /\ Len(c.queue) \in Nat
          /\ Len(c.queue) = Len(m.queue) - 1 /\ Done(c) = Done(m) + 1
      BY <1>10, <2>3
    <3> SUFFICES ASSUME NEW j \in 1..Len(c.queue)
                 PROVE  /\ j + 1 \in 1..Len(m.queue) /\ j + 1 # 1
                        /\ Done(m) + (j + 1) = Done(c) + j
      OBVIOUS
    <3> QED BY ONLY <3>1, j \in 1..Len(c.queue)
  <2>5. \A j \in 1..Len(c.queue) :
          /\ c.queue[j].packet = Done(c) + j /\ c.queue[j].size = c.accepted[Done(c) + j]
          /\ c.queue[j].sent = 0
    BY <1>4, <1>6, <2>2, <2>4
  <2>6. c.queue # <<>> => 1 \in 1..Len(c.queue)
    BY <2>2
  <2>7. Counted(c) = 0
    BY <2>5, <2>6 DEF Counted
  <2>8. c.queue # <<>> => Done(c) + 1 \in 1..Len(c.accepted)
    <3>1. 1 \in 1..Len(c.queue) => Done(c) + 1 \in 1..Len(m.accepted)
      BY ONLY <1>10, <2>3
    <3> QED BY <1>4, <2>6, <3>1
  <2>9. QueueIs(c)
    <3>1. c.queue # <<>> => c.accepted[Done(c) + 1] \in Nat \ {0}
      BY <1>4, <1>6, <2>8
    <3>2. c.queue # <<>> => Counted(c) < c.accepted[Done(c) + 1]
      BY <2>7, <3>1
    <3> QED BY <1>4, <1>6, <2>2, <2>3, <2>5, <3>2 DEF QueueIs
  <2>10. QueuedIs(c)
    <3>1. TotalSize(m.accepted, Done(c)) = TotalSize(m.accepted, Done(m)) + m.accepted[Done(m) + 1]
      BY <1>7, <2>3
    <3>2. /\ c.queued = TotalSize(m.accepted, Len(m.accepted)) - TotalSize(m.accepted, Done(c)) - 0
          /\ c.queued <= MaxQueued
      <4>1. /\ c.queued = m.queued - bytes
            /\ m.queued = TotalSize(m.accepted, Len(m.accepted)) - TotalSize(m.accepted, Done(m))
                          - Counted(m)
            /\ m.queued <= MaxQueued
        BY <1>3, <1>6
      <4>2. /\ TotalSize(m.accepted, Len(m.accepted)) \in Nat
            /\ TotalSize(m.accepted, Done(m)) \in Nat /\ MaxQueued \in Nat
        BY <1>7
      <4> QED BY ONLY <1>10, <2>1, <3>1, <4>1, <4>2
    <3> QED BY <1>4, <2>7, <3>2 DEF QueuedIs
  <2>11. WireIs(c, 0)
    <3>1. PacketBytes(m.accepted, Done(m) + 1) =
            PacketBytes(m.accepted, (Done(m) + 1) - 1) \o Piece(Done(m) + 1, m.accepted[Done(m) + 1])
      BY <1>2, BytesStep
    <3>2. PacketBytes(m.accepted, Done(m) + 1) \in Bytes
      <4>1. Done(m) + 1 \in 0..Len(m.accepted)
        BY <1>2
      <4> QED BY <1>2, <4>1, BytesStep
    <3>3. PacketBytes(m.accepted, Done(m) + 1) \o <<>> = PacketBytes(m.accepted, Done(m) + 1)
      BY <3>2, BytesJoin
    <3>4. Piece(Done(c) + 1, 0) = <<>>
      BY DEF Piece
    <3>5. c.wire = PacketBytes(m.accepted, Done(m) + 1)
      BY <1>2, <1>4, <1>6, <2>1, <3>1
    <3>6. c.wire = PacketBytes(c.accepted, Done(c)) \o Piece(Done(c) + 1, 0)
      BY <1>4, <2>3, <3>3, <3>4, <3>5
    <3>7. c.queue # <<>> => 0 <= c.accepted[Done(c) + 1]
      <4>1. c.queue # <<>> => c.accepted[Done(c) + 1] \in Nat
        <5>1. m.accepted \in Seq(Nat)
          BY <1>2
        <5>2. \A i \in 1..Len(m.accepted) : m.accepted[i] \in Nat
          BY ONLY <5>1
        <5> QED BY <1>4, <2>8, <5>2
      <4> QED BY <4>1
    <3> QED BY <2>7, <3>6, <3>7 DEF WireIs
  <2> QED BY <1>5, <2>9, <2>10, <2>11 DEF Out, c
<1> QED BY <1>8, <1>9

LEMMA SendCompletedStream ==
  ASSUME Inv, StreamInv, NEW s \in Sessions, SendCompleted(s)
  PROVE  StreamInv'
<1>1. PICK bytes \in 0..Head(link[s].sends).len :
        LET op == Head(link[s].sends)
            taken == [i \in 1..bytes |-> <<op.packet, op.from + i>>]
            l == [link[s] EXCEPT !.sends = Tail(@), !.sendPending = FALSE,
                                 !.wire = @ \o taken]
            front == Head(l.queue)
            valid == l.queue # <<>> /\ bytes \in 1..(front.size - front.sent)
            after(m) == [link EXCEPT ![s] = m]
        IN /\ thread = Idle /\ thread' = Idle /\ link[s].sends # <<>>
           /\ \/ ~IsConnected(l) /\ link' = after(l)
              \/ /\ IsConnected(l) /\ ~valid
                 /\ \E b \in Broadcasts : link' = Close(after(l), s, "kernel", b)
              \/ IsConnected(l) /\ link' = after(SendRest(l, bytes))
              \/ \E b \in Broadcasts : link' = Close(after(CountSent(l, bytes)), s, "kernel", b)
  BY DEF SendCompleted
<1> DEFINE op == Head(link[s].sends)
           taken == [i \in 1..bytes |-> <<op.packet, op.from + i>>]
           l == [link[s] EXCEPT !.sends = Tail(@), !.sendPending = FALSE, !.wire = @ \o taken]
           c == CountSent(l, bytes)
<1>2. /\ thread = Idle /\ thread' = Idle /\ link[s].sends # <<>>
      /\ \/ ~IsConnected(l) /\ link' = [link EXCEPT ![s] = l]
         \/ /\ IsConnected(l)
            /\ ~(l.queue # <<>> /\ bytes \in 1..(Head(l.queue).size - Head(l.queue).sent))
            /\ \E b \in Broadcasts : link' = Close([link EXCEPT ![s] = l], s, "kernel", b)
         \/ IsConnected(l) /\ link' = [link EXCEPT ![s] = SendRest(l, bytes)]
         \/ \E b \in Broadcasts : link' = Close([link EXCEPT ![s] = c], s, "kernel", b)
  BY <1>1
<1>3. /\ Core(link[s]) /\ Out(link[s]) /\ In(link[s]) /\ link[s].alive
      /\ IsConnected(link[s]) => Settled(link[s])
  <2>1. Idle \notin Sessions
    BY SessionAssumption DEF SessionAssumption
  <2>2. Core(link[s]) /\ link[s].alive
    BY <1>2, Alive
  <2> QED BY <1>2, <2>1, <2>2 DEF StreamInv
<1>4. PICK o : link[s].sends = <<o>> /\ OfFront(o, link[s].queue)
  BY <1>2, <1>3 DEF Core, Sends
<1>5. /\ op.packet = Head(link[s].queue).packet /\ op.from = Head(link[s].queue).sent
      /\ op.len = Head(link[s].queue).size - Head(link[s].queue).sent
      /\ link[s].queue # <<>> /\ Tail(link[s].sends) = <<>>
  BY <1>4 DEF OfFront
<1>6. taken = More(Head(link[s].queue).packet, Head(link[s].queue).sent, bytes)
  BY <1>5 DEF More
<1> HIDE DEF taken
<1>7. /\ Shape(l) /\ l.sendPending = FALSE /\ l.sends = Tail(link[s].sends)
      /\ l.wire = link[s].wire \o taken
      /\ \A f \in Fields \ {"sendPending", "sends", "wire"} : l[f] = link[s][f]
  BY <1>3 DEF Core, Shape, Fields
<1> HIDE DEF l, op
<1>8. /\ l.alive = link[s].alive /\ l.open = link[s].open /\ l.gone = link[s].gone
      /\ l.closing = link[s].closing /\ l.recvPending = link[s].recvPending
      /\ l.recvs = link[s].recvs /\ l.queue = link[s].queue /\ l.queued = link[s].queued
      /\ l.disconnects = link[s].disconnects /\ l.handled = link[s].handled
      /\ l.accepted = link[s].accepted
      /\ l.stream = link[s].stream /\ l.received = link[s].received
      /\ l.read = link[s].read /\ l.write = link[s].write /\ l.why = link[s].why
  BY <1>7 DEF Fields
<1>9. l.sends = <<>>
  BY <1>5, <1>7
<1>10. Core(l)
  <2>1. Sends(l)
    BY <1>3, <1>7, <1>8, <1>9 DEF Core, Sends
  <2>2. Flags(l) /\ Life(l) /\ Receives(l)
    BY <1>3, <1>7, <1>8, <1>9 DEF Core, Flags, Life, Receives
  <2> QED BY <1>7, <2>1, <2>2 DEF Core
<1>11. Uncounted(link[s], l, bytes) /\ Passive(link[s], l, "slow")
  BY <1>6, <1>7, <1>8, <1>9 DEF Uncounted, Passive, IsConnected
<1>12. /\ bytes \in Nat /\ Counted(link[s]) + bytes <= link[s].accepted[Done(link[s]) + 1]
       /\ ~(bytes \in 1..(Head(l.queue).size - Head(l.queue).sent)) => bytes = 0
  <2> DEFINE size == link[s].accepted[Done(link[s]) + 1]
  <2>1. /\ Counted(link[s]) \in Nat /\ size \in Nat /\ Counted(link[s]) < size
        /\ Head(link[s].queue).size = size /\ Head(link[s].queue).sent = Counted(link[s])
    BY <1>3, <1>5, FrontIs
  <2> HIDE DEF size
  <2>2. bytes \in 0..(size - Counted(link[s]))
    BY <1>5, <2>1 DEF op
  <2>3. /\ bytes \in Nat /\ Counted(link[s]) + bytes <= size
        /\ ~(bytes \in 1..(size - Counted(link[s]))) => bytes = 0
    BY <2>1, <2>2
  <2> QED BY <1>8, <2>1, <2>3 DEF size
<1>13. ~IsConnected(l) \/ bytes = 0 => Out(l)
  BY <1>2, <1>3, <1>5, <1>11, <1>12, UncountedIs
<1>14. /\ Out(c) /\ Passive(l, c, "slow") /\ Core(c) /\ c.sends = <<>>
       /\ IsConnected(l) => IsConnected(c)
  BY <1>2, <1>3, <1>5, <1>8, <1>9, <1>10, <1>11, <1>12, CountSentOut, CountSentCore
<1> HIDE DEF c
\* The session goes on, or is closed, with its packets counted right.
<1>15. ASSUME NEW m, Core(m), Out(m), Passive(l, m, "slow"), link' = [link EXCEPT ![s] = m]
       PROVE  StreamInv'
  <2>1. Passive(link[s], m, "slow")
    BY <1>11, <1>15, PassiveTwice
  <2>2. In(m) /\ (IsConnected(m) => Settled(m))
    BY <1>3, <2>1, PassiveIn, PassiveSettled DEF Passive
  <2>3. /\ link'[s] = m /\ \A t \in Sessions : Out(link'[t])
        /\ \A t \in Sessions \ {s} : Passive(link[t], link'[t], "slow")
    BY <1>15, SingleStream
  <2> QED BY <1>2, <2>2, <2>3, OneStepStream
<1>16. ASSUME NEW m, Core(m), Out(m), Passive(l, m, "slow"), m.alive, NEW b \in Broadcasts,
              link' = Close([link EXCEPT ![s] = m], s, "kernel", b)
       PROVE  StreamInv'
  <2> DEFINE base == [link EXCEPT ![s] = m]
  <2>1. Passive(link[s], m, "slow")
    BY <1>11, <1>16, PassiveTwice
  <2>2. In(m)
    BY <1>3, <2>1, PassiveIn
  <2>3. /\ IsLinks(base) /\ base[s] = m
        /\ \A t \in Sessions : Core(base[t]) /\ Out(base[t])
        /\ \A t \in Sessions \ {s} : Passive(link[t], base[t], "slow")
    BY <1>16, SingleStream
  <2>4. link' = Close(base, s, "kernel", b)
    BY <1>16
  <2> HIDE DEF base
  <2> QED BY <1>2, <1>16, <2>2, <2>3, <2>4, CloseStepStream
<1>17. l.alive /\ Passive(l, l, "slow")
  BY <1>3, <1>8 DEF Passive
<1>18. c.alive
  BY <1>5, <1>8, <1>9, <1>10, <1>17, CountSentCore DEF Keeps, c
<1>19. CASE ~IsConnected(l) /\ link' = [link EXCEPT ![s] = l]
  BY <1>10, <1>13, <1>15, <1>17, <1>19
<1>20. CASE /\ IsConnected(l)
            /\ ~(l.queue # <<>> /\ bytes \in 1..(Head(l.queue).size - Head(l.queue).sent))
            /\ \E b \in Broadcasts : link' = Close([link EXCEPT ![s] = l], s, "kernel", b)
  <2>1. Out(l)
    BY <1>5, <1>8, <1>12, <1>13, <1>20
  <2> QED BY <1>10, <1>16, <1>17, <1>20, <2>1
<1>21. CASE IsConnected(l) /\ link' = [link EXCEPT ![s] = SendRest(l, bytes)]
  <2>1. SendRest(l, bytes) = IF c.queue = <<>> THEN c ELSE PostSend(c)
    BY DEF SendRest, c
  <2>2. CASE c.queue = <<>>
    BY <1>14, <1>15, <1>21, <2>1, <2>2
  <2>3. CASE c.queue # <<>>
    <3> DEFINE m == PostSend(c)
    <3>1. Core(m)
      BY <1>14, <1>18, <2>3, PostSendCore
    <3>2. Out(m) /\ Passive(c, m, "slow")
      BY <1>14, <1>21, PostSendOut
    <3> HIDE DEF m
    <3>3. Passive(l, m, "slow")
      BY <1>14, <3>2, PassiveTwice
    <3>4. link' = [link EXCEPT ![s] = m]
      BY <1>21, <2>1, <2>3 DEF m
    <3> QED BY <1>15, <3>1, <3>2, <3>3, <3>4
  <2> QED BY <2>2, <2>3
<1>22. CASE \E b \in Broadcasts : link' = Close([link EXCEPT ![s] = c], s, "kernel", b)
  BY <1>14, <1>16, <1>18, <1>22
<1> QED BY <1>2, <1>19, <1>20, <1>21, <1>22

LEMMA VisitStream ==
  ASSUME Inv, StreamInv, NEW s \in Sessions, Visit(s)
  PROVE  StreamInv'
<1>1. PICK updated :
        /\ thread = Idle /\ thread' = Idle /\ link[s].alive
        /\ \/ updated = link
           \/ updated = [link EXCEPT ![s] = RequestClose(link[s], "handler")]
           \/ \E b \in Broadcasts : updated = Broadcast(link, b)
        /\ link' = updated \/ \E b \in Broadcasts : link' = Close(updated, s, "handler", b)
  BY DEF Visit
<1>2. IsLinks(link) /\ \A t \in Sessions : Core(link[t]) /\ Flow(link[t]) /\ Out(link[t])
  BY DEF Inv, StreamInv
<1>3. In(link[s]) /\ (IsConnected(link[s]) => Settled(link[s]))
  <2>1. Idle \notin Sessions
    BY SessionAssumption DEF SessionAssumption
  <2> QED BY <1>1, <2>1 DEF StreamInv
<1>4. /\ IsLinks(updated) /\ updated[s].alive
      /\ \A t \in Sessions : Core(updated[t]) /\ Out(updated[t])
      /\ Passive(link[s], updated[s], "handler")
      /\ \A t \in Sessions \ {s} : Passive(link[t], updated[t], "slow")
  <2>1. CASE updated = link
    BY <1>1, <1>2, <2>1 DEF Passive
  <2>2. CASE updated = [link EXCEPT ![s] = RequestClose(link[s], "handler")]
    <3> DEFINE m == RequestClose(link[s], "handler")
    <3>1. Core(m) /\ Out(m) /\ Passive(link[s], m, "handler") /\ m.alive
      BY <1>1, <1>2, RequestCloseCore, RequestCloseOut DEF Keeps
    <3> HIDE DEF m
    <3>2. /\ IsLinks(updated) /\ updated[s] = m
          /\ \A t \in Sessions : Core(updated[t]) /\ Out(updated[t])
          /\ \A t \in Sessions \ {s} : Passive(link[t], updated[t], "slow")
      BY <2>2, <3>1, SingleStream DEF m
    <3> QED BY <3>1, <3>2
  <2>3. CASE \E b \in Broadcasts : updated = Broadcast(link, b)
    <3>1. PICK b \in Broadcasts : updated = Broadcast(link, b)
      BY <2>3
    <3>2. /\ IsLinks(updated)
          /\ \A t \in Sessions : Core(updated[t]) /\ Keeps(link[t], updated[t])
      BY <1>2, <3>1, BroadcastCore
    <3>3. \A t \in Sessions : Out(updated[t]) /\ Passive(link[t], updated[t], "slow")
      BY <1>2, <3>1, BroadcastOut
    <3> QED BY <1>1, <3>2, <3>3 DEF Passive, Keeps
  <2> QED BY <1>1, <2>1, <2>2, <2>3
<1>5. In(updated[s]) /\ (IsConnected(updated[s]) => Settled(updated[s]))
  BY <1>3, <1>4, PassiveIn, PassiveSettled DEF Passive
<1>6. CASE link' = updated
  BY <1>1, <1>4, <1>5, <1>6, OneStepStream
<1>7. CASE \E b \in Broadcasts : link' = Close(updated, s, "handler", b)
  <2>1. PICK b \in Broadcasts : link' = Close(updated, s, "handler", b)
    BY <1>7
  <2> QED BY <1>1, <1>4, <1>5, <2>1, CloseStepStream
<1> QED BY <1>1, <1>6, <1>7

LEMMA DestroyStream ==
  ASSUME Inv, StreamInv, NEW s \in Sessions, Destroy(s)
  PROVE  StreamInv'
<1> DEFINE m == [link[s] EXCEPT !.alive = FALSE]
<1>1. thread = Idle /\ link' = [link EXCEPT ![s] = m] /\ ~link[s].open
  BY DEF Destroy, CanDestroy
<1>2. Out(link[s]) /\ In(link[s]) /\ Core(link[s]) /\ IsLinks(link)
  BY Alive DEF StreamInv, Inv
<1>3. \A f \in Fields \ {"alive"} : m[f] = link[s][f]
  BY <1>2 DEF Core, Shape, Fields
<1> HIDE DEF m
<1>4. /\ m.accepted = link[s].accepted /\ m.queue = link[s].queue /\ m.queued = link[s].queued
      /\ m.wire = link[s].wire /\ m.sends = link[s].sends
      /\ m.stream = link[s].stream /\ m.received = link[s].received
      /\ m.handled = link[s].handled
      /\ m.read = link[s].read /\ m.write = link[s].write /\ m.why = link[s].why
      /\ m.recvs = link[s].recvs /\ m.open = link[s].open
  BY <1>3 DEF Fields
<1>5. ~IsConnected(m) /\ Passive(link[s], m, "slow")
  BY <1>1, <1>4 DEF IsConnected, Passive
<1>6. Out(m) /\ In(m)
  BY <1>2, <1>4, <1>5, OutSame, PassiveIn
<1>7. link'[s] = m /\ \A t \in Sessions \ {s} : link'[t] = link[t]
  BY <1>1, <1>2 DEF IsLinks
<1>8. \A t \in Sessions \ {s} : Out(link'[t]) /\ Passive(link[t], link'[t], "slow")
  BY <1>7 DEF StreamInv, Passive
<1> QED BY <1>1, <1>5, <1>6, <1>7, <1>8, OneStepStream

LEMMA InitStream == ASSUME Init PROVE StreamInv
<1>1. <<>> \in Seq(Nat \ {0})
  OBVIOUS
<1>2. Out(Nobody) /\ In(Nobody)
  BY <1>1, NobodyStream
<1>3. ~IsConnected(Nobody)
  BY FreshCore
<1> QED BY <1>2, <1>3 DEF Init, StreamInv

LEMMA StepStream == ASSUME Inv, StreamInv, [Next]_vars PROVE StreamInv'
<1>1. CASE \E s \in Sessions : \E stream \in Streams[s] : Accept(s, stream)
  BY <1>1, AcceptStream
<1>2. CASE \E s \in Sessions : RecvCompleted(s) \/ HandlePacket(s) \/ StopProcessing(s) \/ ReceiveMore(s)
  BY <1>2, RecvCompletedStream, HandlePacketStream, StopProcessingStream, ReceiveMoreStream
<1>3. CASE \E s \in Sessions : SendCompleted(s) \/ Visit(s) \/ Destroy(s)
  BY <1>3, SendCompletedStream, VisitStream, DestroyStream
<1>4. CASE UNCHANGED vars
  BY <1>4 DEF StreamInv, vars
<1> QED BY <1>1, <1>2, <1>3, <1>4 DEF Next

\* What the client was sent begins the packets accepted for it.
LEMMA InOrder == ASSUME NEW l, Out(l)
                 PROVE IsPrefix(l.wire, PacketBytes(l.accepted, Len(l.accepted)))
<1>1. PICK m : WireIs(l, m)
  BY DEF Out
<1>2. /\ l.accepted \in Seq(Nat) /\ l.queue \in Seq(Entry) /\ Done(l) \in Nat
      /\ Len(l.queue) \in Nat /\ Len(l.accepted) \in Nat
      /\ Done(l) + Len(l.queue) = Len(l.accepted)
  <2>1. l.accepted \in Seq(Nat \ {0}) /\ l.queue \in Seq(Entry) /\ Done(l) \in Nat
    BY DEF Out, QueueIs
  <2>2. Len(l.queue) \in Nat /\ Len(l.accepted) \in Nat /\ l.accepted \in Seq(Nat)
    BY <2>1
  <2> QED BY <2>1, <2>2 DEF Done
<1>3. \/ Done(l) = Len(l.accepted) /\ m = 0
      \/ Done(l) < Len(l.accepted) /\ m <= l.accepted[Done(l) + 1]
  <2>1. l.queue # <<>> => Len(l.queue) # 0
    BY <1>2
  <2> QED BY <1>1, <1>2, <2>1 DEF WireIs
<1>4. m \in Nat /\ l.wire = PacketBytes(l.accepted, Done(l)) \o Piece(Done(l) + 1, m)
  BY <1>1 DEF WireIs
<1>5. IsPrefix(PacketBytes(l.accepted, Done(l)) \o Piece(Done(l) + 1, m),
               PacketBytes(l.accepted, Len(l.accepted)))
  <2> DEFINE sizes == l.accepted
             n == Done(l)
  <2>1. sizes \in Seq(Nat) /\ n \in Nat /\ m \in Nat
    BY <1>2, <1>4
  <2>2. \/ n = Len(sizes) /\ m = 0
        \/ n < Len(sizes) /\ m <= sizes[n + 1]
    BY <1>3
  <2> HIDE DEF sizes, n
  <2>3. IsPrefix(PacketBytes(sizes, n) \o Piece(n + 1, m), PacketBytes(sizes, Len(sizes)))
    BY ONLY <2>1, <2>2, BytesBegin
  <2> QED BY <2>3 DEF sizes, n
<1> QED BY <1>4, <1>5

\* What is queued is what is left of the packets in the queue.
LEMMA LeftIs == ASSUME NEW l, Out(l)
                PROVE l.queued = TotalSize([n \in DOMAIN l.queue |-> l.queue[n].size - l.queue[n].sent],
                                           Len(l.queue))
<1> DEFINE rest == [n \in DOMAIN l.queue |-> l.queue[n].size - l.queue[n].sent]
<1>1. /\ l.queued = TotalSize(l.accepted, Len(l.accepted)) - TotalSize(l.accepted, Done(l)) - Counted(l)
  BY DEF Out, QueuedIs
<1>2. CASE l.queue = <<>>
  <2>1. l.accepted \in Seq(Nat \ {0})
    BY DEF Out, QueueIs
  <2>2. l.accepted \in Seq(Nat) /\ Len(l.accepted) \in Nat /\ Len(l.accepted) \in 0..Len(l.accepted)
    BY <2>1
  <2>3. Done(l) = Len(l.accepted) /\ Counted(l) = 0
    BY <1>2, <2>2 DEF Done, Counted
  <2>4. TotalSize(l.accepted, Len(l.accepted)) \in Nat
    BY <2>2, TotalStep
  <2>5. rest = <<>> /\ Len(l.queue) = 0 /\ rest \in Seq(Nat)
    BY <1>2
  <2>6. TotalSize(rest, 0) = 0
    BY <2>5, TotalStep
  <2> QED BY <1>1, <2>3, <2>4, <2>5, <2>6
<1>3. CASE l.queue # <<>>
  <2>1. /\ l.queue \in Seq(Entry) /\ Len(l.queue) \in Nat \ {0}
        /\ l.accepted \in Seq(Nat) /\ Done(l) \in Nat /\ Done(l) + Len(l.queue) = Len(l.accepted)
        /\ Len(l.accepted) \in Nat
        /\ l.queue[1].sent = Counted(l) /\ Counted(l) \in Nat
        /\ l.queue[1].size = l.accepted[Done(l) + 1] /\ l.accepted[Done(l) + 1] \in Nat
        /\ Counted(l) < l.accepted[Done(l) + 1]
    BY <1>3, FrontIs
  <2>2. \A j \in 1..Len(l.queue) : /\ l.queue[j].size = l.accepted[Done(l) + j]
                                   /\ j # 1 => l.queue[j].sent = 0
    BY DEF Out, QueueIs
  <2>3. DOMAIN l.queue = 1..Len(l.queue)
    BY <2>1
  <2>4. ASSUME NEW j \in 1..Len(l.queue)
        PROVE  /\ rest[j] \in Nat
               /\ rest[j] = l.accepted[Done(l) + j] - (IF j = 1 THEN Counted(l) ELSE 0)
               /\ j # 1 => rest[j] = l.accepted[Done(l) + j]
    <3>1. Done(l) + j \in 1..Len(l.accepted)
      BY ONLY <2>1, j \in 1..Len(l.queue)
    <3>2. l.accepted[Done(l) + j] \in Nat
      <4>1. l.accepted \in Seq(Nat)
        BY <2>1
      <4> QED BY ONLY <3>1, <4>1
    <3>3. rest[j] = l.queue[j].size - l.queue[j].sent
      BY <2>3
    <3> HIDE DEF rest
    <3>4. CASE j = 1
      <4>1. /\ rest[j] = l.accepted[Done(l) + 1] - Counted(l)
            /\ l.accepted[Done(l) + 1] \in Nat /\ Counted(l) \in Nat
            /\ Counted(l) < l.accepted[Done(l) + 1]
        BY <2>1, <3>3, <3>4
      <4>2. l.accepted[Done(l) + 1] - Counted(l) \in Nat
        BY ONLY <4>1
      <4> QED BY <3>4, <4>1, <4>2
    <3>5. CASE j # 1
      <4>1. rest[j] = l.accepted[Done(l) + j] - 0
        BY <2>2, <3>3, <3>5
      <4>2. l.accepted[Done(l) + j] - 0 = l.accepted[Done(l) + j]
        BY <3>2
      <4> QED BY <3>2, <3>5, <4>1, <4>2
    <3> QED BY <3>4, <3>5
  <2>5. /\ rest \in Seq(Nat) /\ Len(rest) = Len(l.queue) /\ rest # <<>>
    <3>1. rest = [j \in 1..Len(l.queue) |-> rest[j]]
      BY <2>3
    <3> HIDE DEF rest
    <3>2. rest \in [1..Len(l.queue) -> Nat]
      BY <2>4, <3>1
    <3>3. Len(l.queue) \in Nat \ {0}
      BY <2>1
    <3> QED BY ONLY <3>2, <3>3
  <2>6. 1 \in 1..Len(l.queue) /\ \A k \in 2..Len(l.queue) : k \in 1..Len(l.queue) /\ k # 1
    BY <2>1
  <2> HIDE DEF rest
  <2>7. /\ rest[1] = l.accepted[Done(l) + 1] - Counted(l)
        /\ \A k \in 2..Len(rest) : rest[k] = l.accepted[Done(l) + k]
    BY <2>4, <2>5, <2>6
  <2>8. TotalSize(rest, Len(rest)) =
          TotalSize(l.accepted, Len(l.accepted)) - TotalSize(l.accepted, Done(l)) - Counted(l)
    <3>1. /\ l.accepted \in Seq(Nat) /\ rest \in Seq(Nat) /\ Done(l) \in Nat /\ Counted(l) \in Nat
          /\ Done(l) + Len(rest) = Len(l.accepted) /\ rest # <<>>
      BY <2>1, <2>5
    <3> QED BY ONLY <2>7, <3>1, TotalRest
  <2> QED BY <1>1, <2>5, <2>8 DEF rest
<1> QED BY <1>2, <1>3

LEMMA Intact == ASSUME StreamInv PROVE StreamIntact
<1>1. BytesInOrder
  BY InOrder DEF StreamInv, BytesInOrder
<1>2. LegalPeersKept
  BY DEF StreamInv, In, Legal, LegalPeersKept
<1>3. NothingHeldBack
  <2> SUFFICES ASSUME NEW s \in Sessions, IsConnected(link[s])
               PROVE  /\ link[s].received - TotalSize(link[s].stream, link[s].handled)
                           = DataSize(link[s])
                      /\ thread # s => ~Complete(link[s]) /\ ~Malformed(link[s])
    BY DEF NothingHeldBack
  <2>1. /\ link[s].received = TotalSize(link[s].stream, link[s].handled) + link[s].write
        /\ link[s].read = 0 /\ link[s].write \in Nat
        /\ link[s].stream \in Seq(Nat) /\ link[s].handled \in 0..Len(link[s].stream)
    BY SessionAssumption DEF StreamInv, In, SessionAssumption
  <2>2. TotalSize(link[s].stream, link[s].handled) \in Nat
    BY <2>1, TotalStep
  <2>3. link[s].received - TotalSize(link[s].stream, link[s].handled) = DataSize(link[s])
    BY <2>1, <2>2 DEF DataSize
  <2> QED BY <2>3 DEF StreamInv, Settled
<1>4. BuffersHold
  <2> SUFFICES ASSUME NEW s \in Sessions
               PROVE  LET l == link[s] IN
                      /\ l.queued = TotalSize([n \in DOMAIN l.queue |->
                                                 l.queue[n].size - l.queue[n].sent],
                                              Len(l.queue))
                      /\ l.queued <= MaxQueued
                      /\ l.read <= l.write /\ l.write <= MaxPacket
    BY DEF BuffersHold
  <2>1. Out(link[s]) /\ In(link[s])
    BY DEF StreamInv
  <2>2. link[s].queued <= MaxQueued
    BY <2>1 DEF Out, QueuedIs
  <2>3. link[s].read <= link[s].write /\ link[s].write <= MaxPacket
    BY <2>1, SessionAssumption DEF In, SessionAssumption
  <2> QED BY <2>1, <2>2, <2>3, LeftIs
<1> QED BY <1>1, <1>2, <1>3, <1>4 DEF StreamIntact

\* Streams pass intact both ways, whatever the sizes of packets, of buffers and
\* of what TCP takes or brings at once (Session.cpp:193, Session.cpp:263).
THEOREM StreamsStayIntact == Spec => []StreamIntact
<1>1. Init => Inv /\ StreamInv
  BY InitInv, InitStream
<1>2. (Inv /\ StreamInv) /\ [Next]_vars => (Inv /\ StreamInv)'
  BY StepInv, StepStream
<1>3. StreamInv => StreamIntact
  BY Intact
<1> QED BY <1>1, <1>2, <1>3, PTL DEF Spec
=============================================================================
