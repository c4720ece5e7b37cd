--------------------------- MODULE MovementRelay ---------------------------
(***************************************************************************)
(* Movement reports of the players of the maps: Player::AcceptAction3D     *)
(* decides which actions of a batch count, Map::ReceiveActions3D queues    *)
(* each of them once for every player of the map, and Map::Tick3D hands    *)
(* every player a packet of them at most every 200 ms.  The platform maps  *)
(* (ReceiveMovementActions, AcceptAction, Tick) do the same.               *)
(*                                                                         *)
(* Positions and client clocks are left out.  A batch refused for its      *)
(* number, its clock or its format changes nothing, and an action refused  *)
(* for its clock is as good as absent from its batch.  Death, a combat     *)
(* pause and a trade's lock are left out too: they make the server ignore  *)
(* batches and map changes, which may happen at any time.                  *)
(***************************************************************************)
EXTENDS Naturals, Sequences

CONSTANTS Players, Maps, None,
          Reports,     \* [Players -> SUBSET Action]: what each client may report
          MaxNumber,   \* bound on the actions a client numbers per visit
          MaxJump,     \* bound on jump ids
          MaxVisits,   \* bound on the maps a player enters per connection
          MaxBatch,    \* actions per batch (MAX_MOVEMENT_ACTIONS)
          Limit,       \* actions a player's queue holds (256)
          Pack         \* actions per packet (maxCount)

Kinds == {"Jump", "Land", "Respawn", "Input"}   \* Jump and Fall, Input and Checkpoint
Action == [seq: 1..MaxNumber, kind: Kinds, jump: 0..MaxJump, grounded: BOOLEAN]

ASSUME Bounds ==
  /\ Reports \in [Players -> SUBSET Action]
  /\ {MaxNumber, MaxJump, MaxVisits, MaxBatch, Limit, Pack} \subseteq Nat \ {0}
  /\ None \notin Maps

VARIABLES
  where,    \* the map of each player, None without one
  move,     \* the movement fields of Player
  queue,    \* Map::_pending3D of each player
  made,     \* the actions accepted of each player in its present visit
  screen,   \* screen[r][s]: number of the last action of s handed to r
  closing   \* RequestClose was called
vars == <<where, move, queue, made, screen, closing>>

Fresh == [gen |-> 0, seq |-> 0, jump |-> 0, air |-> FALSE, grounded |-> TRUE]

\* An action in a queue, with the visit it was made in for the properties.
Item == [from : Players, visit : Nat, action : Action]

FirstOf(q, n) == IF Len(q) > n THEN SubSeq(q, 1, n) ELSE q
Keep(q, T) ==   \* what of q is in T, in order
  LET kept[n \in 0..Len(q)] ==
        IF n = 0 THEN <<>>
        ELSE IF q[n] \in T THEN Append(kept[n - 1], q[n]) ELSE kept[n - 1]
  IN kept[Len(q)]
From(q, s) == Keep(q, {item \in Item : item.from = s})
Present(m) == {p \in Players : where[p] = m}

----------------------------------------------------------------------------
(* Player: which actions count.                                            *)

\* The jump rules: a jump needs solid ground and a new id, only Land or
\* Respawn of that id ends it, and an Input claims neither.
TakesOffAgain(m, a) ==
  a.kind = "Jump" /\ ~m.air /\ m.grounded /\ ~a.grounded
TakesOff(m, a) ==
  a.kind = "Jump" /\ ~m.air /\ m.grounded /\ ~a.grounded /\ a.jump > m.jump
ComesDown(m, a) ==
  a.kind = "Respawn" \/ (a.kind = "Land" /\ m.air)
Allowed(m, a) ==
  \/ TakesOff(m, a)
  \/ ComesDown(m, a) /\ a.jump = m.jump /\ a.grounded
  \/ a.kind = "Input" /\ a.jump = m.jump /\ a.grounded = ~m.air

Applied(m, a) ==
  [m EXCEPT !.seq = a.seq, !.jump = a.jump, !.grounded = a.grounded,
            !.air = CASE a.kind = "Jump" -> TRUE
                      [] a.kind \in {"Land", "Respawn"} -> FALSE
                      [] OTHER -> m.air]

\* A number is spent even when the rules refuse the action.
Consume(m, a) == [m EXCEPT !.seq = a.seq]

\* AcceptAction3D on what a batch has done so far.
AcceptAction(done, a) ==
  IF a.seq <= done.move.seq THEN done
  ELSE IF Allowed(done.move, a)
  THEN [done EXCEPT !.move = Applied(@, a), !.took = Append(@, a)]
  ELSE [done EXCEPT !.move = Consume(@, a)]

\* Only a batch made in the present visit of its map counts.
AcceptActionBatch(p, visit) == visit = move[p].gen

Outcome(p, batch) ==
  LET done[n \in 0..Len(batch)] ==
        IF n = 0 THEN [move |-> move[p], took |-> <<>>]
        ELSE AcceptAction(done[n - 1], batch[n])
  IN done[Len(batch)]

\* The batches whose format passes: their numbers increase.
Batches(p) ==
  {b \in UNION {[1..n -> Reports[p]] : n \in 1..MaxBatch} :
     \A i \in 2..Len(b) : b[i - 1].seq < b[i].seq}

----------------------------------------------------------------------------
(* Map: entering and leaving.                                              *)

BeginMap(m) == [Fresh EXCEPT !.gen = m.gen + 1]

\* RemovePlayer: the player's queue goes, and its actions in the others'.
KeepItsActions(p) == [queue EXCEPT ![p] = <<>>]
RemovePlayer(p) ==
  [r \in Players |->
     IF r = p THEN <<>> ELSE Keep(queue[r], {item \in Item : item.from # p})]

LastMade(p) == IF made[p] = <<>> THEN 0 ELSE made[p][Len(made[p])].action.seq

\* NotifyPlayerEntered: the newcomer gets everyone's state, they get its own.
Snapshots(p, m) ==
  [r \in Players |->
     [s \in Players |-> IF s = p THEN 0
                        ELSE IF r = p /\ where[s] = m THEN LastMade(s)
                        ELSE screen[r][s]]]

\* AddPlayer of a player whose Player object is player.
AddPlayer(p, m, player) ==
  /\ where' = [where EXCEPT ![p] = m]
  /\ move' = [move EXCEPT ![p] = BeginMap(player)]
  /\ queue' = RemovePlayer(p)
  /\ made' = [made EXCEPT ![p] = <<>>]
  /\ screen' = Snapshots(p, m)

\* A new connection brings a new Player.
Enter(p, m) ==
  /\ where[p] = None
  /\ AddPlayer(p, m, Fresh)
  /\ UNCHANGED closing

ChangeMap(p, m) ==
  /\ where[p] \notin {None, m}
  /\ move[p].gen < MaxVisits
  /\ AddPlayer(p, m, move[p])
  /\ UNCHANGED closing

\* A dead player comes back by entering its own map again.
Revive(p) ==
  /\ where[p] # None /\ move[p].gen < MaxVisits
  /\ AddPlayer(p, where[p], move[p])
  /\ UNCHANGED closing

RequestClose(p) ==
  /\ where[p] # None /\ ~closing[p]
  /\ closing' = [closing EXCEPT ![p] = TRUE]
  /\ UNCHANGED <<where, move, queue, made, screen>>

\* SessionManager::Cleanup ends in GameSession::OnDisconnected.
Cleanup(p) ==
  /\ closing[p]
  /\ where' = [where EXCEPT ![p] = None]
  /\ queue' = RemovePlayer(p)
  /\ move' = [move EXCEPT ![p] = Fresh]
  /\ made' = [made EXCEPT ![p] = <<>>]
  /\ screen' = [r \in Players |-> [s \in Players |-> IF p \in {r, s} THEN 0 ELSE screen[r][s]]]
  /\ closing' = [closing EXCEPT ![p] = FALSE]

----------------------------------------------------------------------------
(* Map: batches and ticks.                                                 *)

\* A queue takes actions up to its limit; a player who misses one is closed.
Queued(r, items) == FirstOf(queue[r] \o items, Limit)
Overflow(r, items) == Len(queue[r]) + Len(items) > Limit

\* The actions of a batch of player p that count, for everyone in its map.
ReceiveActions(p, visit, batch) ==
  LET done == Outcome(p, batch)
      items == [i \in DOMAIN done.took |->
                  [from |-> p, visit |-> visit, action |-> done.took[i]]]
      to == Present(where[p])
  IN  /\ move' = [move EXCEPT ![p] = done.move]
      /\ made' = [made EXCEPT ![p] = @ \o items]
      /\ queue' = [r \in Players |-> IF r \in to THEN Queued(r, items) ELSE queue[r]]
      /\ closing' = [r \in Players |-> closing[r] \/ (r \in to /\ Overflow(r, items))]

\* HandleMovementActions3D of a batch from any client.
Receive(p) ==
  /\ where[p] # None
  /\ \E visit \in 1..move[p].gen, batch \in Batches(p) :
       AcceptActionBatch(p, visit) /\ ReceiveActions(p, visit, batch)
  /\ UNCHANGED <<where, screen>>

\* One packet of the first actions for each player whose 200 ms are over
\* (the set to); a failed send loses the packet and closes the connection.
TakeFront(q) == IF Len(q) > Pack THEN SubSeq(q, Pack + 1, Len(q)) ELSE <<>>
Due(m) == {r \in Present(m) : queue[r] # <<>>}
Shown(r, s) ==
  LET front == From(FirstOf(queue[r], Pack), s)
  IN  IF front = <<>> THEN screen[r][s] ELSE front[Len(front)].action.seq
CloseFailed(failed) == [r \in Players |-> closing[r] \/ r \in failed]

Tick(m, to) ==
  /\ to # {}
  /\ \E failed \in SUBSET to :
       /\ closing' = CloseFailed(failed)
       /\ screen' = [r \in Players |-> IF r \in to \ failed
                                       THEN [s \in Players |-> Shown(r, s)] ELSE screen[r]]
  /\ queue' = [r \in Players |-> IF r \in to THEN TakeFront(queue[r]) ELSE queue[r]]
  /\ UNCHANGED <<where, move, made>>

----------------------------------------------------------------------------

Init ==
  /\ where = [p \in Players |-> None]
  /\ move = [p \in Players |-> Fresh]
  /\ queue = [p \in Players |-> <<>>]
  /\ made = [p \in Players |-> <<>>]
  /\ screen = [r \in Players |-> [s \in Players |-> 0]]
  /\ closing = [p \in Players |-> FALSE]

Next ==
  \/ \E p \in Players, m \in Maps : Enter(p, m) \/ ChangeMap(p, m)
  \/ \E p \in Players : Revive(p) \/ RequestClose(p) \/ Cleanup(p) \/ Receive(p)
  \/ \E m \in Maps : \E to \in SUBSET Due(m) : Tick(m, to)

Spec == Init /\ [][Next]_vars

----------------------------------------------------------------------------
(* Properties.                                                             *)

\* What waits for a player is exactly what the players of its map did since
\* it last heard of them, in order and once, nothing of anyone who left, and
\* nothing a client did in an earlier visit: only a connection that is being
\* closed may miss an action, and no queue grows past its limit.
Newer(q, n) == Keep(q, {item \in Item : item.action.seq > n})
RelayExact ==
  \A r \in Players :
    /\ Len(queue[r]) <= Limit
    /\ \A i \in DOMAIN queue[r] : where[r] # None /\ where[queue[r][i].from] = where[r]
    /\ \A s \in Present(where[r]) :
         /\ where[r] # None /\ ~closing[r] =>
              From(queue[r], s) = Newer(made[s], screen[r][s])
         /\ \A i \in DOMAIN made[s] : made[s][i].visit = move[s].gen

\* A player takes off with a new id only, lands only from a jump it is in,
\* and is in one jump at a time, whatever its client sends: the others
\* never see a jump in the air.
JumpsAlternate ==
  \A p \in Players : LET did == [i \in DOMAIN made[p] |-> made[p][i].action] IN
    \A j \in DOMAIN did :
      /\ did[j].kind = "Jump" =>
           \A i \in 1..(j - 1) : did[i].kind = "Jump" =>
             /\ did[i].jump < did[j].jump
             /\ \E k \in (i + 1)..(j - 1) : /\ did[k].kind \in {"Land", "Respawn"}
                                            /\ did[k].jump = did[i].jump
      /\ did[j].kind = "Land" =>
           \E i \in 1..(j - 1) : /\ did[i].kind = "Jump" /\ did[i].jump = did[j].jump
                                 /\ \A k \in (i + 1)..(j - 1) : did[k].kind = "Input"

=============================================================================
