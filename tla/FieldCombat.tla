----------------------------- MODULE FieldCombat -----------------------------
(***************************************************************************)
(* The monsters of a 3D field, the players who fight them, and what the    *)
(* clients are shown.  A basic attack hits one monster; a monster dies and *)
(* comes back; its own hits are queued for the database and change a       *)
(* player's HP when they are committed; a dead player may be revived.      *)
(* Each change of a monster has a revision.  Clients learn of it from the  *)
(* event of the attack and from snapshots, which are built once for the    *)
(* recipients of a tick, skipped for who has been sent the same, and       *)
(* repeated as a heartbeat.  A field of more than Part monsters shows each *)
(* player only those within 16 m of it.                                    *)
(*                                                                         *)
(* A connection delivers in order: what a client has been sent is what it  *)
(* shows; the event of a monster it does not show changes nothing there.   *)
(* Times are counted down by Elapse.  Walls, yaw and the reach of attacks  *)
(* (3 m) and of monsters decide whom they hit: here any of those within    *)
(* 16 m.  The record of a snapshot is kept instead of its hash.  Elsewhere *)
(* is a field whose monsters are left out.  Drops are in FieldDrops, the   *)
(* queue of a session and a trade's lock on it in TradeExchange, its rows  *)
(* in InventoryRows; HP is counted in hits, and potions are left to        *)
(* InventoryRules.                                                         *)
(***************************************************************************)
EXTENDS Naturals, FiniteSets

CONSTANTS Players, Monsters,
          Nobody,       \* no player, no monster, nothing shown yet
          Places, Home, \* where one can be, and where a monster comes back
          Within,       \* what is within 16 m of a place
          Part,         \* monsters a field shows whole (FIELD_MONSTERS_PER_PART, 32)
          Entrance,     \* where a player enters the field and is revived
          Paths,        \* bound: where each player and each monster may go
          MonsterHp,    \* 60
          Blows,        \* what a basic attack can take (20, or 25 with a weapon)
          PlayerHp,     \* hits that kill a player
          HitLimit,     \* bound: the hits each session can have waiting, of at most
                        \* the 8 a queue shared with its other requests holds and
                        \* the one applied
          Numbers,      \* bound: the numbers each client can give to attacks
          Cooldown,     \* between two swings of a player (500 ms)
          Interval,     \* between two hits of a monster (1.5 s)
          RespawnDelay, \* 5 s
          ReviveDelay,  \* 3 s
          Period,       \* between two broadcasts (200 ms)
          Heartbeat     \* an unchanged snapshot is repeated (1 s)

ASSUME CombatAssumption ==
  /\ Nobody \notin Players \cup [hp : Nat, revision : Nat, place : Places]
                    \cup [Monsters -> [hp : Nat, revision : Nat, place : Places] \cup {Nobody}]
  /\ IsFiniteSet(Monsters) /\ {Home, Entrance} \subseteq Places /\ Part \in Nat
  /\ Within \in [Places -> SUBSET Places]
  /\ Numbers \in [Players -> SUBSET Nat] /\ Paths \in [Players \cup Monsters -> SUBSET Places]
  /\ {MonsterHp, PlayerHp, Period} \subseteq Nat \ {0} /\ Blows \subseteq Nat \ {0}
  /\ HitLimit \in [Players -> Nat]
  /\ {Cooldown, Interval, RespawnDelay, ReviveDelay, Heartbeat} \subseteq Nat

VARIABLES
  monster,   \* Map::_fieldMonsters
  cache,     \* Map::_monsterRecords; Nobody when they have to be built anew
  broadcast, \* time to Map::_monsterBroadcast
  player,    \* the Player objects, with the hits and revivals their sessions queue
  view,      \* Map::_monsterViews: the last snapshot sent, Nobody before the first
  screen,    \* what each client has been sent of the monsters since it entered
  rest       \* history: time since a player's last swing, up to Cooldown

vars == <<monster, cache, broadcast, player, view, screen, rest>>

Record(m) == [hp |-> m.hp, revision |-> m.revision, place |-> m.place]
Unseen == [records |-> Nobody, heartbeat |-> 0]

Present == {p \in Players : player[p].where = "field"}
Open(p) == player[p].where # "gone" /\ ~player[p].closing
IsDead(p) == player[p].ready /\ player[p].hp = 0
CanAttack(p) == ~player[p].paused /\ player[p].ready /\ player[p].hp > 0
NotReviving(p) == player[p].reviving
FieldBusy(p) == player[p].hits > 0 \/ player[p].reviving

\* A client that cannot be sent to is closed at the next turn of the loop.
Closing(players, failing) ==
  [p \in Players |-> IF p \in failing THEN [players[p] EXCEPT !.closing = TRUE] ELSE players[p]]

-----------------------------------------------------------------------------
(* What clients are sent.                                                   *)

Current(monsters) == [m \in Monsters |-> Record(monsters[m])]
Records == IF cache # Nobody THEN cache ELSE Current(monster)

\* The monsters a player who stands at pose is sent, and Nobody for the others.
Visible(m, records, pose) ==
  Cardinality(Monsters) > Part => records[m].place \in Within[pose]
Listed(records, pose) ==
  [m \in Monsters |-> IF Visible(m, records, pose) THEN records[m] ELSE Nobody]
SeenBefore(p, list) == view[p].records # Nobody
SeenSame(p, list) == view[p].records = list /\ view[p].heartbeat > 0

\* Map::SendFieldMonsters to each of some players.
Show(recipients, lists) ==
  /\ view' = [p \in Players |-> IF p \in recipients
                THEN [records |-> lists[p], heartbeat |-> Heartbeat] ELSE view[p]]
  /\ screen' = [p \in Players |-> IF p \in recipients THEN lists[p] ELSE screen[p]]
Lists(records, players) == [p \in Players |-> Listed(records, players[p].pose)]

\* NotifyPlayerEntered: the others are told, and a snapshot is forced on p
\* unless a send to it fails.
Appear(p, players, failing) ==
  /\ player' = Closing(players, failing)
  /\ cache' = Records
  /\ IF p \in failing
     THEN /\ view' = [view EXCEPT ![p] = Unseen]
          /\ screen' = [screen EXCEPT ![p] = Nobody]
     ELSE Show({p}, Lists(Records, players))

-----------------------------------------------------------------------------
(* Map::TickFieldMonsters.                                                  *)

\* Monsters that have been dead long enough come back; the others may move
\* and may hit, in no particular order, who can be hit.
Moves == {moved \in [Monsters -> Places] :
            \A m \in Monsters : moved[m] \in Paths[m] \cup {monster[m].place}}
Nearby(p, m) == monster[m].place \in Within[player[p].pose]
Living == {m \in Monsters : monster[m].hp > 0}
Strikes ==
  {hit \in [Monsters -> Present \cup {Nobody}] :
     /\ \A m \in Monsters : hit[m] # Nobody =>
          m \in Living /\ monster[m].attack = 0 /\ CanAttack(hit[m]) /\ Nearby(hit[m], m)
     /\ \A p \in Present :
          player[p].hits + Cardinality({m \in Monsters : hit[m] = p}) <= HitLimit[p]}
LivingOnly(hit, moved) ==
  [m \in Monsters |-> IF m \in Living THEN [monster[m] EXCEPT !.place = moved[m]] ELSE monster[m]]
Simulated(hit, moved) ==
  [m \in Monsters |->
     IF m \in Living
     THEN [monster[m] EXCEPT !.place = moved[m],
                             !.attack = IF hit[m] # Nobody THEN Interval ELSE @]
     ELSE IF monster[m].respawn > 0 THEN monster[m]
     ELSE [monster[m] EXCEPT !.hp = MonsterHp, !.revision = @ + 1, !.place = Home]]
Struck(hit) ==
  [p \in Players |-> [player[p] EXCEPT !.hits = @ + Cardinality({m \in Monsters : hit[m] = p})]]

\* A tick makes the cached snapshot stale, and in a field without players it
\* does nothing else.
IdleTick ==
  /\ Present = {} /\ cache' = Nobody
  /\ UNCHANGED <<monster, broadcast, player, view, screen, rest>>

QuietTick ==
  /\ Present # {} /\ broadcast > 0
  /\ cache' = Nobody
  /\ UNCHANGED <<broadcast, view, screen, rest>>
  /\ \E hit \in Strikes, moved \in Moves :
       monster' = Simulated(hit, moved) /\ player' = Struck(hit)

\* Every 200 ms the players of the field are sent the new snapshot, unless they
\* have it, and the drops; who cannot be sent to is closed.
BroadcastTick ==
  /\ Present # {} /\ broadcast = 0
  /\ broadcast' = Period
  /\ UNCHANGED rest
  /\ \E hit \in Strikes, moved \in Moves :
       LET next == Simulated(hit, moved)
           lists == Lists(Current(next), player)
           due == {p \in Present : ~SeenSame(p, lists[p])}
       IN \E failing \in SUBSET Present :
            /\ {p \in due : player[p].closing} \subseteq failing
            /\ monster' = next
            /\ player' = Closing(Struck(hit), failing)
            /\ Show(due \ failing, lists)
            /\ cache' = Current(next)

Tick == IdleTick \/ QuietTick \/ BroadcastTick

-----------------------------------------------------------------------------
(* Map::AttackField.                                                        *)

\* Player::BeginAttack consumes a new number whether it accepts the attack or
\* not.  A number that is not new, or an attack made from another position than
\* the last accepted one, is answered and changes nothing.
AttackRefused(p, n) ==
  /\ Open(p) /\ n > player[p].last
  /\ ~CanAttack(p) \/ player[p].cooldown > 0
  /\ player' = [player EXCEPT ![p].last = n]
  /\ UNCHANGED <<monster, cache, broadcast, view, screen, rest>>

Swing(p, n) ==
  /\ Open(p) /\ n > player[p].last
  /\ CanAttack(p) /\ player[p].cooldown = 0
  /\ rest' = [rest EXCEPT ![p] = 0]
Swung(p, n) == [player EXCEPT ![p].last = n, ![p].cooldown = Cooldown]

\* It reaches no monster.
AttackMissed(p, n) ==
  /\ Swing(p, n)
  /\ \E failing \in SUBSET Present : player' = Closing(Swung(p, n), failing)
  /\ UNCHANGED <<monster, cache, broadcast, view, screen>>

HitCounted(m, blow) ==
  [monster EXCEPT ![m].hp = IF blow < @ THEN @ - blow ELSE 0,
                  ![m].revision = @ + 1,
                  ![m].respawn = IF blow < monster[m].hp THEN @ ELSE RespawnDelay]
KeepRecords == cache' = cache
Rebuild == cache' = Nobody

\* It hits m, which may die of it, and every client of the field is told.
Told(list, m, hp, revision) ==
  IF list # Nobody /\ list[m] # Nobody
  THEN [list EXCEPT ![m].hp = hp, ![m].revision = revision] ELSE list
AttackHit(p, n, m, blow) ==
  /\ Swing(p, n)
  /\ p \in Present /\ monster[m].hp > 0 /\ Nearby(p, m)
  /\ monster' = HitCounted(m, blow)
  /\ Rebuild
  /\ \E failing \in SUBSET Present :
       /\ player' = Closing(Swung(p, n), failing)
       /\ screen' = [q \in Players |->
            IF q \in Present \ failing /\ Open(q)
            THEN Told(screen[q], m, monster'[m].hp, monster'[m].revision) ELSE screen[q]]
  /\ UNCHANGED <<broadcast, view>>

-----------------------------------------------------------------------------
(* A session's hits and revivals: GameSession::FinishInventory.             *)

\* Player::SetVitals with the HP of a committed answer.
SetVitals(p, hp) ==
  [player[p] EXCEPT !.hp = hp, !.ready = TRUE,
     !.reviveIn = IF hp = 0 /\ (~player[p].ready \/ player[p].hp > 0) THEN ReviveDelay ELSE @]

\* Whom Map::SendVitals may fail to tell.
Listeners(p) == IF p \in Present THEN SUBSET Present ELSE {{}}

\* The first hit of the queue is committed, at once or when it is tried again.
HitCommitted(p) ==
  /\ Open(p) /\ player[p].hits > 0
  /\ LET hp == IF player[p].hp > 0 THEN player[p].hp - 1 ELSE 0
         hurt == [SetVitals(p, hp) EXCEPT !.paused = FALSE, !.hits = @ - 1]
     IN \E failing \in Listeners(p) : player' = Closing([player EXCEPT ![p] = hurt], failing)
  /\ UNCHANGED <<monster, cache, broadcast, view, screen, rest>>

\* It is not known to be committed: it stays the first, and its player is out
\* of the fight until it is.
Forgotten(p) == [player[p] EXCEPT !.paused = TRUE, !.ready = FALSE, !.hits = @ - 1]
PutBack(p) == [player[p] EXCEPT !.paused = TRUE, !.ready = FALSE]
HitUnanswered(p) ==
  /\ Open(p) /\ player[p].hits > 0
  /\ \E failing \in Listeners(p) :
       player' = Closing([player EXCEPT ![p] = PutBack(p)], failing)
  /\ UNCHANGED <<monster, cache, broadcast, view, screen, rest>>

\* HandleFieldRequest: a dead player asks to be revived.
ReviveRequest(p) ==
  /\ Open(p) /\ IsDead(p) /\ player[p].reviveIn = 0 /\ ~FieldBusy(p)
  /\ player' = [player EXCEPT ![p].reviving = TRUE]
  /\ UNCHANGED <<monster, cache, broadcast, view, screen, rest>>

\* It is committed: the player leaves its map and enters it again.
Revived(p) ==
  /\ Open(p) /\ player[p].reviving
  /\ LET alive == [SetVitals(p, PlayerHp) EXCEPT !.reviving = FALSE]
         back == [player EXCEPT ![p] = IF p \in Present THEN [alive EXCEPT !.pose = Entrance]
                                       ELSE alive]
     IN IF p \in Present
        THEN \E failing \in SUBSET Present : Appear(p, back, failing)
        ELSE player' = back /\ UNCHANGED <<cache, view, screen>>
  /\ UNCHANGED <<monster, broadcast, rest>>

ReviveFailed(p) ==
  /\ Open(p) /\ player[p].reviving
  /\ player' = [player EXCEPT ![p].reviving = FALSE]
  /\ UNCHANGED <<monster, cache, broadcast, view, screen, rest>>

-----------------------------------------------------------------------------
(* Map changes, disconnections, time.                                       *)

\* Map::RemovePlayer.
Removed(p) ==
  /\ view' = [view EXCEPT ![p] = Unseen]
  /\ screen' = [screen EXCEPT ![p] = Nobody]

\* HandleChangeMap lets nobody go who is dead or out of the fight; hits may
\* still be queued.  Player::BeginMap keeps the number and the cooldown.
CanChange(p) == Open(p) /\ ~IsDead(p) /\ ~player[p].paused
Rested(p) == [player EXCEPT ![p].where = "field", ![p].pose = Entrance, ![p].cooldown = 0]
BeginMap(p) == [player EXCEPT ![p].where = "field", ![p].pose = Entrance]
EnterField(p) ==
  /\ CanChange(p) /\ player[p].where = "elsewhere"
  /\ \E failing \in SUBSET (Present \cup {p}) : Appear(p, BeginMap(p), failing)
  /\ UNCHANGED <<monster, broadcast, rest>>
LeaveField(p) ==
  /\ CanChange(p) /\ p \in Present
  /\ Removed(p)
  /\ \E failing \in SUBSET (Present \ {p}) :
       player' = Closing([player EXCEPT ![p].where = "elsewhere"], failing)
  /\ UNCHANGED <<monster, cache, broadcast, rest>>

\* ReceiveActions3D: who is neither dead nor out of the fight walks.
Walk(p, pose) ==
  /\ CanChange(p) /\ p \in Present
  /\ player' = [player EXCEPT ![p].pose = pose]
  /\ UNCHANGED <<monster, cache, broadcast, view, screen, rest>>

\* The connection is over, with what its session had queued.
Gone == [where |-> "gone", pose |-> Entrance, closing |-> FALSE, last |-> 0, cooldown |-> 0, hp |-> 0,
         ready |-> FALSE, paused |-> FALSE, reviveIn |-> 0, hits |-> 0, reviving |-> FALSE]
Disconnect(p) ==
  /\ player[p].where # "gone"
  /\ Removed(p)
  /\ \E failing \in Listeners(p) :
       player' = [Closing(player, failing) EXCEPT ![p] = Gone]
  /\ rest' = [rest EXCEPT ![p] = Cooldown]
  /\ UNCHANGED <<monster, cache, broadcast>>

Less(n) == IF n > 0 THEN n - 1 ELSE 0
Elapse ==
  /\ monster' = [m \in Monsters |->
       [monster[m] EXCEPT !.respawn = Less(@), !.attack = Less(@)]]
  /\ player' = [p \in Players |->
       [player[p] EXCEPT !.cooldown = Less(@), !.reviveIn = Less(@)]]
  /\ view' = [p \in Players |-> [view[p] EXCEPT !.heartbeat = Less(@)]]
  /\ broadcast' = Less(broadcast)
  /\ rest' = [p \in Players |-> IF rest[p] < Cooldown THEN rest[p] + 1 ELSE rest[p]]
  /\ UNCHANGED <<cache, screen>>

-----------------------------------------------------------------------------

Entered == [Gone EXCEPT !.where = "elsewhere", !.hp = PlayerHp, !.ready = TRUE]
Init ==
  /\ monster = [m \in Monsters |-> [hp |-> MonsterHp, revision |-> 0, place |-> Home,
                                    respawn |-> 0, attack |-> 0]]
  /\ cache = Nobody /\ broadcast = 0
  /\ player = [p \in Players |-> Entered]
  /\ view = [p \in Players |-> Unseen] /\ screen = [p \in Players |-> Nobody]
  /\ rest = [p \in Players |-> Cooldown]

PlayerStep(p) ==
  \/ \E n \in Numbers[p] :
       \/ AttackRefused(p, n) \/ AttackMissed(p, n)
       \/ \E m \in Monsters, blow \in Blows : AttackHit(p, n, m, blow)
  \/ HitCommitted(p) \/ HitUnanswered(p)
  \/ ReviveRequest(p) \/ Revived(p) \/ ReviveFailed(p)
  \/ EnterField(p) \/ LeaveField(p) \/ Disconnect(p) \/ \E pose \in Paths[p] : Walk(p, pose)
Next == Tick \/ Elapse \/ \E p \in Players : PlayerStep(p)

Spec == Init /\ [][Next]_vars

\* Time passes and the main loop keeps ticking the maps (GameServer.cpp:203).
FairSpec == Spec /\ WF_vars(Elapse) /\ WF_vars(Tick)

-----------------------------------------------------------------------------

RecordSet == [hp : 0..MonsterHp, revision : Nat, place : Places]
Snapshots == [Monsters -> RecordSet]
ListSet == [Monsters -> RecordSet \cup {Nobody}]
MonsterSet == [hp : 0..MonsterHp, revision : Nat, place : Places, respawn : Nat, attack : Nat]
PlayerSet ==
  [where : {"field", "elsewhere", "gone"}, pose : Places, closing : BOOLEAN, last : Nat, cooldown : Nat,
   hp : 0..PlayerHp, ready : BOOLEAN, paused : BOOLEAN, reviveIn : Nat, hits : Nat,
   reviving : BOOLEAN]

\* Every variable has its type.
TypeOK ==
  /\ monster \in [Monsters -> MonsterSet]
  /\ cache \in Snapshots \cup {Nobody}
  /\ broadcast \in Nat
  /\ player \in [Players -> PlayerSet]
  /\ view \in [Players -> [records : ListSet \cup {Nobody}, heartbeat : Nat]]
  /\ screen \in [Players -> ListSet \cup {Nobody}]
  /\ rest \in [Players -> 0..Cooldown]

Showing(list, m) == list # Nobody /\ list[m] # Nobody

\* What a client shows never goes back: after the event of an attack no
\* snapshot taken before it is sent, and one revision of a monster never has
\* two HPs (FieldMonsters.cpp:253).
NeverBack ==
  [][\A p \in Players, m \in Monsters :
       Showing(screen[p], m) /\ Showing(screen'[p], m) =>
         /\ screen'[p][m].revision >= screen[p][m].revision
         /\ screen'[p][m].revision = screen[p][m].revision =>
              screen'[p][m].hp = screen[p][m].hp]_vars

\* A broadcast leaves nobody behind: whoever is in the field and not being
\* closed shows the monsters in its sight, and no others, as they are, sent
\* the snapshot now or passed over because it was sent the same before
\* (FieldMonsters.cpp:80).  In sight are all monsters of the field, or those
\* within 16 m where there are more than fit in one part.
InSight(p, m) == Cardinality(Monsters) <= Part \/ monster'[m].place \in Within[player'[p].pose]
BroadcastShowsAll ==
  [][broadcast' > broadcast =>
       \A p \in Present : ~player'[p].closing =>
         \A m \in Monsters :
           screen'[p][m] = IF InSight(p, m) THEN Record(monster'[m]) ELSE Nobody]_vars

\* A player swings no more often than the cooldown allows, whatever maps it
\* changes to and however it is revived in between (Player.h:82).
SwingsSpaced ==
  \A p \in Players : player[p].where # "gone" /\ player[p].cooldown = 0 => rest[p] = Cooldown

\* A revival is never queued with a hit: none dealt before the death takes HP
\* off the revived player, and no monster hits whoever is about to be revived
\* (GamePacketHandler.cpp:69, GameSession.cpp:96).
ReviveIsAlone ==
  \A p \in Players : player[p].reviving => player[p].hits = 0 /\ IsDead(p)

\* Who is out of the fight waits for a hit that is still queued: nobody is out
\* of it for good (GameSession.cpp:131).
PausedHasHit ==
  \A p \in Players : player[p].paused => player[p].hits > 0

\* A dead monster comes back, unless its field is left by everybody
\* (FieldMonsters.cpp:133).
MonsterReturns ==
  \A m \in Monsters : monster[m].hp = 0 ~> (monster[m].hp > 0 \/ Present = {})
=============================================================================
