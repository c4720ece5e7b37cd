------------------------------ MODULE GameEntry ------------------------------
(***************************************************************************)
(* How a player gets into the game, moves between its maps and leaves it.  *)
(*                                                                         *)
(* The login server issues a random one-time key, registers it with the    *)
(* game server as a ticket and hands it to the client only when the game   *)
(* server has confirmed it.  The client presents the key on a connection   *)
(* of its own, the character is loaded by the database thread, and the     *)
(* player is entered in PlayerManager and in a Map.  A connection may end  *)
(* at any point of this, and so may the game server's process.             *)
(*                                                                         *)
(* Keys are random 64-bit numbers: none is issued twice and nobody guesses *)
(* one.  A map here is a map on one channel; the maps of the other kind    *)
(* (2D or 3D) than the client's are never entered by it and left out.      *)
(***************************************************************************)
EXTENDS Naturals

CONSTANTS Characters, Accounts,
          Owner,       \* the account of each character
          Sessions,    \* connections of game clients, reused once closed
          Keys,        \* authKeys, each issued at most once
          Maps, Start, \* the maps, and the one a player enters first
          None

ASSUME EntryAssumption ==
  /\ Owner \in [Characters -> Accounts]
  /\ Start \in Maps
  /\ None \notin Characters \cup Sessions \cup Keys \cup Maps

VARIABLES
  issued,  \* login server: the character each authKey was generated for
  asking,  \* login server: the key whose registration it is blocked on
  given,   \* keys sent to their clients
  ticket,  \* game server: "gone" is a ticket that was there and was removed
  uses,    \* history: how often a key was consumed
  game     \* game server: its sessions, its PlayerManager and its Maps

vars == <<issued, asking, given, ticket, uses, game>>

\* A connection and the Player it owns.  seen is what the server has told the
\* client about the other players since its last MapInfo.
Closed == [open |-> FALSE, closing |-> FALSE, key |-> None, load |-> "none",
           player |-> None, map |-> None, seen |-> {}]
Opened == [Closed EXCEPT !.open = TRUE]

EmptyGame ==
  [session |-> [s \in Sessions |-> Closed],
   byCharacter |-> [c \in Characters |-> None],
   byAccount |-> [a \in Accounts |-> None],
   members |-> [m \in Maps |-> [c \in Characters |-> None]]]

Connected(g, s) == g.session[s].open /\ ~g.session[s].closing
Playing(g, s) == g.session[s].player # None

-----------------------------------------------------------------------------
(* Maps and PlayerManager.                                                  *)

\* Which sends of a handler fail, and, when sends to the player who enters
\* fail, to whom of the others it was announced before.
Outcomes(s) ==
  {o \in [failing : SUBSET Sessions, reached : SUBSET Sessions] :
     s \notin o.failing => o.reached = Sessions}

\* The other players of s's map.
Others(g, s) ==
  {g.members[g.session[s].map][c] : c \in Characters} \ {s, None}

NotifyPlayerLeaving(g, s, failing) ==
  [g EXCEPT !.session =
     [t \in Sessions |->
        IF t \notin Others(g, s) THEN g.session[t]
        ELSE IF Connected(g, t) /\ t \notin failing
        THEN [g.session[t] EXCEPT !.seen = @ \ {g.session[s].player}]
        ELSE [g.session[t] EXCEPT !.closing = TRUE]]]

\* A newcomer who is only shown the others.
NotifyNewcomer(g, s, o) ==
  LET met == {t \in Others(g, s) \cap o.reached : Connected(g, t)}
  IN [g EXCEPT !.session[s].seen = @ \cup {g.session[u].player : u \in met}]

NotifyPlayerEntered(g, s, o) ==
  LET met == {t \in Others(g, s) \cap o.reached : Connected(g, t)}
  IN [g EXCEPT !.session =
        [t \in Sessions |->
           IF t = s THEN [g.session[t] EXCEPT !.seen = @ \cup {g.session[u].player : u \in met}]
           ELSE IF t \notin met THEN g.session[t]
           ELSE IF t \in o.failing THEN [g.session[t] EXCEPT !.closing = TRUE]
           ELSE [g.session[t] EXCEPT !.seen = @ \cup {g.session[s].player}]]]

\* Map::AddPlayer and RemovePlayer.
CanAdd(g, s, m) ==
  g.members[m][g.session[s].player] = None /\ g.session[s].map = None
AddPlayer(g, s, m) ==
  [g EXCEPT !.members[m][g.session[s].player] = s, !.session[s].map = m]
RemovePlayer(g, s) ==
  LET c == g.session[s].player
      m == g.session[s].map
  IN IF g.members[m][c] # s THEN g
     ELSE [g EXCEPT !.members[m][c] = None, !.session[s].map = None]

\* PlayerManager::Add and Remove; the account of an entry need not be free when
\* its character is.
Registrable(g, c) == g.byCharacter[c] = None /\ g.byAccount[Owner[c]] = None
Register(g, s, c) ==
  [g EXCEPT !.byCharacter[c] = s, !.byAccount[Owner[c]] = s, !.session[s].player = c]
UnregisterCharacter(g, s) ==
  LET c == g.session[s].player
  IN [g EXCEPT !.byCharacter[c] = IF @ = s THEN None ELSE @]
Unregister(g, s) ==
  LET c == g.session[s].player
  IN [g EXCEPT !.byCharacter[c] = IF @ = s THEN None ELSE @,
               !.byAccount[Owner[c]] = IF @ = s THEN None ELSE @]

-----------------------------------------------------------------------------
(* Leaving, and what may follow an entry.                                   *)

\* The player leaves its map and PlayerManager.
Leave(g, s, failing) ==
  LET left == RemovePlayer(NotifyPlayerLeaving(g, s, failing), s)
  IN IF ~Playing(g, s) THEN g
     ELSE Unregister(IF g.session[s].map = None THEN g ELSE left, s)

\* GameSession::OnDisconnected: the load is abandoned and the session is over.
OnDisconnected(g, s, failing) == [Leave(g, s, failing) EXCEPT !.session[s] = Closed]
Close(g, s, failing) == OnDisconnected([g EXCEPT !.session[s].closing = TRUE], s, failing)

\* MapInfo, geometry and NotifyPlayerEntered; a handler that cannot send to its
\* own client ends the connection.
Arrive(g, s, o) ==
  LET shown == NotifyPlayerEntered([g EXCEPT !.session[s].seen = {}], s, o)
  IN IF s \in o.failing THEN Close(shown, s, o.failing) ELSE shown

\* A map change, a channel change or a revival.  AddPlayer cannot fail: the
\* character is not in the new map and the player has just left the old one.
ChangeTo(g, s, m, o) ==
  Arrive(AddPlayer(RemovePlayer(NotifyPlayerLeaving(g, s, o.failing), s), s, m), s, o)

\* CompleteEnterGame for a character that was loaded.  A name that cannot be copied,
\* or an answer or a map that cannot be sent, ends the connection before anybody was
\* told of the player: s is failing and nobody reached.
CompleteEnterGame(g, s, c, o) ==
  LET idle == [g EXCEPT !.session[s].load = "none"]
      known == Register(idle, s, c)
  IN IF ~Registrable(g, c) THEN idle
     ELSE IF ~CanAdd(known, s, Start) THEN [Unregister(known, s) EXCEPT !.session[s].player = None]
     ELSE Arrive(AddPlayer(known, s, Start), s, o)
-----------------------------------------------------------------------------
(* The login server: one IOCP thread, blocked while it registers a ticket.  *)

\* HandleCharacterSelect: the owner of the character asked for it.
CharacterSelect(k, c) ==
  /\ asking = None /\ issued[k] = None
  /\ issued' = [issued EXCEPT ![k] = c]
  /\ asking' = k
  /\ UNCHANGED <<given, ticket, uses, game>>

\* RegisterAuthTicket succeeded: the answer is back within the time allowed.
SelectAnswered ==
  /\ asking # None /\ ticket[asking] # "none"
  /\ given' = given \cup {asking}
  /\ asking' = None
  /\ UNCHANGED <<issued, ticket, uses, game>>

\* It failed or timed out, whatever the game server does with the request.
SelectFailed ==
  /\ asking # None
  /\ asking' = None
  /\ UNCHANGED <<issued, given, ticket, uses, game>>

-----------------------------------------------------------------------------
(* The game server's tickets.                                               *)

\* The request of the login server arrives, perhaps after it has given up.
RegisterAuthTicket(k) ==
  /\ issued[k] # None /\ ticket[k] = "none"
  /\ ticket' = [ticket EXCEPT ![k] = "live"]
  /\ UNCHANGED <<issued, asking, given, uses, game>>

\* Thirty seconds have passed.
Expire(k) ==
  /\ ticket[k] = "live"
  /\ ticket' = [ticket EXCEPT ![k] = "expired"]
  /\ UNCHANGED <<issued, asking, given, uses, game>>

CleanupExpired ==
  /\ \E k \in Keys : ticket[k] = "expired"
  /\ ticket' = [k \in Keys |-> IF ticket[k] = "expired" THEN "gone" ELSE ticket[k]]
  /\ UNCHANGED <<issued, asking, given, uses, game>>

Lookup(k) ==
  /\ ticket' = [ticket EXCEPT ![k] = IF @ = "expired" THEN "gone" ELSE @]
  /\ uses' = [uses EXCEPT ![k] = IF ticket[k] = "live" /\ @ < 2 THEN @ + 1 ELSE @]

\* Consume removes what it finds, and a live ticket is used.
Consume(k) ==
  /\ ticket' = [ticket EXCEPT ![k] = IF @ \in {"live", "expired"} THEN "gone" ELSE @]
  /\ uses' = [uses EXCEPT ![k] = IF ticket[k] = "live" THEN @ + 1 ELSE @]

-----------------------------------------------------------------------------
(* The game server's connections.                                           *)

Connect(s) ==
  /\ ~game.session[s].open
  /\ game' = [game EXCEPT !.session[s] = Opened]
  /\ UNCHANGED <<issued, asking, given, ticket, uses>>

\* HandleEnterGame with a key some client was given, of a connection that is
\* neither in the game nor loading.  A full database queue costs the ticket.
EnterGame(s, k) ==
  /\ Connected(game, s) /\ ~Playing(game, s) /\ game.session[s].load = "none"
  /\ k \in given /\ ticket[k] # "none"
  /\ Consume(k)
  /\ \/ /\ ticket[k] = "live"
        /\ game' = [game EXCEPT !.session[s].load = "asked", !.session[s].key = k]
     \/ UNCHANGED game
  /\ UNCHANGED <<issued, asking, given>>

\* The database thread answers a load, whoever still waits for it.
FindById(s) ==
  /\ game.session[s].load = "asked"
  /\ \E result \in {"Success", "Error"} :
       game' = [game EXCEPT !.session[s].load = result]
  /\ UNCHANGED <<issued, asking, given, ticket, uses>>

\* Update finds the answer of the load.
LoadFailed(s) ==
  /\ Connected(game, s) /\ game.session[s].load = "Error"
  /\ game' = [game EXCEPT !.session[s].load = "none"]
  /\ UNCHANGED <<issued, asking, given, ticket, uses>>
LoadSucceeded(s) ==
  /\ Connected(game, s) /\ game.session[s].load = "Success"
  /\ \E o \in Outcomes(s) :
       game' = CompleteEnterGame(game, s, issued[game.session[s].key], o)
  /\ UNCHANGED <<issued, asking, given, ticket, uses>>

NoDeadline(s) == FALSE /\ UNCHANGED vars
\* Update finds the load five seconds old, and Cleanup closes the session.
LoadTimeout(s) ==
  /\ Connected(game, s) /\ game.session[s].load # "none"
  /\ \E failing \in SUBSET Sessions : game' = Close(game, s, failing)
  /\ UNCHANGED <<issued, asking, given, ticket, uses>>

\* HandleChangeMap, a channel change, and, in its own map, a revival.
ChangeMap(s, m) ==
  /\ Connected(game, s) /\ Playing(game, s)
  /\ m = game.session[s].map \/ game.members[m][game.session[s].player] = None
  /\ \E o \in Outcomes(s) : game' = ChangeTo(game, s, m, o)
  /\ UNCHANGED <<issued, asking, given, ticket, uses>>

\* Something else asks for the connection to be closed: a full send queue, a
\* movement queue at its limit, a recovery that took too long.
RequestClose(s) ==
  /\ Connected(game, s)
  /\ game' = [game EXCEPT !.session[s].closing = TRUE]
  /\ UNCHANGED <<issued, asking, given, ticket, uses>>

\* Cleanup closes it; or the client went away, or sent what is not accepted.
Disconnect(s) ==
  /\ game.session[s].open
  /\ \E failing \in SUBSET Sessions : game' = Close(game, s, failing)
  /\ UNCHANGED <<issued, asking, given, ticket, uses>>

\* The game server's process ends and is started again.
Restart ==
  /\ game # EmptyGame
  /\ game' = EmptyGame
  /\ ticket' = [k \in Keys |-> IF ticket[k] = "none" THEN "none" ELSE "gone"]
  /\ UNCHANGED <<issued, asking, given, uses>>
-----------------------------------------------------------------------------

Init ==
  /\ issued = [k \in Keys |-> None] /\ asking = None /\ given = {}
  /\ ticket = [k \in Keys |-> "none"] /\ uses = [k \in Keys |-> 0]
  /\ game = EmptyGame

Step ==
  \/ \E k \in Keys :
       \/ \E c \in Characters : CharacterSelect(k, c)
       \/ RegisterAuthTicket(k) \/ Expire(k)
  \/ SelectAnswered \/ SelectFailed \/ CleanupExpired
  \/ \E s \in Sessions :
       \/ Connect(s) \/ FindById(s) \/ LoadFailed(s) \/ LoadSucceeded(s)
       \/ LoadTimeout(s) \/ RequestClose(s) \/ Disconnect(s)
       \/ \E k \in Keys : EnterGame(s, k)
       \/ \E m \in Maps : ChangeMap(s, m)
Next == Step \/ Restart

Spec == Init /\ [][Next]_vars

\* Time passes and the main loop keeps turning: deadlines are noticed and
\* sessions asked to close are closed.  Nothing is assumed of the database, the
\* login server or the clients.
Fairness ==
  \A s \in Sessions :
    /\ WF_vars(LoadTimeout(s))
    /\ WF_vars(game.session[s].closing /\ Disconnect(s))
FairSpec == Spec /\ Fairness

-----------------------------------------------------------------------------

Session ==
  [open : BOOLEAN, closing : BOOLEAN, key : Keys \cup {None},
   load : {"none", "asked", "Success", "Error"},
   player : Characters \cup {None}, map : Maps \cup {None}, seen : SUBSET Characters]
Game ==
  [session : [Sessions -> Session],
   byCharacter : [Characters -> Sessions \cup {None}],
   byAccount : [Accounts -> Sessions \cup {None}],
   members : [Maps -> [Characters -> Sessions \cup {None}]]]

\* Every variable has its type, and a connection that loads or plays has a
\* ticket's key and is open (GameSession.cpp:184).
TypeOK ==
  /\ issued \in [Keys -> Characters \cup {None}]
  /\ asking \in Keys \cup {None} /\ given \subseteq Keys
  /\ ticket \in [Keys -> {"none", "live", "expired", "gone"}]
  /\ uses \in [Keys -> 0..2]
  /\ game \in Game
  /\ \A s \in Sessions :
       LET p == game.session[s]
       IN p.load # "none" \/ p.player # None =>
            p.open /\ p.key # None /\ issued[p.key] # None

\* PlayerManager and the Maps hold exactly the players of the open sessions:
\* no character or account is in the game twice, whatever tickets it had, a
\* player is in one map and no other, and whoever left can enter again
\* (PlayerManager.cpp:9, GameSession.cpp:199).
IndexesAgree ==
  \A s \in Sessions :
    /\ Playing(game, s) => game.session[s].open /\ game.session[s].map # None
    /\ \A c \in Characters :
         /\ game.byCharacter[c] = s <=> game.session[s].player = c
         /\ \A m \in Maps :
              game.members[m][c] = s <=>
                game.session[s].player = c /\ game.session[s].map = m
    /\ \A a \in Accounts :
         game.byAccount[a] = s <=> Playing(game, s) /\ Owner[game.session[s].player] = a

\* A key opens the game once, for the character it was issued for, however many
\* connections present it and however late (AuthTicketManager.cpp:13), and a
\* client is given no key the game server has had no ticket for
\* (LoginPacketHandler.cpp:211).
KeysSpentOnce ==
  /\ \A k \in Keys : uses[k] <= 1
  /\ \A s \in Sessions : Playing(game, s) =>
       /\ uses[game.session[s].key] = 1
       /\ issued[game.session[s].key] = game.session[s].player
  /\ \A k \in given : ticket[k] # "none"

\* Between completions a connected client has been shown every connected player
\* of its map, and nobody who is not there: joins, leaves, map changes and
\* failing sends leave no ghost and no player unseen (Map.cpp:261).
PresenceAgrees ==
  \A s \in Sessions : Connected(game, s) /\ Playing(game, s) =>
    LET here == Others(game, s)
    IN /\ {game.session[t].player : t \in {u \in here : Connected(game, u)}}
            \subseteq game.session[s].seen
       /\ game.session[s].seen \subseteq {game.session[t].player : t \in here}

\* An entry is decided: a connection does not load for ever, even if the
\* database never answers (GameSession.cpp:46).
EntrySettles ==
  \A s \in Sessions : game.session[s].load # "none" ~> game.session[s].load = "none"
=============================================================================
