--------------------------- MODULE GameEntry_proofs ---------------------------
(***************************************************************************)
(* Entering the game, being there and talking, for all characters,         *)
(* sessions, maps, keys, capacities and costs.                             *)
(*                                                                         *)
(* The handlers of the game server are functions of its state, composed of *)
(* a few updates of Map and PlayerManager.  Sound says of any such state   *)
(* that the indexes and the sessions say the same and that who loads or    *)
(* plays has spent its key; each update keeps it, and so does each         *)
(* handler.  Only in the middle of a handler is a player in no map, or     *)
(* shown to some and not to others (Around); when it ends, the clients     *)
(* show who is there (Presence).  Chat's steps close connections and fill  *)
(* buckets; whatever holds of the games of GameEntry holds while players   *)
(* talk.                                                                   *)
(***************************************************************************)
EXTENDS Chat, TLAPS

Indexed(g) ==
  /\ \A s \in Sessions, c \in Characters :
       g.byCharacter[c] = s <=> g.session[s].player = c
  /\ \A s \in Sessions, c \in Characters, m \in Maps :
       g.members[m][c] = s <=> g.session[s].player = c /\ g.session[s].map = m
  /\ \A s \in Sessions, a \in Accounts :
       g.byAccount[a] = s <=> g.session[s].player # None /\ Owner[g.session[s].player] = a

\* A connection that loads or plays has spent a key, and plays what it is for;
\* it does not do both.
SpentKey(p) ==
  /\ p.open /\ p.key \in Keys /\ issued[p.key] # None /\ uses[p.key] = 1
  /\ p.player # None => issued[p.key] = p.player
Seated(p) ==
  /\ p.player = None => p.map = None
  /\ p.player # None => p.load = "none"
  /\ p.load # "none" \/ p.player # None => SpentKey(p)

Sound(g) == g \in Game /\ Indexed(g) /\ \A s \in Sessions : Seated(g.session[s])
Lodged(g, s) == g.session[s].player # None => g.session[s].map # None
AllLodged(g) == \A s \in Sessions : Lodged(g, s)

-----------------------------------------------------------------------------
(* Updates that move nobody.                                                *)

SameSeat(p, q) ==
  /\ q.open = p.open /\ q.key = p.key /\ q.load = p.load
  /\ q.player = p.player /\ q.map = p.map
SameSeats(g, h) ==
  /\ h \in Game
  /\ h.byCharacter = g.byCharacter /\ h.byAccount = g.byAccount /\ h.members = g.members
  /\ \A t \in Sessions : SameSeat(g.session[t], h.session[t])

LEMMA SameSound ==
  ASSUME NEW g, Sound(g), NEW h, SameSeats(g, h)
  PROVE  Sound(h) /\ \A s \in Sessions : Lodged(g, s) => Lodged(h, s)
<1>1. Indexed(h)
  BY DEF Sound, SameSeats, Indexed, SameSeat
<1>2. \A s \in Sessions : Seated(h.session[s])
  BY DEF Sound, SameSeats, SameSeat, Seated, SpentKey
<1> QED BY <1>1, <1>2 DEF Sound, SameSeats, SameSeat, Lodged

\* A state of which only the sessions change.
LEMMA SessionsOnly ==
  ASSUME NEW g \in Game, NEW f \in [Sessions -> Session],
         \A t \in Sessions : SameSeat(g.session[t], f[t])
  PROVE  SameSeats(g, [g EXCEPT !.session = f])
BY DEF Game, SameSeats

LEMMA ClosingSeat ==
  ASSUME NEW p \in Session
  PROVE  /\ [p EXCEPT !.closing = TRUE] \in Session
         /\ SameSeat(p, [p EXCEPT !.closing = TRUE])
BY DEF Session, SameSeat

LEMMA SeenSeat ==
  ASSUME NEW p \in Session, NEW seen \in SUBSET Characters
  PROVE  /\ [p EXCEPT !.seen = seen] \in Session
         /\ SameSeat(p, [p EXCEPT !.seen = seen])
BY DEF Session, SameSeat

LEMMA LeavingSeats ==
  ASSUME NEW g \in Game, NEW s \in Sessions, NEW F
  PROVE  SameSeats(g, NotifyPlayerLeaving(g, s, F))
<1> DEFINE f == [t \in Sessions |->
                   IF t \notin Others(g, s) THEN g.session[t]
                   ELSE IF Connected(g, t) /\ t \notin F
                   THEN [g.session[t] EXCEPT !.seen = @ \ {g.session[s].player}]
                   ELSE [g.session[t] EXCEPT !.closing = TRUE]]
<1>1. ASSUME NEW t \in Sessions
      PROVE  f[t] \in Session /\ SameSeat(g.session[t], f[t])
  <2>1. g.session[t] \in Session /\ g.session[t].seen \in SUBSET Characters
    BY DEF Game, Session
  <2>2. CASE t \notin Others(g, s)
    BY <2>1, <2>2 DEF SameSeat
  <2>3. CASE t \in Others(g, s) /\ Connected(g, t) /\ t \notin F
    BY <2>1, <2>3, SeenSeat
  <2>4. CASE t \in Others(g, s) /\ ~(Connected(g, t) /\ t \notin F)
    BY <2>1, <2>4, ClosingSeat
  <2> QED BY <2>2, <2>3, <2>4
<1>2. f \in [Sessions -> Session]
  BY <1>1
<1>3. NotifyPlayerLeaving(g, s, F) = [g EXCEPT !.session = f]
  BY DEF NotifyPlayerLeaving, Game
<1> HIDE DEF f
<1> QED BY <1>1, <1>2, <1>3, SessionsOnly

LEMMA EnteredSeats ==
  ASSUME NEW g, Sound(g), NEW s \in Sessions, g.session[s].map # None,
         NEW o \in Outcomes(s)
  PROVE  SameSeats(g, NotifyPlayerEntered(g, s, o))
<1> DEFINE met == {t \in Others(g, s) \cap o.reached : Connected(g, t)}
           f == [t \in Sessions |->
                   IF t = s
                   THEN [g.session[t] EXCEPT !.seen = @ \cup {g.session[u].player : u \in met}]
                   ELSE IF t \notin met THEN g.session[t]
                   ELSE IF t \in o.failing THEN [g.session[t] EXCEPT !.closing = TRUE]
                   ELSE [g.session[t] EXCEPT !.seen = @ \cup {g.session[s].player}]]
<1>1. g \in Game /\ g.session[s].map \in Maps /\ g.session[s].player \in Characters
  BY DEF Sound, Game, Session, Seated
<1>2. \A u \in met : g.session[u].player \in Characters
  <2>1. \A u \in met : u \in Sessions /\ \E c \in Characters : g.members[g.session[s].map][c] = u
    BY <1>1, EntryAssumption DEF Others, Game, EntryAssumption
  <2> QED BY <1>1, <2>1 DEF Sound, Indexed
<1>3. ASSUME NEW t \in Sessions
      PROVE  f[t] \in Session /\ SameSeat(g.session[t], f[t])
  <2>1. g.session[t] \in Session /\ g.session[t].seen \in SUBSET Characters
    BY <1>1 DEF Game, Session
  <2>2. CASE t = s
    <3>1. g.session[t].seen \cup {g.session[u].player : u \in met} \in SUBSET Characters
      BY <1>2, <2>1
    <3> HIDE DEF met
    <3> QED BY <2>1, <2>2, <3>1, SeenSeat
  <2>3. CASE t # s /\ t \notin met
    BY <2>1, <2>3 DEF SameSeat
  <2>4. CASE t # s /\ t \in met /\ t \in o.failing
    BY <2>1, <2>4, ClosingSeat
  <2>5. CASE t # s /\ t \in met /\ t \notin o.failing
    <3>1. g.session[t].seen \cup {g.session[s].player} \in SUBSET Characters
      BY <1>1, <2>1
    <3> HIDE DEF met
    <3> QED BY <2>1, <2>5, <3>1, SeenSeat
  <2> QED BY <2>2, <2>3, <2>4, <2>5
<1>4. f \in [Sessions -> Session]
  BY <1>3
<1>5. NotifyPlayerEntered(g, s, o) = [g EXCEPT !.session = f]
  BY <1>1 DEF NotifyPlayerEntered, Game
<1> HIDE DEF f
<1> QED BY <1>1, <1>3, <1>4, <1>5, SessionsOnly

-----------------------------------------------------------------------------
(* Map and PlayerManager.                                                   *)

\* What the types say of one session.
LEMMA SeatTypes ==
  ASSUME NEW g, Sound(g), NEW s \in Sessions
  PROVE  /\ g.session[s] \in Session
         /\ g.session[s].player \in Characters \cup {None}
         /\ g.session[s].map \in Maps \cup {None}
         /\ g.session[s].player # None => g.session[s].player \in Characters
         /\ g.session[s].map # None =>
              g.session[s].map \in Maps /\ g.session[s].player \in Characters
         /\ None \notin Characters /\ None \notin Sessions /\ None \notin Maps
BY EntryAssumption DEF Sound, Game, Session, Seated, EntryAssumption

LEMMA MapSeat ==
  ASSUME NEW p \in Session, NEW m \in Maps \cup {None}
  PROVE  LET q == [p EXCEPT !.map = m] IN
         /\ q \in Session /\ q.map = m
         /\ q.open = p.open /\ q.key = p.key /\ q.load = p.load /\ q.player = p.player
BY DEF Session

LEMMA AddSound ==
  ASSUME NEW g, Sound(g), NEW s \in Sessions, NEW m \in Maps,
         g.session[s].player \in Characters, g.session[s].map = None
  PROVE  LET h == AddPlayer(g, s, m) IN
         /\ Sound(h) /\ h.session[s].map = m
         /\ \A t \in Sessions : Lodged(g, t) => Lodged(h, t)
         /\ Lodged(h, s)
<1> DEFINE h == AddPlayer(g, s, m)
           c == g.session[s].player
<1> SUFFICES Sound(h) /\ h.session[s].map = m /\ \A t \in Sessions : Lodged(g, t) \/ t = s => Lodged(h, t)
  OBVIOUS
<1>1. g \in Game /\ Indexed(g)
  BY DEF Sound
<1>2. /\ h.session = [g.session EXCEPT ![s].map = m]
      /\ h.members = [g.members EXCEPT ![m][c] = s]
  BY <1>1 DEF AddPlayer, Game
<1>3. h.byCharacter = g.byCharacter /\ h.byAccount = g.byAccount
  BY <1>1 DEF AddPlayer, Game
<1>4. /\ h.session \in [Sessions -> Session]
      /\ h.session[s].player = c /\ h.session[s].map = m
      /\ h.session[s].open = g.session[s].open /\ h.session[s].key = g.session[s].key
      /\ h.session[s].load = g.session[s].load
      /\ \A t \in Sessions \ {s} : h.session[t] = g.session[t]
  <2>1. /\ g.session \in [Sessions -> Session]
        /\ h.session = [g.session EXCEPT ![s] = [g.session[s] EXCEPT !.map = m]]
    BY <1>1, <1>2 DEF Game
  <2> HIDE DEF h
  <2>2. [g.session[s] EXCEPT !.map = m] \in Session
    BY <2>1, MapSeat
  <2>3. h.session[s] = [g.session[s] EXCEPT !.map = m]
    BY <2>1
  <2> QED BY <2>1, <2>2, <2>3, MapSeat
<1>5. h.members \in [Maps -> [Characters -> Sessions \cup {None}]]
  BY <1>1, <1>2 DEF Game
<1>6. h \in Game
  BY <1>1, <1>4, <1>5 DEF AddPlayer, Game
<1> HIDE DEF h
<1>7. ASSUME NEW t \in Sessions, NEW d \in Characters, NEW k \in Maps
      PROVE  h.members[k][d] = t <=> h.session[t].player = d /\ h.session[t].map = k
  <2>1. g.members[k][d] = t <=> g.session[t].player = d /\ g.session[t].map = k
    BY <1>1 DEF Indexed
  <2>2. g.session[t].player = c => t = s
    BY <1>1 DEF Indexed
  <2>3. g.session[s].map # k
    BY SeatTypes
  <2>4. h.members[k][d] = IF k = m /\ d = c THEN s ELSE g.members[k][d]
    BY <1>1, <1>2 DEF Game
  <2> QED BY <1>4, <2>1, <2>2, <2>3, <2>4
<1>8. Indexed(h)
  BY <1>1, <1>3, <1>4, <1>7 DEF Indexed
<1>9. \A t \in Sessions : Seated(h.session[t])
  BY <1>4, SeatTypes DEF Sound, Seated, SpentKey
<1> QED BY <1>4, <1>6, <1>8, <1>9, SeatTypes DEF Sound, Lodged

LEMMA AddOthers ==
  ASSUME NEW g \in Game, NEW s \in Sessions, NEW m \in Maps
  PROVE  \A t \in Sessions \ {s} : AddPlayer(g, s, m).session[t] = g.session[t]
BY DEF AddPlayer, Game

LEMMA RemoveSound ==
  ASSUME NEW g, Sound(g), NEW s \in Sessions, g.session[s].map # None
  PROVE  LET h == RemovePlayer(g, s) IN
         /\ Sound(h) /\ h.session[s].map = None
         /\ h.session[s].player = g.session[s].player
         /\ \A t \in Sessions \ {s} : h.session[t] = g.session[t]
<1> DEFINE h == RemovePlayer(g, s)
           c == g.session[s].player
           m == g.session[s].map
<1> SUFFICES /\ Sound(h) /\ h.session[s].map = None
             /\ h.session[s].player = g.session[s].player
             /\ \A t \in Sessions \ {s} : h.session[t] = g.session[t]
  OBVIOUS
<1>1. g \in Game /\ Indexed(g) /\ c \in Characters /\ m \in Maps /\ g.members[m][c] = s
  BY SeatTypes DEF Sound, Indexed
<1>2. h = [g EXCEPT !.members[m][c] = None, !.session[s].map = None]
  BY <1>1 DEF RemovePlayer
<1>3. /\ h.session = [g.session EXCEPT ![s].map = None]
      /\ h.members = [g.members EXCEPT ![m][c] = None]
  BY <1>1, <1>2 DEF Game
<1>4. h.byCharacter = g.byCharacter /\ h.byAccount = g.byAccount
  BY <1>1, <1>2 DEF Game
<1>5. /\ h.session \in [Sessions -> Session]
      /\ h.session[s].player = c /\ h.session[s].map = None
      /\ h.session[s].open = g.session[s].open /\ h.session[s].key = g.session[s].key
      /\ h.session[s].load = g.session[s].load
      /\ \A t \in Sessions \ {s} : h.session[t] = g.session[t]
  <2>1. /\ g.session \in [Sessions -> Session]
        /\ h.session = [g.session EXCEPT ![s] = [g.session[s] EXCEPT !.map = None]]
    BY <1>1, <1>3 DEF Game
  <2> HIDE DEF h
  <2>2. [g.session[s] EXCEPT !.map = None] \in Session
    BY <2>1, MapSeat
  <2>3. h.session[s] = [g.session[s] EXCEPT !.map = None]
    BY <2>1
  <2> QED BY <2>1, <2>2, <2>3, MapSeat
<1>6. h.members \in [Maps -> [Characters -> Sessions \cup {None}]]
  BY <1>1, <1>3 DEF Game
<1>7. h \in Game
  BY <1>1, <1>2, <1>5, <1>6 DEF Game
<1> HIDE DEF h
<1>8. ASSUME NEW t \in Sessions, NEW d \in Characters, NEW k \in Maps
      PROVE  h.members[k][d] = t <=> h.session[t].player = d /\ h.session[t].map = k
  <2>1. g.members[k][d] = t <=> g.session[t].player = d /\ g.session[t].map = k
    BY <1>1 DEF Indexed
  <2>2. g.session[t].player = c => t = s
    BY <1>1 DEF Indexed
  <2>3. k # None /\ t # None
    BY SeatTypes
  <2>4. h.members[k][d] = IF k = m /\ d = c THEN None ELSE g.members[k][d]
    BY <1>1, <1>3 DEF Game
  <2> QED BY <1>5, <2>1, <2>2, <2>3, <2>4
<1>9. Indexed(h)
  BY <1>1, <1>4, <1>5, <1>8 DEF Indexed
<1>10. \A t \in Sessions : Seated(h.session[t])
  BY <1>5 DEF Sound, Seated, SpentKey
<1> QED BY <1>5, <1>7, <1>9, <1>10 DEF Sound

LEMMA PlayerSeat ==
  ASSUME NEW p \in Session, NEW c \in Characters
  PROVE  LET q == [p EXCEPT !.player = c] IN
         /\ q \in Session /\ q.player = c
         /\ q.open = p.open /\ q.key = p.key /\ q.load = p.load /\ q.map = p.map
BY DEF Session

LEMMA RegisterSound ==
  ASSUME NEW g, Sound(g), NEW s \in Sessions, NEW c \in Characters, Registrable(g, c),
         g.session[s].player = None, g.session[s].load = "none",
         SpentKey(g.session[s]), issued[g.session[s].key] = c
  PROVE  LET h == Register(g, s, c) IN
         /\ Sound(h) /\ h.session[s].map = None /\ h.session[s].player = c
         /\ \A t \in Sessions \ {s} : h.session[t] = g.session[t]
<1> DEFINE h == Register(g, s, c)
<1> SUFFICES /\ Sound(h) /\ h.session[s].map = None /\ h.session[s].player = c
             /\ \A t \in Sessions \ {s} : h.session[t] = g.session[t]
  OBVIOUS
<1>1. g \in Game /\ Indexed(g) /\ Owner[c] \in Accounts
  BY EntryAssumption DEF Sound, EntryAssumption
<1>2. /\ h.byCharacter = [g.byCharacter EXCEPT ![c] = s]
      /\ h.byAccount = [g.byAccount EXCEPT ![Owner[c]] = s]
  BY <1>1 DEF Register, Game
<1>3. /\ h.session = [g.session EXCEPT ![s] = [g.session[s] EXCEPT !.player = c]]
      /\ h.members = g.members
  BY <1>1 DEF Register, Game
<1>4. /\ h.session \in [Sessions -> Session]
      /\ h.session[s].player = c /\ h.session[s].map = None
      /\ h.session[s].open = g.session[s].open /\ h.session[s].key = g.session[s].key
      /\ h.session[s].load = g.session[s].load
      /\ \A t \in Sessions \ {s} : h.session[t] = g.session[t]
  <2>1. g.session \in [Sessions -> Session] /\ g.session[s].map = None
    BY <1>1 DEF Game, Sound, Seated
  <2> HIDE DEF h
  <2>2. [g.session[s] EXCEPT !.player = c] \in Session
    BY <2>1, PlayerSeat
  <2>3. h.session[s] = [g.session[s] EXCEPT !.player = c]
    BY <1>3, <2>1
  <2> QED BY <1>3, <2>1, <2>2, <2>3, PlayerSeat
<1>5. h.byCharacter \in [Characters -> Sessions \cup {None}]
  BY <1>1, <1>2 DEF Game
<1>6. h.byAccount \in [Accounts -> Sessions \cup {None}]
  BY <1>1, <1>2 DEF Game
<1>7. h \in Game
  BY <1>1, <1>3, <1>4, <1>5, <1>6 DEF Register, Game
<1> HIDE DEF h
<1>8. ASSUME NEW t \in Sessions, NEW d \in Characters
      PROVE  h.byCharacter[d] = t <=> h.session[t].player = d
  <2>1. g.byCharacter[d] = t <=> g.session[t].player = d
    BY <1>1 DEF Indexed
  <2>2. h.byCharacter[d] = IF d = c THEN s ELSE g.byCharacter[d]
    BY <1>1, <1>2 DEF Game
  <2>3. g.byCharacter[c] = None /\ None # t /\ None # d
    BY SeatTypes DEF Registrable
  <2> QED BY <1>4, <2>1, <2>2, <2>3
<1>9. ASSUME NEW t \in Sessions, NEW a \in Accounts
      PROVE  h.byAccount[a] = t <=> h.session[t].player # None /\ Owner[h.session[t].player] = a
  <2>1. g.byAccount[a] = t <=> g.session[t].player # None /\ Owner[g.session[t].player] = a
    BY <1>1 DEF Indexed
  <2>2. h.byAccount[a] = IF a = Owner[c] THEN s ELSE g.byAccount[a]
    BY <1>1, <1>2 DEF Game
  <2>3. g.byAccount[Owner[c]] = None /\ None # t /\ None # c
    BY SeatTypes DEF Registrable
  <2> QED BY <1>4, <2>1, <2>2, <2>3
<1>10. ASSUME NEW t \in Sessions, NEW d \in Characters, NEW k \in Maps
       PROVE  h.members[k][d] = t <=> h.session[t].player = d /\ h.session[t].map = k
  <2>1. g.members[k][d] = t <=> g.session[t].player = d /\ g.session[t].map = k
    BY <1>1 DEF Indexed
  <2>2. None # k /\ None # d
    BY SeatTypes
  <2> QED BY <1>3, <1>4, <2>1, <2>2
<1>11. Indexed(h)
  BY <1>8, <1>9, <1>10 DEF Indexed
<1>12. ASSUME NEW t \in Sessions PROVE Seated(h.session[t])
  <2>1. CASE t = s
    BY <1>4, <2>1, SeatTypes DEF Seated, SpentKey
  <2>2. CASE t # s
    BY <1>4, <2>2 DEF Sound
  <2> QED BY <2>1, <2>2
<1> QED BY <1>4, <1>7, <1>11, <1>12 DEF Sound

\* A player who is in no map is unregistered and its session becomes p.
LEMMA UnregisterSound ==
  ASSUME NEW g, Sound(g), NEW s \in Sessions,
         g.session[s].player # None, g.session[s].map = None,
         NEW p \in Session, p.player = None, p.map = None, p.load = "none"
  PROVE  LET h == [Unregister(g, s) EXCEPT !.session[s] = p] IN
         /\ Sound(h) /\ h.session[s] = p
         /\ \A t \in Sessions \ {s} : h.session[t] = g.session[t]
<1> DEFINE u == Unregister(g, s)
           h == [u EXCEPT !.session[s] = p]
           c == g.session[s].player
<1> SUFFICES /\ Sound(h) /\ h.session[s] = p
             /\ \A t \in Sessions \ {s} : h.session[t] = g.session[t]
  OBVIOUS
<1>1. g \in Game /\ Indexed(g) /\ c \in Characters /\ Owner[c] \in Accounts
  BY SeatTypes, EntryAssumption DEF Sound, EntryAssumption
<1>2. g.byCharacter[c] = s /\ g.byAccount[Owner[c]] = s
  BY <1>1, SeatTypes DEF Indexed
<1>3. /\ u.byCharacter = [g.byCharacter EXCEPT ![c] = None]
      /\ u.byAccount = [g.byAccount EXCEPT ![Owner[c]] = None]
  BY <1>1, <1>2 DEF Unregister, Game
<1>4. u.session = g.session /\ u.members = g.members
  BY <1>1 DEF Unregister, Game
<1>5. u.byCharacter \in [Characters -> Sessions \cup {None}]
  BY <1>1, <1>3 DEF Game
<1>6. u.byAccount \in [Accounts -> Sessions \cup {None}]
  BY <1>1, <1>3 DEF Game
<1>7. u \in Game
  BY <1>1, <1>4, <1>5, <1>6 DEF Unregister, Game
<1> HIDE DEF u
<1>8. /\ h.session = [g.session EXCEPT ![s] = p]
      /\ h.byCharacter = u.byCharacter /\ h.byAccount = u.byAccount /\ h.members = g.members
  BY <1>4, <1>7 DEF Game
<1>9. /\ h.session \in [Sessions -> Session] /\ h.session[s] = p
      /\ \A t \in Sessions \ {s} : h.session[t] = g.session[t]
  <2>1. g.session \in [Sessions -> Session]
    BY <1>1 DEF Game
  <2> HIDE DEF h
  <2> QED BY <1>8, <2>1
<1>10. h \in Game
  BY <1>7, <1>8, <1>9 DEF Game
<1> HIDE DEF h
<1>11. ASSUME NEW t \in Sessions, NEW d \in Characters
       PROVE  h.byCharacter[d] = t <=> h.session[t].player = d
  <2>1. g.byCharacter[d] = t <=> g.session[t].player = d
    BY <1>1 DEF Indexed
  <2>2. h.byCharacter[d] = IF d = c THEN None ELSE g.byCharacter[d]
    BY <1>1, <1>3, <1>8 DEF Game
  <2>3. None # t /\ None # d
    BY SeatTypes
  <2> QED BY <1>2, <1>9, <2>1, <2>2, <2>3
<1>12. ASSUME NEW t \in Sessions, NEW a \in Accounts
       PROVE  h.byAccount[a] = t <=> h.session[t].player # None /\ Owner[h.session[t].player] = a
  <2>1. g.byAccount[a] = t <=> g.session[t].player # None /\ Owner[g.session[t].player] = a
    BY <1>1 DEF Indexed
  <2>2. h.byAccount[a] = IF a = Owner[c] THEN None ELSE g.byAccount[a]
    BY <1>1, <1>3, <1>8 DEF Game
  <2>3. None # t
    BY SeatTypes
  <2> QED BY <1>2, <1>9, <2>1, <2>2, <2>3
<1>13. ASSUME NEW t \in Sessions, NEW d \in Characters, NEW k \in Maps
       PROVE  h.members[k][d] = t <=> h.session[t].player = d /\ h.session[t].map = k
  <2>1. g.members[k][d] = t <=> g.session[t].player = d /\ g.session[t].map = k
    BY <1>1 DEF Indexed
  <2>2. None # k /\ None # d
    BY SeatTypes
  <2> QED BY <1>8, <1>9, <2>1, <2>2
<1>14. Indexed(h)
  BY <1>11, <1>12, <1>13 DEF Indexed
<1>15. ASSUME NEW t \in Sessions PROVE Seated(h.session[t])
  <2>1. Seated(p)
    BY DEF Seated
  <2>2. Seated(g.session[t])
    BY DEF Sound
  <2> QED BY <1>9, <2>1, <2>2
<1> QED BY <1>9, <1>10, <1>14, <1>15 DEF Sound

\* The session of somebody who does not play becomes p.
LEMMA SessionSound ==
  ASSUME NEW g, Sound(g), NEW s \in Sessions, g.session[s].player = None,
         NEW p \in Session, p.player = None, p.map = None, p.load # "none" => SpentKey(p)
  PROVE  LET h == [g EXCEPT !.session[s] = p] IN
         /\ Sound(h) /\ h.session[s] = p
         /\ \A t \in Sessions \ {s} : h.session[t] = g.session[t]
<1> DEFINE h == [g EXCEPT !.session[s] = p]
<1> SUFFICES /\ Sound(h) /\ h.session[s] = p
             /\ \A t \in Sessions \ {s} : h.session[t] = g.session[t]
  OBVIOUS
<1>1. g \in Game /\ Indexed(g) /\ g.session \in [Sessions -> Session]
  BY DEF Sound, Game
<1>2. /\ h.session = [g.session EXCEPT ![s] = p]
      /\ h.byCharacter = g.byCharacter /\ h.byAccount = g.byAccount /\ h.members = g.members
  BY <1>1 DEF Game
<1>3. /\ h.session \in [Sessions -> Session] /\ h.session[s] = p
      /\ \A t \in Sessions \ {s} : h.session[t] = g.session[t]
  <2> HIDE DEF h
  <2> QED BY <1>1, <1>2
<1>4. h \in Game
  BY <1>1, <1>2, <1>3 DEF Game
<1> HIDE DEF h
<1>5. Indexed(h)
  BY <1>1, <1>2, <1>3, SeatTypes DEF Indexed
<1>6. \A t \in Sessions : Seated(h.session[t])
  BY <1>3 DEF Sound, Seated
<1> QED BY <1>3, <1>4, <1>5, <1>6 DEF Sound

-----------------------------------------------------------------------------
(* The handlers of the game server.                                         *)

Keeps(g, h) == Sound(h) /\ \A t \in Sessions : Lodged(g, t) => Lodged(h, t)

LEMMA SameKeeps ==
  ASSUME NEW g, Sound(g), NEW h, SameSeats(g, h)
  PROVE  Keeps(g, h)
BY SameSound DEF Keeps

\* One connection is marked.
LEMMA MarkSeats ==
  ASSUME NEW g \in Game, NEW s \in Sessions, NEW p \in Session, SameSeat(g.session[s], p)
  PROVE  SameSeats(g, [g EXCEPT !.session[s] = p])
<1> DEFINE f == [g.session EXCEPT ![s] = p]
<1>1. g.session \in [Sessions -> Session]
  BY DEF Game
<1>2. f \in [Sessions -> Session]
  BY <1>1
<1>3. ASSUME NEW t \in Sessions PROVE SameSeat(g.session[t], f[t])
  BY <1>1, <1>3 DEF SameSeat
<1>4. [g EXCEPT !.session[s] = p] = [g EXCEPT !.session = f]
  BY DEF Game
<1> HIDE DEF f
<1> QED BY <1>2, <1>3, <1>4, SessionsOnly

\* Whoever leaves is in no index afterwards.
LEMMA LeaveSound ==
  ASSUME NEW g, Sound(g), NEW s \in Sessions, NEW F
  PROVE  Keeps(g, OnDisconnected(g, s, F))
<1> DEFINE h == OnDisconnected(g, s, F)
           n == NotifyPlayerLeaving(g, s, F)
           r == RemovePlayer(n, s)
<1> SUFFICES Keeps(g, h)
  OBVIOUS
<1>1. Closed \in Session /\ Closed.player = None /\ Closed.map = None /\ Closed.load = "none"
  BY DEF Closed, Session
<1> HIDE DEF n, r
<1>2. CASE g.session[s].player = None
  <2>1. h = [g EXCEPT !.session[s] = Closed]
    BY <1>2 DEF OnDisconnected, Leave, Playing
  <2> HIDE DEF h
  <2> QED BY <1>1, <1>2, <2>1, SessionSound DEF Keeps, Lodged
<1>3. CASE g.session[s].player # None /\ g.session[s].map = None
  <2>1. h = [Unregister(g, s) EXCEPT !.session[s] = Closed]
    BY <1>3 DEF OnDisconnected, Leave, Playing
  <2> HIDE DEF h
  <2> QED BY <1>1, <1>3, <2>1, UnregisterSound DEF Keeps, Lodged
<1>4. CASE g.session[s].player # None /\ g.session[s].map # None
  <2>1. h = [Unregister(r, s) EXCEPT !.session[s] = Closed]
    BY <1>4 DEF OnDisconnected, Leave, Playing, n, r
  <2> HIDE DEF h
  <2>2. SameSeats(g, n)
    BY LeavingSeats DEF Sound, n
  <2>3. Keeps(g, n) /\ n.session[s].map # None /\ n.session[s].player # None
    BY <1>4, <2>2, SameKeeps DEF SameSeats, SameSeat
  <2>4. /\ Sound(r) /\ r.session[s].map = None /\ r.session[s].player # None
        /\ \A t \in Sessions \ {s} : r.session[t] = n.session[t]
    BY <2>3, RemoveSound DEF Keeps, r
  <2>5. Sound(h) /\ h.session[s] = Closed /\ \A t \in Sessions \ {s} : h.session[t] = r.session[t]
    BY <1>1, <2>1, <2>4, UnregisterSound
  <2> QED BY <1>1, <2>3, <2>4, <2>5 DEF Keeps, Lodged
<1> QED BY <1>2, <1>3, <1>4

LEMMA CloseSound ==
  ASSUME NEW g, Sound(g), NEW s \in Sessions, NEW F
  PROVE  Keeps(g, Close(g, s, F))
<1> DEFINE k == [g EXCEPT !.session[s].closing = TRUE]
<1>1. g \in Game /\ g.session[s] \in Session
  BY DEF Sound, Game
<1>2. k = [g EXCEPT !.session[s] = [g.session[s] EXCEPT !.closing = TRUE]]
  BY <1>1 DEF Game
<1>3. Close(g, s, F) = OnDisconnected(k, s, F)
  BY DEF Close
<1> HIDE DEF k
<1>4. SameSeats(g, k)
  BY <1>1, <1>2, ClosingSeat, MarkSeats
<1>5. Keeps(g, k)
  BY <1>4, SameKeeps
<1>6. Keeps(k, OnDisconnected(k, s, F))
  BY <1>5, LeaveSound DEF Keeps
<1> QED BY <1>3, <1>5, <1>6 DEF Keeps

LEMMA ArriveSound ==
  ASSUME NEW g, Sound(g), NEW s \in Sessions, g.session[s].map # None, NEW o \in Outcomes(s)
  PROVE  Keeps(g, Arrive(g, s, o))
<1> DEFINE k == [g EXCEPT !.session[s].seen = {}]
           n == NotifyPlayerEntered(k, s, o)
<1>1. g \in Game /\ g.session[s] \in Session
  BY DEF Sound, Game
<1>2. k = [g EXCEPT !.session[s] = [g.session[s] EXCEPT !.seen = {}]]
  BY <1>1 DEF Game
<1>3. Arrive(g, s, o) = IF s \in o.failing THEN Close(n, s, o.failing) ELSE n
  BY DEF Arrive
<1> HIDE DEF k
<1>4. SameSeats(g, k)
  BY <1>1, <1>2, SeenSeat, MarkSeats
<1>5. Keeps(g, k) /\ k.session[s].map # None
  BY <1>4, SameKeeps DEF SameSeats, SameSeat
<1>6. SameSeats(k, n)
  BY <1>5, EnteredSeats DEF Keeps
<1> HIDE DEF n
<1>7. Keeps(k, n)
  BY <1>5, <1>6, SameKeeps DEF Keeps
<1>8. Keeps(n, Close(n, s, o.failing))
  BY <1>7, CloseSound DEF Keeps
<1> QED BY <1>3, <1>5, <1>7, <1>8 DEF Keeps

LEMMA ChangeSound ==
  ASSUME NEW g, Sound(g), NEW s \in Sessions, g.session[s].map # None,
         NEW m \in Maps, NEW o \in Outcomes(s)
  PROVE  Keeps(g, ChangeTo(g, s, m, o))
<1> DEFINE n == NotifyPlayerLeaving(g, s, o.failing)
           r == RemovePlayer(n, s)
           a == AddPlayer(r, s, m)
<1>1. ChangeTo(g, s, m, o) = Arrive(a, s, o)
  BY DEF ChangeTo
<1>2. SameSeats(g, n)
  BY LeavingSeats DEF Sound
<1> HIDE DEF n
<1>3. Keeps(g, n) /\ n.session[s].map # None
  BY <1>2, SameKeeps DEF SameSeats, SameSeat
<1>4. n.session[s].player \in Characters
  BY <1>3, SeatTypes DEF Keeps
<1>5. /\ Sound(r) /\ r.session[s].map = None /\ r.session[s].player \in Characters
      /\ \A t \in Sessions \ {s} : r.session[t] = n.session[t]
  BY <1>3, <1>4, RemoveSound DEF Keeps
<1> HIDE DEF r
<1>6. Sound(a) /\ a.session[s].map = m /\ \A t \in Sessions : Lodged(r, t) \/ t = s => Lodged(a, t)
  BY <1>5, AddSound
<1> HIDE DEF a
<1>7. Keeps(g, a) /\ a.session[s].map # None
  BY <1>3, <1>5, <1>6, SeatTypes, EntryAssumption DEF Keeps, Lodged, EntryAssumption
<1>8. Keeps(a, Arrive(a, s, o))
  BY <1>7, ArriveSound DEF Keeps
<1> QED BY <1>1, <1>7, <1>8 DEF Keeps

\* An entry whose character is free always finds a place in the first map.
LEMMA EntrySound ==
  ASSUME NEW g, Sound(g), NEW s \in Sessions, g.session[s].player = None,
         g.session[s].load # "none", NEW c \in Characters, c = issued[g.session[s].key],
         NEW o \in Outcomes(s)
  PROVE  /\ Keeps(g, CompleteEnterGame(g, s, c, o))
         /\ Registrable(g, c) =>
              CanAdd(Register([g EXCEPT !.session[s].load = "none"], s, c), s, Start)
<1> DEFINE p == [g.session[s] EXCEPT !.load = "none"]
           i == [g EXCEPT !.session[s].load = "none"]
           n == Register(i, s, c)
           a == AddPlayer(n, s, Start)
<1>1. CompleteEnterGame(g, s, c, o) =
        IF ~Registrable(g, c) THEN i
        ELSE IF ~CanAdd(n, s, Start) THEN [Unregister(n, s) EXCEPT !.session[s].player = None]
        ELSE Arrive(a, s, o)
  BY DEF CompleteEnterGame
<1>2. /\ g \in Game /\ g.session[s] \in Session /\ Seated(g.session[s])
      /\ g.session[s].map = None /\ SpentKey(g.session[s])
  BY DEF Sound, Game, Seated
<1>3. /\ p \in Session /\ p.player = None /\ p.map = None /\ p.load = "none"
      /\ p.open = g.session[s].open /\ p.key = g.session[s].key
  BY <1>2 DEF Session
<1>4. i = [g EXCEPT !.session[s] = p]
  BY <1>2 DEF Game
<1> HIDE DEF p
<1>5. i.byCharacter = g.byCharacter /\ i.byAccount = g.byAccount
  BY <1>2 DEF Game
<1> HIDE DEF i
<1>6. /\ Sound(i) /\ i.session[s] = p
      /\ \A t \in Sessions \ {s} : i.session[t] = g.session[t]
  BY <1>3, <1>4, SessionSound
<1>7. Keeps(g, i)
  BY <1>3, <1>6 DEF Keeps, Lodged
<1>8. ASSUME Registrable(g, c)
      PROVE  CanAdd(n, s, Start) /\ Keeps(g, Arrive(a, s, o))
  <2>1. Registrable(i, c)
    BY <1>5, <1>8 DEF Registrable
  <2>2. SpentKey(i.session[s]) /\ issued[i.session[s].key] = c
    BY <1>2, <1>3, <1>6 DEF SpentKey
  <2>3. /\ Sound(n) /\ n.session[s].map = None /\ n.session[s].player = c
        /\ \A t \in Sessions \ {s} : n.session[t] = i.session[t]
    BY <1>3, <1>6, <2>1, <2>2, RegisterSound
  <2> HIDE DEF n
  <2>4. n.members[Start][c] \in Sessions \cup {None} /\ Start \in Maps
    BY <2>3, EntryAssumption DEF Sound, Game, EntryAssumption
  <2>5. \A t \in Sessions : n.members[Start][c] # t
    <3>1. ASSUME NEW t \in Sessions, n.members[Start][c] = t PROVE FALSE
      <4>1. n.session[t].player = c /\ n.session[t].map = Start
        BY <2>3, <2>4, <3>1 DEF Sound, Indexed
      <4>2. t = s
        BY <2>3, <4>1 DEF Sound, Indexed
      <4> QED BY <2>3, <2>4, <4>1, <4>2, SeatTypes
    <3> QED BY <3>1
  <2>6. CanAdd(n, s, Start)
    BY <2>3, <2>4, <2>5 DEF CanAdd
  <2>7. Sound(a) /\ a.session[s].map = Start /\ \A t \in Sessions : Lodged(n, t) \/ t = s => Lodged(a, t)
    BY <2>3, <2>4, AddSound
  <2> HIDE DEF a
  <2>8. Keeps(g, a) /\ a.session[s].map # None
    BY <1>6, <2>3, <2>4, <2>7, SeatTypes DEF Keeps, Lodged
  <2>9. Keeps(a, Arrive(a, s, o))
    BY <2>8, ArriveSound DEF Keeps
  <2> QED BY <2>6, <2>8, <2>9 DEF Keeps
<1> QED BY <1>1, <1>7, <1>8 DEF i

LEMMA EmptySound == Sound(EmptyGame) /\ AllLodged(EmptyGame)
<1>1. Closed \in Session /\ Closed.player = None /\ Closed.map = None /\ Closed.load = "none"
  BY DEF Closed, Session
<1> HIDE DEF Closed
<1>2. EmptyGame \in Game
  BY <1>1 DEF EmptyGame, Game
<1>3. Indexed(EmptyGame)
  BY <1>1, EntryAssumption DEF EmptyGame, Indexed, EntryAssumption
<1>4. \A s \in Sessions : Seated(EmptyGame.session[s]) /\ Lodged(EmptyGame, s)
  BY <1>1 DEF EmptyGame, Seated, Lodged
<1> QED BY <1>2, <1>3, <1>4 DEF Sound, AllLodged

-----------------------------------------------------------------------------
(* Who has been shown to whom.  A client watches its map while it is        *)
(* connected; in the middle of a handler of s, what holds of the others may *)
(* leave s out.                                                             *)

Together(g, t, u) ==
  u # t /\ g.session[u].player # None /\ g.session[u].map = g.session[t].map
Watching(g, t) == Connected(g, t) /\ g.session[t].map # None

\* t was shown whoever is connected and there, x aside; and nobody but those
\* who are there, without x.
Meets(g, t, x) ==
  \A u \in Sessions \ {x} :
    Together(g, t, u) /\ Connected(g, u) => g.session[u].player \in g.session[t].seen
Known(g, t, x) ==
  \A c \in g.session[t].seen :
    \E u \in Sessions \ {x} : Together(g, t, u) /\ g.session[u].player = c

\* It holds of everybody; of everybody but s, who may or may not have been shown
\* to others; and as if s were not there.
Presence(g) ==
  \A t \in Sessions : Watching(g, t) => Meets(g, t, None) /\ Known(g, t, None)
Around(g, s) ==
  \A t \in Sessions \ {s} : Watching(g, t) => Meets(g, t, s) /\ Known(g, t, None)
Without(g, s) ==
  \A t \in Sessions \ {s} : Watching(g, t) => Meets(g, t, s) /\ Known(g, t, s)

LEMMA OthersAre ==
  ASSUME NEW g, Sound(g), NEW s \in Sessions, g.session[s].map # None
  PROVE  /\ Others(g, s) \subseteq Sessions
         /\ \A t \in Sessions : t \in Others(g, s) <=> Together(g, s, t)
<1>1. /\ g \in Game /\ Indexed(g) /\ g.session[s].map \in Maps
      /\ g.members[g.session[s].map] \in [Characters -> Sessions \cup {None}]
      /\ None \notin Sessions
  BY SeatTypes DEF Sound, Game
<1>2. Others(g, s) \subseteq Sessions
  BY <1>1 DEF Others
<1>3. ASSUME NEW t \in Sessions, t \in Others(g, s) PROVE Together(g, s, t)
  <2>1. PICK c \in Characters : g.members[g.session[s].map][c] = t
    BY <1>3 DEF Others
  <2>2. g.session[t].player = c /\ g.session[t].map = g.session[s].map /\ t # s
    BY <1>1, <1>3, <2>1 DEF Indexed, Others
  <2> QED BY <2>2, SeatTypes DEF Together
<1>4. ASSUME NEW t \in Sessions, Together(g, s, t) PROVE t \in Others(g, s)
  <2>1. g.session[t].player \in Characters /\ g.session[t].map = g.session[s].map /\ t # s
    BY <1>4, SeatTypes DEF Together
  <2>2. g.members[g.session[s].map][g.session[t].player] = t
    BY <1>1, <2>1 DEF Indexed
  <2> QED BY <1>1, <2>1, <2>2 DEF Others
<1> QED BY <1>2, <1>3, <1>4

LEMMA TogetherBoth ==
  ASSUME NEW g, Sound(g), NEW t \in Sessions, NEW u \in Sessions,
         g.session[t].map # None, Together(g, t, u)
  PROVE  Together(g, u, t)
BY SeatTypes DEF Together

\* Two sessions do not play one character.
LEMMA OnePlayer ==
  ASSUME NEW g, Sound(g), NEW t \in Sessions, NEW u \in Sessions,
         g.session[t].player # None, g.session[t].player = g.session[u].player
  PROVE  t = u
BY SeatTypes DEF Sound, Indexed

\* Only s changes.
LEMMA WithoutStays ==
  ASSUME NEW g, NEW s \in Sessions, Without(g, s),
         NEW h, \A t \in Sessions \ {s} : h.session[t] = g.session[t]
  PROVE  Without(h, s)
<1> SUFFICES ASSUME NEW t \in Sessions \ {s}, Watching(h, t)
             PROVE  Meets(h, t, s) /\ Known(h, t, s)
  BY DEF Without
<1>1. h.session[t] = g.session[t] /\ Watching(g, t)
  BY DEF Watching, Connected
<1>2. Meets(g, t, s) /\ Known(g, t, s)
  BY <1>1 DEF Without
<1>3. Meets(h, t, s)
  BY <1>1, <1>2 DEF Meets, Together, Connected
<1>4. Known(h, t, s)
  BY <1>1, <1>2 DEF Known, Together
<1> QED BY <1>3, <1>4

\* Nobody shares a map with a player who is in none.
LEMMA NowhereWithout ==
  ASSUME NEW g, NEW s \in Sessions, g.session[s].map = None
  PROVE  /\ Without(g, s) => Presence(g)
         /\ Around(g, s) => Without(g, s)
<1>1. ASSUME NEW t \in Sessions, Watching(g, t)
      PROVE  t # s /\ ~Together(g, t, s)
  BY <1>1 DEF Watching, Together
<1>2. ASSUME Without(g, s) PROVE Presence(g)
  <2> SUFFICES ASSUME NEW t \in Sessions, Watching(g, t)
               PROVE  Meets(g, t, None) /\ Known(g, t, None)
    BY DEF Presence
  <2>1. Meets(g, t, s) /\ Known(g, t, s)
    BY <1>1, <1>2 DEF Without
  <2>2. Meets(g, t, None)
    BY <1>1, <2>1 DEF Meets
  <2>3. Known(g, t, None)
    BY <2>1, EntryAssumption DEF Known, EntryAssumption
  <2> QED BY <2>2, <2>3
<1>3. ASSUME Around(g, s) PROVE Without(g, s)
  <2> SUFFICES ASSUME NEW t \in Sessions \ {s}, Watching(g, t)
               PROVE  Meets(g, t, s) /\ Known(g, t, s)
    BY DEF Without
  <2>1. Meets(g, t, s) /\ Known(g, t, None)
    BY <1>3 DEF Around
  <2>2. Known(g, t, s)
    BY <1>1, <2>1 DEF Known
  <2> QED BY <2>1, <2>2
<1> QED BY <1>2, <1>3

LEMMA PresenceAround ==
  ASSUME NEW g, NEW s \in Sessions, Presence(g)
  PROVE  Around(g, s)
<1> SUFFICES ASSUME NEW t \in Sessions \ {s}, Watching(g, t)
             PROVE  Meets(g, t, s) /\ Known(g, t, None)
  BY DEF Around
<1>1. Meets(g, t, None) /\ Known(g, t, None)
  BY DEF Presence
<1> QED BY <1>1, EntryAssumption DEF Meets, EntryAssumption

\* Connections may be marked; nothing else changes.
Fades(g, h) ==
  \A t \in Sessions :
    /\ SameSeat(g.session[t], h.session[t]) /\ h.session[t].seen = g.session[t].seen
    /\ Connected(h, t) => Connected(g, t)

LEMMA FadesKeeps ==
  ASSUME NEW g, NEW h, Fades(g, h)
  PROVE  /\ Presence(g) => Presence(h)
         /\ \A s \in Sessions : Around(g, s) => Around(h, s)
<1>1. ASSUME NEW t \in Sessions, Watching(h, t)
      PROVE  Watching(g, t)
  BY <1>1 DEF Fades, Watching, SameSeat
<1>2. ASSUME NEW t \in Sessions, NEW x
      PROVE  (Meets(g, t, x) => Meets(h, t, x)) /\ (Known(g, t, x) => Known(h, t, x))
  <2>1. \A u \in Sessions : Together(h, t, u) <=> Together(g, t, u)
    BY DEF Fades, SameSeat, Together
  <2>2. /\ h.session[t].seen = g.session[t].seen
        /\ \A u \in Sessions : /\ h.session[u].player = g.session[u].player
                               /\ Connected(h, u) => Connected(g, u)
    BY DEF Fades, SameSeat
  <2>3. Meets(g, t, x) => Meets(h, t, x)
    BY <2>1, <2>2 DEF Meets
  <2>4. Known(g, t, x) => Known(h, t, x)
    BY <2>1, <2>2 DEF Known
  <2> QED BY <2>3, <2>4
<1>3. Presence(g) => Presence(h)
  BY <1>1, <1>2 DEF Presence
<1>4. \A s \in Sessions : Around(g, s) => Around(h, s)
  BY <1>1, <1>2 DEF Around
<1> QED BY <1>3, <1>4

LEMMA MarkFades ==
  ASSUME NEW g \in Game, NEW s \in Sessions
  PROVE  Fades(g, [g EXCEPT !.session[s].closing = TRUE])
<1> DEFINE p == [g.session[s] EXCEPT !.closing = TRUE]
           h == [g EXCEPT !.session[s].closing = TRUE]
<1>1. g.session \in [Sessions -> Session] /\ g.session[s] \in Session
  BY DEF Game
<1>2. h.session = [g.session EXCEPT ![s] = p]
  BY DEF Game
<1>3. SameSeat(g.session[s], p) /\ p.seen = g.session[s].seen /\ p.closing = TRUE
  BY <1>1 DEF Session, SameSeat
<1> HIDE DEF h, p
<1>4. h.session[s] = p /\ \A t \in Sessions \ {s} : h.session[t] = g.session[t]
  BY <1>1, <1>2
<1>5. Fades(g, h)
  BY <1>3, <1>4 DEF Fades, SameSeat, Connected
<1> QED BY <1>5 DEF h

\* The others forget who leaves, or are closed themselves.
LEMMA LeavingForgets ==
  ASSUME NEW g, Sound(g), NEW s \in Sessions, g.session[s].map # None,
         NEW F, Around(g, s)
  PROVE  Without(NotifyPlayerLeaving(g, s, F), s)
<1> DEFINE n == NotifyPlayerLeaving(g, s, F)
<1> SUFFICES ASSUME NEW t \in Sessions \ {s}, Watching(n, t)
             PROVE  Meets(n, t, s) /\ Known(n, t, s)
  BY DEF Without
<1>1. g \in Game /\ g.session \in [Sessions -> Session] /\ SameSeats(g, n)
  BY LeavingSeats DEF Sound, Game
<1>2. \A u \in Sessions :
        n.session[u] =
          IF u \notin Others(g, s) THEN g.session[u]
          ELSE IF Connected(g, u) /\ u \notin F
          THEN [g.session[u] EXCEPT !.seen = @ \ {g.session[s].player}]
          ELSE [g.session[u] EXCEPT !.closing = TRUE]
  BY <1>1 DEF NotifyPlayerLeaving, Game
<1> HIDE DEF n
<1>3. ASSUME NEW u \in Sessions
      PROVE  /\ n.session[u].player = g.session[u].player /\ n.session[u].map = g.session[u].map
             /\ Connected(n, u) => Connected(g, u)
  <2>1. SameSeat(g.session[u], n.session[u])
    BY <1>1 DEF SameSeats
  <2>2. g.session[u] \in Session
    BY <1>1
  <2>3. g.session[u].closing => n.session[u].closing
    BY <1>2, <2>2 DEF Session
  <2> QED BY <2>1, <2>3 DEF SameSeat, Connected
<1>4. Watching(g, t) /\ g.session[t].map # None /\ \A u \in Sessions : Together(n, t, u) <=> Together(g, t, u)
  BY <1>3 DEF Watching, Together
<1>5. Meets(g, t, s) /\ Known(g, t, None)
  BY <1>4 DEF Around
<1>6. n.session[t].seen = IF Together(g, s, t) THEN g.session[t].seen \ {g.session[s].player}
                          ELSE g.session[t].seen
  <2>1. g.session[t] \in Session /\ (t \in Others(g, s) <=> Together(g, s, t))
    BY <1>1, OthersAre
  <2>2. Connected(n, t)
    BY DEF Watching
  <2>3. CASE ~Together(g, s, t)
    BY <1>2, <2>1, <2>3
  <2>4. CASE Together(g, s, t)
    <3>1. Connected(g, t) /\ t \notin F
      <4>1. SUFFICES ASSUME ~(Connected(g, t) /\ t \notin F) PROVE n.session[t].closing
        BY <2>2 DEF Connected
      <4> QED BY <1>2, <2>1, <2>4, <4>1 DEF Session
    <3> QED BY <1>2, <2>1, <2>4, <3>1 DEF Session
  <2> QED BY <2>3, <2>4
<1>7. g.session[s].player # None /\ g.session[s].player \in Characters
  BY SeatTypes
<1>8. Meets(n, t, s)
  <2> SUFFICES ASSUME NEW u \in Sessions \ {s}, Together(n, t, u), Connected(n, u)
               PROVE  n.session[u].player \in n.session[t].seen
    BY DEF Meets
  <2>1. g.session[u].player \in g.session[t].seen
    BY <1>3, <1>4, <1>5 DEF Meets
  <2>2. g.session[u].player # g.session[s].player
    BY <1>7, OnePlayer
  <2> QED BY <1>3, <1>6, <2>1, <2>2
<1>9. Known(n, t, s)
  <2> SUFFICES ASSUME NEW c \in n.session[t].seen
               PROVE  \E u \in Sessions \ {s} : Together(n, t, u) /\ n.session[u].player = c
    BY DEF Known
  <2>1. c \in g.session[t].seen
    BY <1>6
  <2>2. PICK u \in Sessions : Together(g, t, u) /\ g.session[u].player = c
    BY <1>5, <2>1 DEF Known
  <2>3. u # s
    <3>1. SUFFICES ASSUME u = s PROVE FALSE
      OBVIOUS
    <3>2. Together(g, s, t)
      BY <1>4, <2>2, <3>1, TogetherBoth
    <3> QED BY <1>6, <2>2, <3>1, <3>2
  <2> QED BY <1>3, <1>4, <2>2, <2>3
<1> QED BY <1>8, <1>9

\* The newcomer and the others are shown to each other: all of them, unless the
\* newcomer cannot be sent to.
LEMMA EnteringShows ==
  ASSUME NEW g, Sound(g), NEW s \in Sessions, g.session[s].map # None,
         g.session[s].seen = {}, NEW o \in Outcomes(s), Without(g, s)
  PROVE  LET n == NotifyPlayerEntered(g, s, o) IN
         /\ Around(n, s)
         /\ s \notin o.failing => Presence(n)
<1> DEFINE n == NotifyPlayerEntered(g, s, o)
           met == {t \in Others(g, s) \cap o.reached : Connected(g, t)}
<1> SUFFICES Around(n, s) /\ (s \notin o.failing => Presence(n))
  OBVIOUS
<1>1. g \in Game /\ g.session \in [Sessions -> Session] /\ SameSeats(g, n)
  BY EnteredSeats DEF Sound, Game
<1>2. \A u \in Sessions :
        n.session[u] =
          IF u = s THEN [g.session[u] EXCEPT !.seen = @ \cup {g.session[v].player : v \in met}]
          ELSE IF u \notin met THEN g.session[u]
          ELSE IF u \in o.failing THEN [g.session[u] EXCEPT !.closing = TRUE]
          ELSE [g.session[u] EXCEPT !.seen = @ \cup {g.session[s].player}]
  BY <1>1 DEF NotifyPlayerEntered, Game
<1> HIDE DEF n
<1>3. \A u \in Sessions : u \in met <=> Together(g, s, u) /\ u \in o.reached /\ Connected(g, u)
  BY OthersAre
<1>4. met \subseteq Sessions
  BY OthersAre
<1> HIDE DEF met
<1>5. ASSUME NEW u \in Sessions
      PROVE  /\ n.session[u].player = g.session[u].player /\ n.session[u].map = g.session[u].map
             /\ Connected(n, u) => Connected(g, u)
  <2>1. SameSeat(g.session[u], n.session[u])
    BY <1>1 DEF SameSeats
  <2>2. g.session[u] \in Session
    BY <1>1
  <2>3. g.session[u].closing => n.session[u].closing
    BY <1>2, <2>2 DEF Session
  <2> QED BY <2>1, <2>3 DEF SameSeat, Connected
<1>6. \A t, u \in Sessions : Together(n, t, u) <=> Together(g, t, u)
  BY <1>5 DEF Together
\* What the others were shown.
<1>7. ASSUME NEW t \in Sessions \ {s}, Watching(n, t)
      PROVE  /\ Meets(n, t, s) /\ Known(n, t, None)
             /\ s \notin o.failing => Meets(n, t, None)
  <2>1. Watching(g, t) /\ g.session[t] \in Session /\ g.session[t].map # None
    BY <1>1, <1>5, <1>7 DEF Watching
  <2>2. Meets(g, t, s) /\ Known(g, t, s)
    BY <2>1 DEF Without
  <2>3. t \in met => t \notin o.failing
    <3>1. SUFFICES ASSUME t \in met, t \in o.failing PROVE n.session[t].closing
      BY <1>7 DEF Watching, Connected
    <3> QED BY <1>2, <2>1, <3>1 DEF Session
  <2>4. n.session[t].seen = IF t \in met THEN g.session[t].seen \cup {g.session[s].player}
                            ELSE g.session[t].seen
    BY <1>2, <2>1, <2>3 DEF Session
  <2>5. Meets(n, t, s)
    BY <1>5, <1>6, <2>2, <2>4 DEF Meets
  <2>6. Known(n, t, None)
    <3> SUFFICES ASSUME NEW c \in n.session[t].seen
                 PROVE  \E u \in Sessions \ {None} : Together(n, t, u) /\ n.session[u].player = c
      BY DEF Known
    <3>1. CASE c \in g.session[t].seen
      BY <1>5, <1>6, <2>2, <3>1, SeatTypes DEF Known
    <3>2. CASE c \notin g.session[t].seen
      <4>1. t \in met /\ c = g.session[s].player
        BY <2>4, <3>2
      <4>2. Together(g, t, s)
        BY <1>3, <4>1, TogetherBoth
      <4> QED BY <1>5, <1>6, <4>1, <4>2, SeatTypes
    <3> QED BY <3>1, <3>2
  <2>7. ASSUME s \notin o.failing PROVE Meets(n, t, None)
    <3> SUFFICES ASSUME NEW u \in Sessions, Together(n, t, u), Connected(n, u)
                 PROVE  n.session[u].player \in n.session[t].seen
      BY DEF Meets
    <3>1. CASE u # s
      BY <2>5, <3>1 DEF Meets
    <3>2. CASE u = s
      <4>1. Together(g, s, t)
        BY <1>6, <2>1, <3>2, TogetherBoth
      <4>2. o.reached = Sessions
        BY <2>7 DEF Outcomes
      <4>3. t \in met
        BY <1>3, <2>1, <4>1, <4>2 DEF Watching
      <4> QED BY <1>5, <2>4, <3>2, <4>3
    <3> QED BY <3>1, <3>2
  <2> QED BY <2>5, <2>6, <2>7
<1>8. Around(n, s)
  BY <1>7 DEF Around
\* What the newcomer was shown.
<1>9. ASSUME s \notin o.failing PROVE Meets(n, s, None) /\ Known(n, s, None)
  <2>1. n.session[s].seen = {g.session[v].player : v \in met}
    <3> DEFINE P == {g.session[v].player : v \in met}
    <3>1. n.session[s] = [g.session[s] EXCEPT !.seen = @ \cup P]
      BY <1>2
    <3> HIDE DEF P
    <3>2. n.session[s].seen = P
      BY <1>1, <3>1 DEF Session
    <3> QED BY <3>2 DEF P
  <2>2. Meets(n, s, None)
    <3> SUFFICES ASSUME NEW u \in Sessions, Together(n, s, u), Connected(n, u)
                 PROVE  n.session[u].player \in n.session[s].seen
      BY DEF Meets
    <3>1. o.reached = Sessions
      BY <1>9 DEF Outcomes
    <3>2. u \in met
      BY <1>3, <1>5, <1>6, <3>1
    <3> QED BY <1>5, <2>1, <3>2
  <2>3. Known(n, s, None)
    <3> SUFFICES ASSUME NEW c \in n.session[s].seen
                 PROVE  \E u \in Sessions \ {None} : Together(n, s, u) /\ n.session[u].player = c
      BY DEF Known
    <3>1. PICK v \in met : c = g.session[v].player
      BY <2>1
    <3> QED BY <1>3, <1>4, <1>5, <1>6, <3>1, SeatTypes
  <2> QED BY <2>2, <2>3
<1>10. ASSUME s \notin o.failing PROVE Presence(n)
  <2> SUFFICES ASSUME NEW t \in Sessions, Watching(n, t)
               PROVE  Meets(n, t, None) /\ Known(n, t, None)
    BY DEF Presence
  <2>1. CASE t = s
    BY <1>9, <1>10, <2>1
  <2>2. CASE t # s
    BY <1>7, <1>10, <2>2
  <2> QED BY <2>1, <2>2
<1> QED BY <1>8, <1>10

-----------------------------------------------------------------------------
(* The handlers, and what they leave the others with.                       *)

LEMMA LeavePresence ==
  ASSUME NEW g, Sound(g), NEW s \in Sessions, NEW F, Around(g, s)
  PROVE  Presence(OnDisconnected(g, s, F))
<1> DEFINE h == OnDisconnected(g, s, F)
           n == NotifyPlayerLeaving(g, s, F)
           r == RemovePlayer(n, s)
<1> SUFFICES Presence(h)
  OBVIOUS
<1>1. Closed \in Session /\ Closed.player = None /\ Closed.map = None /\ Closed.load = "none"
  BY DEF Closed, Session
<1>2. ASSUME NEW u, Without(u, s), h.session[s] = Closed,
             \A t \in Sessions \ {s} : h.session[t] = u.session[t]
      PROVE  Presence(h)
  <2> HIDE DEF h
  <2> QED BY <1>1, <1>2, WithoutStays, NowhereWithout
<1> HIDE DEF n, r
<1>3. CASE g.session[s].player = None
  <2>1. h = [g EXCEPT !.session[s] = Closed]
    BY <1>3 DEF OnDisconnected, Leave, Playing
  <2>2. Without(g, s)
    BY <1>3, SeatTypes, NowhereWithout
  <2> HIDE DEF h
  <2>3. h.session[s] = Closed /\ \A t \in Sessions \ {s} : h.session[t] = g.session[t]
    BY <1>1, <1>3, <2>1, SessionSound
  <2> QED BY <1>2, <2>2, <2>3
<1>4. CASE g.session[s].player # None /\ g.session[s].map = None
  <2>1. h = [Unregister(g, s) EXCEPT !.session[s] = Closed]
    BY <1>4 DEF OnDisconnected, Leave, Playing
  <2>2. Without(g, s)
    BY <1>4, NowhereWithout
  <2> HIDE DEF h
  <2>3. h.session[s] = Closed /\ \A t \in Sessions \ {s} : h.session[t] = g.session[t]
    BY <1>1, <1>4, <2>1, UnregisterSound
  <2> QED BY <1>2, <2>2, <2>3
<1>5. CASE g.session[s].player # None /\ g.session[s].map # None
  <2>1. h = [Unregister(r, s) EXCEPT !.session[s] = Closed]
    BY <1>5 DEF OnDisconnected, Leave, Playing, n, r
  <2> HIDE DEF h
  <2>2. SameSeats(g, n) /\ Without(n, s)
    BY <1>5, LeavingSeats, LeavingForgets DEF Sound, n
  <2>3. Sound(n) /\ n.session[s].map # None /\ n.session[s].player # None
    BY <1>5, <2>2, SameKeeps DEF SameSeats, SameSeat, Keeps
  <2>4. /\ Sound(r) /\ r.session[s].map = None /\ r.session[s].player # None
        /\ \A t \in Sessions \ {s} : r.session[t] = n.session[t]
    BY <2>3, RemoveSound DEF r
  <2>5. h.session[s] = Closed /\ \A t \in Sessions \ {s} : h.session[t] = r.session[t]
    BY <1>1, <2>1, <2>4, UnregisterSound
  <2> QED BY <1>2, <2>2, <2>4, <2>5
<1> QED BY <1>3, <1>4, <1>5

LEMMA ClosePresence ==
  ASSUME NEW g, Sound(g), NEW s \in Sessions, NEW F, Around(g, s)
  PROVE  Presence(Close(g, s, F))
<1> DEFINE k == [g EXCEPT !.session[s].closing = TRUE]
<1>1. g \in Game /\ g.session[s] \in Session
  BY DEF Sound, Game
<1>2. k = [g EXCEPT !.session[s] = [g.session[s] EXCEPT !.closing = TRUE]]
  BY <1>1 DEF Game
<1>3. Close(g, s, F) = OnDisconnected(k, s, F)
  BY DEF Close
<1>4. Around(k, s)
  BY <1>1, MarkFades, FadesKeeps
<1> HIDE DEF k
<1>5. SameSeats(g, k)
  BY <1>1, <1>2, ClosingSeat, MarkSeats
<1>6. Sound(k)
  BY <1>5, SameSound
<1> QED BY <1>3, <1>4, <1>6, LeavePresence

LEMMA ArrivePresence ==
  ASSUME NEW g, Sound(g), NEW s \in Sessions, g.session[s].map # None, NEW o \in Outcomes(s),
         Without(g, s)
  PROVE  Presence(Arrive(g, s, o))
<1> DEFINE k == [g EXCEPT !.session[s].seen = {}]
           n == NotifyPlayerEntered(k, s, o)
           p == [g.session[s] EXCEPT !.seen = {}]
<1>1. g \in Game /\ g.session[s] \in Session /\ g.session \in [Sessions -> Session]
  BY DEF Sound, Game
<1>2. k = [g EXCEPT !.session[s] = p] /\ k.session = [g.session EXCEPT ![s] = p]
  BY <1>1 DEF Game
<1>3. Arrive(g, s, o) = IF s \in o.failing THEN Close(n, s, o.failing) ELSE n
  BY DEF Arrive
<1>4. p \in Session /\ SameSeat(g.session[s], p) /\ p.seen = {}
  BY <1>1 DEF Session, SameSeat
<1> HIDE DEF k, p
<1>5. k.session[s] = p /\ \A t \in Sessions \ {s} : k.session[t] = g.session[t]
  BY <1>1, <1>2
<1>6. SameSeats(g, k)
  BY <1>1, <1>2, <1>4, MarkSeats
<1>7. Sound(k) /\ k.session[s].map # None /\ k.session[s].seen = {}
  BY <1>4, <1>5, <1>6, SameSound DEF SameSeat
<1>8. Without(k, s)
  BY <1>5, WithoutStays
<1>9. Around(n, s) /\ (s \notin o.failing => Presence(n))
  BY <1>7, <1>8, EnteringShows
<1>10. SameSeats(k, n)
  BY <1>7, EnteredSeats
<1> HIDE DEF n
<1>11. Sound(n)
  BY <1>7, <1>10, SameSound
<1>12. Presence(Close(n, s, o.failing))
  BY <1>9, <1>11, ClosePresence
<1> QED BY <1>3, <1>9, <1>12

LEMMA ChangePresence ==
  ASSUME NEW g, Sound(g), NEW s \in Sessions, g.session[s].map # None,
         NEW m \in Maps, NEW o \in Outcomes(s), Presence(g)
  PROVE  Presence(ChangeTo(g, s, m, o))
<1> DEFINE n == NotifyPlayerLeaving(g, s, o.failing)
           r == RemovePlayer(n, s)
           a == AddPlayer(r, s, m)
<1>1. ChangeTo(g, s, m, o) = Arrive(a, s, o)
  BY DEF ChangeTo
<1>2. SameSeats(g, n) /\ Without(n, s)
  BY PresenceAround, LeavingSeats, LeavingForgets DEF Sound
<1> HIDE DEF n
<1>3. Sound(n) /\ n.session[s].map # None
  BY <1>2, SameSound DEF SameSeats, SameSeat
<1>4. /\ Sound(r) /\ r.session[s].map = None /\ r.session[s].player \in Characters
      /\ \A t \in Sessions \ {s} : r.session[t] = n.session[t]
  BY <1>3, RemoveSound, SeatTypes
<1> HIDE DEF r
<1>5. Without(r, s)
  BY <1>2, <1>4, WithoutStays
<1>6. Sound(a) /\ a.session[s].map # None
  BY <1>4, AddSound, SeatTypes
<1>7. \A t \in Sessions \ {s} : a.session[t] = r.session[t]
  BY <1>4, AddOthers DEF Sound
<1> HIDE DEF a
<1>8. Without(a, s)
  BY <1>5, <1>7, WithoutStays
<1> QED BY <1>1, <1>6, <1>8, ArrivePresence

LEMMA EntryPresence ==
  ASSUME NEW g, Sound(g), NEW s \in Sessions, g.session[s].player = None,
         g.session[s].load # "none", NEW c \in Characters, c = issued[g.session[s].key],
         NEW o \in Outcomes(s), Presence(g)
  PROVE  Presence(CompleteEnterGame(g, s, c, o))
<1> DEFINE p == [g.session[s] EXCEPT !.load = "none"]
           i == [g EXCEPT !.session[s].load = "none"]
           n == Register(i, s, c)
           a == AddPlayer(n, s, Start)
<1>1. Registrable(g, c) => CanAdd(n, s, Start)
  BY EntrySound
<1>2. CompleteEnterGame(g, s, c, o) = IF ~Registrable(g, c) THEN i ELSE Arrive(a, s, o)
  BY <1>1 DEF CompleteEnterGame
<1>3. /\ g \in Game /\ g.session[s] \in Session /\ Seated(g.session[s])
      /\ g.session[s].map = None /\ SpentKey(g.session[s])
  BY DEF Sound, Game, Seated
<1>4. /\ p \in Session /\ p.player = None /\ p.map = None /\ p.load = "none"
      /\ p.open = g.session[s].open /\ p.key = g.session[s].key
  BY <1>3 DEF Session
<1>5. i = [g EXCEPT !.session[s] = p]
  BY <1>3 DEF Game
<1>6. i.byCharacter = g.byCharacter /\ i.byAccount = g.byAccount
  BY <1>3 DEF Game
<1> HIDE DEF i, p
<1>7. /\ Sound(i) /\ i.session[s] = p
      /\ \A t \in Sessions \ {s} : i.session[t] = g.session[t]
  BY <1>4, <1>5, SessionSound
<1>8. Without(i, s)
  BY <1>3, <1>7, PresenceAround, NowhereWithout, WithoutStays
<1>9. Presence(i)
  BY <1>4, <1>7, <1>8, NowhereWithout
<1>10. ASSUME Registrable(g, c) PROVE Presence(Arrive(a, s, o))
  <2>1. Registrable(i, c)
    BY <1>6, <1>10 DEF Registrable
  <2>2. SpentKey(i.session[s]) /\ issued[i.session[s].key] = c
    BY <1>3, <1>4, <1>7 DEF SpentKey
  <2>3. /\ Sound(n) /\ n.session[s].map = None /\ n.session[s].player = c
        /\ \A t \in Sessions \ {s} : n.session[t] = i.session[t]
    BY <1>4, <1>7, <2>1, <2>2, RegisterSound
  <2> HIDE DEF n
  <2>4. Start \in Maps /\ None # Start
    BY EntryAssumption DEF EntryAssumption
  <2>5. Sound(a) /\ a.session[s].map = Start
    BY <2>3, <2>4, AddSound
  <2>6. \A t \in Sessions \ {s} : a.session[t] = n.session[t]
    BY <2>3, <2>4, AddOthers DEF Sound
  <2> HIDE DEF a
  <2>7. Without(a, s)
    BY <1>8, <2>3, <2>6, WithoutStays
  <2> QED BY <2>4, <2>5, <2>7, ArrivePresence
<1> QED BY <1>2, <1>9, <1>10

-----------------------------------------------------------------------------
(* The inductive invariant.                                                 *)

\* A key that was spent has no ticket any more, a key that was given has had one,
\* and there is a ticket only for a key that was issued.
TicketInv ==
  /\ issued \in [Keys -> Characters \cup {None}]
  /\ asking \in Keys \cup {None} /\ given \subseteq Keys
  /\ ticket \in [Keys -> {"none", "live", "expired", "gone"}]
  /\ uses \in [Keys -> {0, 1}]
  /\ \A k \in Keys : /\ ticket[k] # "gone" => uses[k] = 0
                     /\ ticket[k] # "none" => issued[k] # None
  /\ \A k \in given : ticket[k] # "none"
GameInv == TicketInv /\ Sound(game) /\ AllLodged(game)

\* Handlers that leave the keys alone.
LEMMA KeepsInv ==
  ASSUME GameInv, Keeps(game, game'), UNCHANGED <<issued, asking, given, ticket, uses>>
  PROVE  GameInv'
<1>1. Sound(game')
  BY DEF Keeps
<1>2. (\A s \in Sessions : Seated(game.session[s]))' /\ Indexed(game)' /\ (game \in Game)'
  BY <1>1 DEF Sound, Indexed, Seated, SpentKey, Session, Game
<1>3. AllLodged(game)'
  BY DEF GameInv, AllLodged, Keeps, Lodged
<1>4. TicketInv'
  BY DEF GameInv, TicketInv
<1> QED BY <1>2, <1>3, <1>4 DEF GameInv, Sound

\* Steps that leave the game alone keep it sound while nobody's key is issued
\* again or counted again.
LEMMA KeysInv ==
  ASSUME GameInv, game' = game, TicketInv',
         \A k \in Keys : issued[k] # None => issued'[k] = issued[k],
         \A k \in Keys : uses[k] = 1 => uses'[k] = 1
  PROVE  GameInv'
<1>1. game' \in Game /\ Indexed(game)' /\ AllLodged(game)'
  BY DEF GameInv, Sound, Indexed, AllLodged, Lodged, Session, Game
<1>2. ASSUME NEW s \in Sessions PROVE Seated(game.session[s])'
  BY DEF GameInv, Sound, Seated, SpentKey
<1>3. (game \in Game)'
  BY <1>1 DEF Game, Session
<1> QED BY <1>1, <1>2, <1>3 DEF GameInv, Sound

-----------------------------------------------------------------------------
(* Every step keeps it.                                                     *)

LEMMA InitInv == Init => GameInv
<1> SUFFICES ASSUME Init PROVE GameInv
  OBVIOUS
<1>1. TicketInv
  BY EntryAssumption DEF Init, TicketInv, EntryAssumption
<1>2. game = EmptyGame
  BY DEF Init
<1> QED BY <1>1, <1>2, EmptySound DEF GameInv

LEMMA LoginStep ==
  ASSUME GameInv, NEW k \in Keys,
         \/ \E c \in Characters : CharacterSelect(k, c)
         \/ RegisterAuthTicket(k) \/ Expire(k)
         \/ SelectAnswered \/ SelectFailed \/ CleanupExpired
  PROVE  GameInv'
<1>1. TicketInv
  BY DEF GameInv
<1>2. CASE \E c \in Characters : CharacterSelect(k, c)
  <2>1. TicketInv' /\ game' = game
    BY <1>1, <1>2, EntryAssumption DEF CharacterSelect, TicketInv, EntryAssumption
  <2>2. \A j \in Keys : issued[j] # None => issued'[j] = issued[j]
    BY <1>1, <1>2 DEF CharacterSelect, TicketInv
  <2> QED BY <1>2, <2>1, <2>2, KeysInv DEF CharacterSelect
<1>3. CASE RegisterAuthTicket(k)
  <2>1. TicketInv' /\ game' = game
    BY <1>1, <1>3 DEF RegisterAuthTicket, TicketInv
  <2> QED BY <1>3, <2>1, KeysInv DEF RegisterAuthTicket
<1>4. CASE Expire(k)
  <2>1. TicketInv' /\ game' = game
    BY <1>1, <1>4 DEF Expire, TicketInv
  <2> QED BY <1>4, <2>1, KeysInv DEF Expire
<1>5. CASE SelectAnswered
  <2>1. TicketInv' /\ game' = game
    BY <1>1, <1>5 DEF SelectAnswered, TicketInv
  <2> QED BY <1>5, <2>1, KeysInv DEF SelectAnswered
<1>6. CASE SelectFailed
  <2>1. TicketInv' /\ game' = game
    BY <1>1, <1>6 DEF SelectFailed, TicketInv
  <2> QED BY <1>6, <2>1, KeysInv DEF SelectFailed
<1>7. CASE CleanupExpired
  <2>1. TicketInv' /\ game' = game
    BY <1>1, <1>7 DEF CleanupExpired, TicketInv
  <2> QED BY <1>7, <2>1, KeysInv DEF CleanupExpired
<1> QED BY <1>2, <1>3, <1>4, <1>5, <1>6, <1>7

\* One session becomes p, and nobody moves.
LEMMA PlainStep ==
  ASSUME GameInv, NEW s \in Sessions, game.session[s].player = None,
         NEW p \in Session, p.player = None, p.map = None, p.load # "none" => SpentKey(p),
         game' = [game EXCEPT !.session[s] = p], UNCHANGED <<issued, asking, given, ticket, uses>>
  PROVE  GameInv'
<1>1. Sound(game)
  BY DEF GameInv
<1> DEFINE h == [game EXCEPT !.session[s] = p]
<1>2. Sound(h) /\ h.session[s] = p /\ \A t \in Sessions \ {s} : h.session[t] = game.session[t]
  BY <1>1, SessionSound
<1>3. game' = h
  OBVIOUS
<1> HIDE DEF h
<1>4. Keeps(game, game')
  BY <1>2, <1>3 DEF Keeps, Lodged
<1> QED BY <1>4, KeepsInv

\* What the invariant says of a session, and what a field of it may become.
LEMMA SessionFacts ==
  ASSUME GameInv, NEW s \in Sessions
  PROVE  /\ game \in Game /\ game.session[s] \in Session /\ Seated(game.session[s])
         /\ Sound(game) /\ Lodged(game, s)
         /\ game.session[s].player # None => game.session[s].map # None
BY DEF GameInv, Sound, Game, AllLodged, Lodged

LEMMA ConnectStep ==
  ASSUME GameInv, NEW s \in Sessions, Connect(s)
  PROVE  GameInv'
<1>1. /\ Opened \in Session /\ Opened.player = None /\ Opened.map = None
      /\ Opened.load = "none"
  BY DEF Opened, Closed, Session
<1> HIDE DEF Opened
<1>2. game.session[s].player = None
  BY SessionFacts DEF Connect, Seated, SpentKey
<1>3. game' = [game EXCEPT !.session[s] = Opened]
  BY DEF Connect
<1> QED BY <1>1, <1>2, <1>3, PlainStep DEF Connect

LEMMA LoadStep ==
  ASSUME GameInv, NEW s \in Sessions, FindById(s) \/ LoadFailed(s)
  PROVE  GameInv'
<1>1. PICK load \in {"none", "Success", "Error"} : game' = [game EXCEPT !.session[s].load = load]
  BY DEF FindById, LoadFailed
<1>2. /\ game.session[s].load # "none" /\ game \in Game
      /\ UNCHANGED <<issued, asking, given, ticket, uses>>
  BY SessionFacts DEF FindById, LoadFailed
<1> DEFINE p == [game.session[s] EXCEPT !.load = load]
<1>3. game' = [game EXCEPT !.session[s] = p]
  BY <1>1, <1>2 DEF Game
<1>4. /\ p \in Session /\ p.player = game.session[s].player /\ p.map = game.session[s].map
      /\ p.open = game.session[s].open /\ p.key = game.session[s].key
  BY SessionFacts DEF Session
<1> HIDE DEF p
<1>5. SpentKey(game.session[s])
  BY <1>2, SessionFacts DEF Seated
<1>6. game.session[s].player = None /\ p.map = None /\ SpentKey(p)
  BY <1>2, <1>4, <1>5, SessionFacts DEF Seated, SpentKey
<1> QED BY <1>2, <1>3, <1>4, <1>6, PlainStep

LEMMA EnterStep ==
  ASSUME GameInv, NEW s \in Sessions, NEW k \in Keys, EnterGame(s, k)
  PROVE  GameInv'
<1>1. /\ Connected(game, s) /\ game.session[s].player = None /\ game.session[s].load = "none"
      /\ k \in given /\ ticket[k] # "none" /\ UNCHANGED <<issued, asking, given>>
      /\ ticket' = [ticket EXCEPT ![k] = IF @ \in {"live", "expired"} THEN "gone" ELSE @]
      /\ uses' = [uses EXCEPT ![k] = IF ticket[k] = "live" THEN @ + 1 ELSE @]
  BY DEF EnterGame, Playing, Consume
<1>2. TicketInv'
  BY <1>1 DEF GameInv, TicketInv
<1>3. /\ \A j \in Keys : uses[j] = 1 => uses'[j] = 1
      /\ ticket[k] = "live" => uses'[k] = 1
      /\ issued[k] # None
  BY <1>1 DEF GameInv, TicketInv
<1>4. CASE game' = game
  BY <1>1, <1>2, <1>3, <1>4, KeysInv
<1>5. CASE ticket[k] = "live" /\ game' = [game EXCEPT !.session[s].load = "asked", !.session[s].key = k]
  <2> DEFINE p == [game.session[s] EXCEPT !.load = "asked", !.key = k]
  <2>1. /\ game \in Game /\ Indexed(game) /\ game.session \in [Sessions -> Session]
        /\ game.session[s] \in Session /\ Seated(game.session[s])
    BY DEF GameInv, Sound, Game
  <2>2. /\ p \in Session /\ p.player = None /\ p.map = game.session[s].map /\ p.key = k
        /\ p.open = game.session[s].open
    BY <1>1, <2>1 DEF Session
  <2>3. game'.session = [game.session EXCEPT ![s] = p]
    BY <1>5, <2>1 DEF Game
  <2>4. game'.byCharacter = game.byCharacter /\ game'.byAccount = game.byAccount
        /\ game'.members = game.members
    BY <1>5, <2>1 DEF Game
  <2>5. game' = [game EXCEPT !.session = [game.session EXCEPT ![s] = p]]
    BY <1>5, <2>1 DEF Game
  <2> HIDE DEF p
  <2>6. /\ game'.session \in [Sessions -> Session] /\ game'.session[s] = p
        /\ \A t \in Sessions \ {s} : game'.session[t] = game.session[t]
    BY <2>1, <2>2, <2>3
  <2>7. game' \in Game
    BY <2>1, <2>5, <2>6 DEF Game
  <2>8. p.map = None
    BY <1>1, <2>1, <2>2 DEF Seated
  <2>9. Indexed(game)'
    <3>1. /\ p.player = game.session[s].player /\ p.map = game.session[s].map
          /\ \A t \in Sessions : /\ game'.session[t].player = game.session[t].player
                               /\ game'.session[t].map = game.session[t].map
      BY <1>1, <2>2, <2>6
    <3> QED BY <2>1, <2>4, <3>1 DEF Indexed
  <2>10. ASSUME NEW t \in Sessions PROVE Seated(game.session[t])'
    <3>1. CASE t = s
      BY <1>1, <1>3, <1>5, <2>2, <2>6, <2>8, <3>1 DEF Seated, SpentKey, Connected
    <3>2. CASE t # s
      BY <1>1, <1>3, <2>6, <3>2 DEF GameInv, Sound, Seated, SpentKey
    <3> QED BY <3>1, <3>2
  <2>11. AllLodged(game)'
    BY <2>2, <2>6 DEF GameInv, AllLodged, Lodged
  <2>12. (game \in Game)'
    BY <2>7 DEF Game, Session
  <2> QED BY <1>2, <2>9, <2>10, <2>11, <2>12 DEF GameInv, Sound
<1> QED BY <1>4, <1>5 DEF EnterGame

\* An entry, a change of maps, and the end of a connection.
LEMMA MoveStep ==
  ASSUME GameInv, NEW s \in Sessions,
         \/ LoadSucceeded(s) \/ LoadTimeout(s) \/ RequestClose(s) \/ Disconnect(s)
         \/ \E m \in Maps : ChangeMap(s, m)
  PROVE  GameInv'
<1>1. UNCHANGED <<issued, asking, given, ticket, uses>>
  BY DEF LoadSucceeded, LoadTimeout, RequestClose, Disconnect, ChangeMap
<1>2. CASE LoadSucceeded(s)
  <2>1. PICK o \in Outcomes(s) :
          game' = CompleteEnterGame(game, s, issued[game.session[s].key], o)
    BY <1>2 DEF LoadSucceeded
  <2>2. game.session[s].load # "none"
    BY <1>2 DEF LoadSucceeded
  <2>3. game.session[s].player = None /\ SpentKey(game.session[s])
    BY <2>2, SessionFacts DEF Seated
  <2>4. issued[game.session[s].key] \in Characters
    BY <2>3 DEF GameInv, TicketInv, SpentKey
  <2>5. Keeps(game, game')
    BY <2>1, <2>2, <2>3, <2>4, SessionFacts, EntrySound
  <2> QED BY <1>1, <2>5, KeepsInv
<1>3. CASE LoadTimeout(s) \/ Disconnect(s)
  <2>1. PICK failing \in SUBSET Sessions : game' = Close(game, s, failing)
    BY <1>3 DEF LoadTimeout, Disconnect
  <2>2. Keeps(game, game')
    BY <2>1, SessionFacts, CloseSound
  <2> QED BY <1>1, <2>2, KeepsInv
<1>4. CASE RequestClose(s)
  <2>1. game' = [game EXCEPT !.session[s].closing = TRUE]
    BY <1>4 DEF RequestClose
  <2> DEFINE p == [game.session[s] EXCEPT !.closing = TRUE]
  <2>2. game' = [game EXCEPT !.session[s] = p]
    BY <2>1, SessionFacts DEF Game
  <2>3. p \in Session /\ SameSeat(game.session[s], p)
    BY SessionFacts, ClosingSeat
  <2> HIDE DEF p
  <2>4. SameSeats(game, game')
    BY <2>2, <2>3, SessionFacts, MarkSeats
  <2>5. Keeps(game, game')
    BY <2>4, SessionFacts, SameKeeps
  <2> QED BY <1>1, <2>5, KeepsInv
<1>5. CASE \E m \in Maps : ChangeMap(s, m)
  <2>1. PICK m \in Maps : ChangeMap(s, m)
    BY <1>5
  <2>2. PICK o \in Outcomes(s) : game' = ChangeTo(game, s, m, o)
    BY <2>1 DEF ChangeMap
  <2>3. game.session[s].map # None
    BY <2>1, SessionFacts DEF ChangeMap, Playing
  <2>4. Keeps(game, game')
    BY <2>2, <2>3, SessionFacts, ChangeSound
  <2> QED BY <1>1, <2>4, KeepsInv
<1> QED BY <1>2, <1>3, <1>4, <1>5

\* A restart forgets every connection and every ticket.
LEMMA RestartStep ==
  ASSUME GameInv, Restart
  PROVE  GameInv'
<1>1. TicketInv'
  BY DEF GameInv, TicketInv, Restart
<1>2. game' = EmptyGame
  BY DEF Restart
<1>3. EmptyGame' = EmptyGame
  BY DEF EmptyGame, Closed
<1>4. (game \in Game)' /\ Indexed(game)' /\ AllLodged(game)'
  BY <1>2, EmptySound DEF Sound, Indexed, AllLodged, Lodged, Game, Session
<1>5. ASSUME NEW s \in Sessions PROVE Seated(game.session[s])'
  <2>1. game.session[s]' = Closed /\ Closed.player = None /\ Closed.map = None /\ Closed.load = "none"
    BY <1>2 DEF EmptyGame, Closed
  <2> QED BY <2>1 DEF Seated
<1> QED BY <1>1, <1>4, <1>5 DEF GameInv, Sound

LEMMA GameStep == GameInv /\ [Next]_vars => GameInv'
<1> SUFFICES ASSUME GameInv, [Next]_vars PROVE GameInv'
  OBVIOUS
<1>1. CASE UNCHANGED vars
  <2>1. TicketInv' /\ game' = game /\ issued' = issued /\ uses' = uses
    BY <1>1 DEF GameInv, TicketInv, vars
  <2> QED BY <2>1, KeysInv
<1>2. ASSUME NEW k \in Keys,
             (\E c \in Characters : CharacterSelect(k, c)) \/ RegisterAuthTicket(k) \/ Expire(k)
      PROVE  GameInv'
  BY <1>2, LoginStep
<1>3. CASE SelectAnswered \/ SelectFailed \/ CleanupExpired
  <2>1. \E k \in Keys : TRUE
    BY <1>3 DEF GameInv, TicketInv, SelectAnswered, SelectFailed, CleanupExpired
  <2> QED BY <1>3, <2>1, LoginStep
<1>4. ASSUME NEW s \in Sessions, NEW k \in Keys, EnterGame(s, k) PROVE GameInv'
  BY <1>4, EnterStep
<1>5. ASSUME NEW s \in Sessions,
             \/ Connect(s) \/ FindById(s) \/ LoadFailed(s) \/ LoadSucceeded(s)
             \/ LoadTimeout(s) \/ RequestClose(s) \/ Disconnect(s)
             \/ \E m \in Maps : ChangeMap(s, m)
      PROVE  GameInv'
  BY <1>5, ConnectStep, LoadStep, MoveStep
<1>6. CASE Restart
  BY <1>6, RestartStep
<1> QED BY <1>1, <1>2, <1>3, <1>4, <1>5, <1>6 DEF Next, Step

\* A connection that does not play is nobody's concern.
LEMMA AsidePresence ==
  ASSUME NEW g, Sound(g), NEW s \in Sessions, g.session[s].player = None, Presence(g),
         NEW p, p.map = None, NEW h, h.session = [g.session EXCEPT ![s] = p]
  PROVE  Presence(h)
<1>1. g.session \in [Sessions -> Session] /\ g.session[s].map = None
  BY DEF Sound, Game, Seated
<1>2. Without(g, s)
  BY <1>1, PresenceAround, NowhereWithout
<1>3. h.session[s] = p /\ \A t \in Sessions \ {s} : h.session[t] = g.session[t]
  BY <1>1
<1>4. Without(h, s) /\ h.session[s].map = None
  BY <1>2, <1>3, WithoutStays
<1> QED BY <1>4, NowhereWithout

\* Connections that load.
LEMMA LoadPresence ==
  ASSUME GameInv, Presence(game), NEW s \in Sessions,
         Connect(s) \/ FindById(s) \/ LoadFailed(s) \/ \E k \in Keys : EnterGame(s, k)
  PROVE  Presence(game')
<1>1. game \in Game /\ Sound(game) /\ game.session[s] \in Session /\ Seated(game.session[s])
  BY SessionFacts
<1>2. CASE game' = game
  BY <1>2
<1>3. CASE Connect(s)
  <2>1. Opened.map = None
    BY DEF Opened, Closed
  <2>2. game.session[s].player = None
    BY <1>1, <1>3 DEF Connect, Seated, SpentKey
  <2>3. game'.session = [game.session EXCEPT ![s] = Opened]
    BY <1>1, <1>3 DEF Connect, Game
  <2> QED BY <1>1, <2>1, <2>2, <2>3, AsidePresence
<1>4. CASE FindById(s) \/ LoadFailed(s)
  <2>1. PICK load : game' = [game EXCEPT !.session[s].load = load]
    BY <1>4 DEF FindById, LoadFailed
  <2> DEFINE p == [game.session[s] EXCEPT !.load = load]
  <2>2. game.session[s].player = None
    BY <1>1, <1>4 DEF FindById, LoadFailed, Seated
  <2>3. p.map = None
    BY <1>1, <2>2 DEF Seated, Session
  <2>4. game'.session = [game.session EXCEPT ![s] = p]
    BY <1>1, <2>1 DEF Game
  <2> HIDE DEF p
  <2> QED BY <1>1, <2>2, <2>3, <2>4, AsidePresence
<1>5. CASE \E k \in Keys : EnterGame(s, k)
  <2>1. PICK k \in Keys : EnterGame(s, k)
    BY <1>5
  <2>2. CASE game' = [game EXCEPT !.session[s].load = "asked", !.session[s].key = k]
    <3> DEFINE p == [game.session[s] EXCEPT !.load = "asked", !.key = k]
    <3>1. game.session[s].player = None
      BY <2>1 DEF EnterGame, Playing
    <3>2. p.map = None
      BY <1>1, <3>1 DEF Seated, Session
    <3>3. game'.session = [game.session EXCEPT ![s] = p]
      BY <1>1, <2>2 DEF Game
    <3> HIDE DEF p
    <3> QED BY <1>1, <3>1, <3>2, <3>3, AsidePresence
  <2> QED BY <1>2, <2>1, <2>2 DEF EnterGame
<1> QED BY <1>3, <1>4, <1>5

\* Players who enter, move or leave.
LEMMA MovePresence ==
  ASSUME GameInv, Presence(game), NEW s \in Sessions,
         \/ LoadSucceeded(s) \/ LoadTimeout(s) \/ RequestClose(s) \/ Disconnect(s)
         \/ \E m \in Maps : ChangeMap(s, m)
  PROVE  Presence(game')
<1>1. CASE LoadSucceeded(s)
  <2>1. PICK o \in Outcomes(s) :
          game' = CompleteEnterGame(game, s, issued[game.session[s].key], o)
    BY <1>1 DEF LoadSucceeded
  <2>2. game.session[s].load # "none"
    BY <1>1 DEF LoadSucceeded
  <2>3. game.session[s].player = None /\ SpentKey(game.session[s])
    BY <2>2, SessionFacts DEF Seated
  <2>4. issued[game.session[s].key] \in Characters
    BY <2>3 DEF GameInv, TicketInv, SpentKey
  <2> QED BY <2>1, <2>2, <2>3, <2>4, SessionFacts, EntryPresence
<1>2. CASE LoadTimeout(s) \/ Disconnect(s)
  <2>1. PICK failing \in SUBSET Sessions : game' = Close(game, s, failing)
    BY <1>2 DEF LoadTimeout, Disconnect
  <2> QED BY <2>1, SessionFacts, PresenceAround, ClosePresence
<1>3. CASE RequestClose(s)
  <2>1. game' = [game EXCEPT !.session[s].closing = TRUE]
    BY <1>3 DEF RequestClose
  <2> QED BY <2>1, SessionFacts, MarkFades, FadesKeeps
<1>4. CASE \E m \in Maps : ChangeMap(s, m)
  <2>1. PICK m \in Maps : ChangeMap(s, m)
    BY <1>4
  <2>2. PICK o \in Outcomes(s) : game' = ChangeTo(game, s, m, o)
    BY <2>1 DEF ChangeMap
  <2>3. game.session[s].map # None
    BY <2>1, SessionFacts DEF ChangeMap, Playing
  <2> QED BY <2>2, <2>3, SessionFacts, ChangePresence
<1> QED BY <1>1, <1>2, <1>3, <1>4

LEMMA EmptyPresence == Presence(EmptyGame)
BY DEF EmptyGame, Closed, Presence, Watching, Connected

LEMMA PresenceStep == GameInv /\ Presence(game) /\ [Next]_vars => Presence(game)'
<1> SUFFICES ASSUME GameInv, Presence(game), [Next]_vars PROVE Presence(game')
  BY DEF Presence, Watching, Connected, Meets, Known, Together
<1>1. CASE UNCHANGED game
  BY <1>1
<1>2. CASE \E k \in Keys : (\E c \in Characters : CharacterSelect(k, c)) \/ RegisterAuthTicket(k) \/ Expire(k)
  BY <1>1, <1>2 DEF CharacterSelect, RegisterAuthTicket, Expire
<1>3. CASE SelectAnswered \/ SelectFailed \/ CleanupExpired
  BY <1>1, <1>3 DEF SelectAnswered, SelectFailed, CleanupExpired
<1>4. ASSUME NEW s \in Sessions,
             \/ Connect(s) \/ FindById(s) \/ LoadFailed(s) \/ LoadSucceeded(s)
             \/ LoadTimeout(s) \/ RequestClose(s) \/ Disconnect(s)
             \/ \E k \in Keys : EnterGame(s, k)
             \/ \E m \in Maps : ChangeMap(s, m)
      PROVE  Presence(game')
  BY <1>4, LoadPresence, MovePresence
<1>5. CASE Restart
  BY <1>5, EmptyPresence DEF Restart
<1> QED BY <1>1, <1>2, <1>3, <1>4, <1>5 DEF Next, Step, vars

-----------------------------------------------------------------------------
(* What follows from it.                                                    *)

LEMMA Consequences == GameInv => TypeOK /\ IndexesAgree /\ KeysSpentOnce
<1> SUFFICES ASSUME GameInv PROVE TypeOK /\ IndexesAgree /\ KeysSpentOnce
  OBVIOUS
<1>1. /\ TicketInv /\ game \in Game /\ Indexed(game)
      /\ \A s \in Sessions : Seated(game.session[s]) /\ Lodged(game, s)
  BY DEF GameInv, Sound, AllLodged
<1>2. \A s \in Sessions : game.session[s].player \in Characters \cup {None}
  BY <1>1 DEF Game, Session
<1>3. TypeOK
  BY <1>1, EntryAssumption DEF TypeOK, TicketInv, Seated, SpentKey, EntryAssumption
<1>4. IndexesAgree
  BY <1>1 DEF IndexesAgree, Indexed, Seated, SpentKey, Lodged, Playing
<1>5. KeysSpentOnce
  BY <1>1 DEF KeysSpentOnce, TicketInv, Seated, SpentKey, Playing
<1> QED BY <1>3, <1>4, <1>5

LEMMA Invariance == Spec => []GameInv
<1> QED BY InitInv, GameStep, PTL DEF Spec

\* Every variable keeps its type, and a connection that loads or plays is open
\* and has the key of a ticket (GameSession.cpp:184).
THEOREM TypeCorrect == Spec => []TypeOK
<1>1. GameInv => TypeOK
  BY Consequences
<1> QED BY <1>1, Invariance, PTL

\* PlayerManager, the maps and the sessions say the same, so no character or
\* account is in the game twice, for any number of them (PlayerManager.cpp:9).
THEOREM IndexesAlwaysAgree == Spec => []IndexesAgree
<1>1. GameInv => IndexesAgree
  BY Consequences
<1> QED BY <1>1, Invariance, PTL

\* A key opens the game once and for the character it was issued for, whatever
\* is lost, late or restarted (AuthTicketManager.cpp:13).
THEOREM KeysAreSpentOnce == Spec => []KeysSpentOnce
<1>1. GameInv => KeysSpentOnce
  BY Consequences
<1> QED BY <1>1, Invariance, PTL

LEMMA PresenceAgreed == GameInv /\ Presence(game) => PresenceAgrees
<1> SUFFICES ASSUME GameInv, Presence(game),
                    NEW s \in Sessions, Connected(game, s), Playing(game, s)
             PROVE  /\ {game.session[t].player : t \in {u \in Others(game, s) : Connected(game, u)}}
                          \subseteq game.session[s].seen
                    /\ game.session[s].seen \subseteq {game.session[t].player : t \in Others(game, s)}
  BY DEF PresenceAgrees
<1>1. Sound(game) /\ game.session[s].map # None
  BY SessionFacts DEF Playing
<1>2. Meets(game, s, None) /\ Known(game, s, None)
  BY <1>1 DEF Presence, Watching
<1>3. ASSUME NEW t \in Others(game, s), Connected(game, t)
      PROVE  game.session[t].player \in game.session[s].seen
  BY <1>1, <1>2, <1>3, OthersAre, EntryAssumption DEF Meets, EntryAssumption
<1>4. ASSUME NEW c \in game.session[s].seen
      PROVE  \E t \in Others(game, s) : c = game.session[t].player
  BY <1>1, <1>2, OthersAre DEF Known
<1> QED BY <1>3, <1>4

\* A connected client has been shown every connected player of its map and nobody
\* who is not there, whoever enters, moves and leaves in any order and whichever
\* sends fail in the middle of an announcement (Map.cpp:261).
THEOREM NoGhostsNobodyUnseen == Spec => []PresenceAgrees
<1>1. Init => Presence(game)
  BY EmptyPresence DEF Init
<1>2. GameInv /\ GameInv' /\ Presence(game) /\ [Next]_vars => Presence(game)'
  BY PresenceStep
<1>3. GameInv /\ Presence(game) => PresenceAgrees
  BY PresenceAgreed
<1> QED BY <1>1, <1>2, <1>3, Invariance, PTL DEF Spec

-----------------------------------------------------------------------------
(* What is said.                                                             *)

Bucket == [tokens : 0..Capacity, age : Nat]

\* What a bucket would hold now is what its account has not used.
ChatInv ==
  /\ bucket \in [Accounts -> Bucket \cup {None}]
  /\ credit \in [Accounts -> 0..Capacity]
  /\ \A a \in Accounts : Refill(a) = credit[a]

LEMMA BucketFacts ==
  /\ Capacity \in Nat \ {0} /\ Cost \in Nat \ {0} /\ Speakers \subseteq Accounts
  /\ None \notin Bucket
BY ChatAssumption DEF ChatAssumption, Bucket

-----------------------------------------------------------------------------
(* The buckets.                                                             *)

\* A bucket that was just counted holds what it was counted with.
LEMMA CountedStep ==
  ASSUME ChatInv, NEW a \in Accounts, NEW n \in 0..Capacity, Counted(a, n),
         credit' = [credit EXCEPT ![a] = n]
  PROVE  ChatInv'
<1> DEFINE b == [tokens |-> n, age |-> 0]
<1>1. b \in Bucket /\ b.tokens = n /\ b.age = 0
  BY DEF Bucket
<1>2. bucket' = [bucket EXCEPT ![a] = b]
  BY DEF Counted
<1> HIDE DEF b
<1>3. /\ bucket' \in [Accounts -> Bucket \cup {None}] /\ bucket'[a] = b
      /\ \A d \in Accounts \ {a} : bucket'[d] = bucket[d]
  BY <1>1, <1>2 DEF ChatInv
<1>4. /\ credit' \in [Accounts -> 0..Capacity] /\ credit'[a] = n
      /\ \A d \in Accounts \ {a} : credit'[d] = credit[d]
  BY DEF ChatInv
<1>5. ASSUME NEW d \in Accounts PROVE Refill(d)' = credit'[d]
  <2>1. CASE d = a
    BY <1>1, <1>3, <1>4, <2>1, BucketFacts DEF Refill, AtMost
  <2>2. CASE d # a
    BY <1>3, <1>4, <2>2 DEF ChatInv, Refill, AtMost
  <2> QED BY <2>1, <2>2
<1> QED BY <1>3, <1>4, <1>5 DEF ChatInv

LEMMA RefillFacts ==
  ASSUME ChatInv, NEW a \in Accounts
  PROVE  Refill(a) \in 0..Capacity /\ Refill(a) = credit[a]
BY DEF ChatInv

LEMMA RequestStep ==
  ASSUME ChatInv, NEW a \in Accounts, (Accepts(a) /\ Charge(a)) \/ Refuse(a)
  PROVE  ChatInv'
<1>1. CASE Accepts(a) /\ Charge(a)
  <2>1. Refill(a) - Cost \in 0..Capacity
    BY <1>1, RefillFacts, BucketFacts DEF Accepts
  <2>2. credit' = [credit EXCEPT ![a] = Refill(a) - Cost]
    BY <1>1, RefillFacts DEF Charge, ChatInv
  <2> QED BY <1>1, <2>1, <2>2, CountedStep DEF Charge
<1>2. CASE Refuse(a)
  <2>1. credit' = [credit EXCEPT ![a] = Refill(a)]
    BY <1>2, RefillFacts DEF Refuse, ChatInv
  <2> QED BY <1>2, <2>1, RefillFacts, CountedStep DEF Refuse
<1> QED BY <1>1, <1>2

\* Erasing a full bucket loses nothing.
LEMMA CleanupStep ==
  ASSUME ChatInv, Cleanup
  PROVE  ChatInv'
<1>1. ASSUME NEW a \in Accounts
      PROVE  bucket'[a] \in Bucket \cup {None} /\ Refill(a)' = credit[a]
  <2>1. Refill(a) \in 0..Capacity /\ Refill(a) = credit[a]
    BY RefillFacts
  <2>2. CASE FullAgain(a)
    BY <2>1, <2>2 DEF Cleanup, Refill, FullAgain
  <2>3. CASE ~FullAgain(a)
    <3>1. bucket'[a] = [tokens |-> Refill(a), age |-> 0]
      BY <2>3 DEF Cleanup
    <3>2. bucket'[a] \in Bucket
      BY <2>1, <3>1 DEF Bucket
    <3> QED BY <2>1, <3>1, <3>2, BucketFacts DEF Refill, AtMost
  <2> QED BY <2>2, <2>3
<1>2. credit' = credit /\ bucket' \in [Accounts -> Bucket \cup {None}]
  BY <1>1 DEF Cleanup
<1> QED BY <1>1, <1>2 DEF ChatInv

LEMMA ElapseStep ==
  ASSUME ChatInv, Elapse
  PROVE  ChatInv'
<1>1. credit' \in [Accounts -> 0..Capacity] /\ \A a \in Accounts : credit'[a] = AtMost(credit[a] + 1)
  BY BucketFacts DEF ChatInv, Elapse, AtMost
<1>2. ASSUME NEW a \in Accounts
      PROVE  bucket'[a] \in Bucket \cup {None} /\ Refill(a)' = AtMost(credit[a] + 1)
  <2>1. Refill(a) = credit[a] /\ credit[a] \in 0..Capacity
    BY RefillFacts
  <2>2. CASE bucket[a] = None
    BY <2>1, <2>2, BucketFacts DEF Elapse, Refill, AtMost
  <2>3. CASE bucket[a] # None
    <3> DEFINE n == bucket[a].tokens
               t == bucket[a].age
    <3>1. bucket[a] \in Bucket /\ n \in 0..Capacity /\ t \in Nat
      BY <2>3 DEF ChatInv, Bucket
    <3>2. bucket'[a] = [bucket[a] EXCEPT !.age = AtMost(t + 1)]
      BY <2>3 DEF Elapse
    <3>3. AtMost(t + 1) \in Nat
      BY <3>1, BucketFacts DEF AtMost
    <3>4. bucket'[a] \in Bucket /\ bucket'[a].tokens = n /\ bucket'[a].age = AtMost(t + 1)
      BY <3>1, <3>2, <3>3 DEF Bucket
    <3>5. credit[a] = AtMost(n + t)
      BY <2>1, <2>3 DEF Refill
    <3>6. Refill(a)' = AtMost(n + AtMost(t + 1))
      BY <3>4, BucketFacts DEF Refill, AtMost
    <3> HIDE DEF n, t
    <3> QED BY <3>1, <3>4, <3>5, <3>6, BucketFacts DEF AtMost
  <2> QED BY <2>2, <2>3
<1>3. bucket' \in [Accounts -> Bucket \cup {None}]
  BY <1>2 DEF Elapse
<1> QED BY <1>1, <1>2, <1>3 DEF ChatInv

-----------------------------------------------------------------------------
(* Talking and the game.                                                    *)

LEMMA ChatSeats ==
  ASSUME NEW g \in Game, NEW s \in Sessions, NEW F
  PROVE  SameSeats(g, NotifyPlayerChat(g, s, F))
<1> DEFINE m == g.session[s].map
           f == [t \in Sessions |->
                   IF t \in F /\ t \in {g.members[m][c] : c \in Characters}
                   THEN [g.session[t] EXCEPT !.closing = TRUE] ELSE g.session[t]]
<1>1. ASSUME NEW t \in Sessions
      PROVE  f[t] \in Session /\ SameSeat(g.session[t], f[t])
  <2>1. g.session[t] \in Session
    BY DEF Game
  <2>2. f[t] = g.session[t] \/ f[t] = [g.session[t] EXCEPT !.closing = TRUE]
    OBVIOUS
  <2> HIDE DEF f
  <2>3. SameSeat(g.session[t], g.session[t])
    BY DEF SameSeat
  <2> QED BY <2>1, <2>2, <2>3, ClosingSeat
<1>2. f \in [Sessions -> Session]
  BY <1>1
<1>3. NotifyPlayerChat(g, s, F) = [g EXCEPT !.session = f]
  BY DEF NotifyPlayerChat, Game
<1> HIDE DEF f
<1> QED BY <1>1, <1>2, <1>3, SessionsOnly

\* A player who cannot be sent to is marked, and the sender may be closed.
LEMMA LostKeeps ==
  ASSUME NEW g, Sound(g), NEW t \in Sessions
  PROVE  Keeps(g, [g EXCEPT !.session[t].closing = TRUE])
<1> DEFINE p == [g.session[t] EXCEPT !.closing = TRUE]
<1>1. g \in Game /\ g.session[t] \in Session
  BY DEF Sound, Game
<1>2. [g EXCEPT !.session[t].closing = TRUE] = [g EXCEPT !.session[t] = p]
  BY <1>1 DEF Game
<1>3. p \in Session /\ SameSeat(g.session[t], p)
  BY <1>1, ClosingSeat
<1> HIDE DEF p
<1>4. SameSeats(g, [g EXCEPT !.session[t] = p])
  BY <1>1, <1>3, MarkSeats
<1> QED BY <1>2, <1>4, SameKeeps

LEMMA StayKeeps ==
  ASSUME NEW g, Sound(g)
  PROVE  Keeps(g, g)
BY DEF Keeps

LEMMA TalkStep ==
  ASSUME GameInv, ChatInv, NEW s \in Sessions,
         \/ RateLimited(s) \/ InvalidMessage(s) \/ SendMap(s)
         \/ \E c \in Characters : SendWhisper(s, c)
  PROVE  GameInv' /\ ChatInv'
<1>1. /\ Playing(game, s) /\ Speaker(s) \in Speakers
      /\ UNCHANGED <<issued, asking, given, ticket, uses>>
  BY DEF RateLimited, InvalidMessage, SendMap, SendWhisper, Speaks, Unchanged
<1>2. (Accepts(Speaker(s)) /\ Charge(Speaker(s))) \/ Refuse(Speaker(s))
  BY DEF RateLimited, InvalidMessage, SendMap, SendWhisper
<1>3. ChatInv'
  BY <1>1, <1>2, BucketFacts, RequestStep
<1>4. Sound(game) /\ game \in Game
  BY SessionFacts
<1>5. ASSUME Told(s) PROVE Keeps(game, game')
  <2>1. CASE UNCHANGED game
    BY <1>4, <2>1, StayKeeps
  <2>2. CASE \E failing \in SUBSET Sessions : game' = Close(game, s, failing)
    BY <1>4, <2>2, CloseSound
  <2> QED BY <1>5, <2>1, <2>2 DEF Told
<1>6. CASE SendMap(s)
  <2>1. PICK failing \in SUBSET Sessions : game' = NotifyPlayerChat(game, s, failing)
    BY <1>6 DEF SendMap
  <2>2. Keeps(game, game')
    BY <1>4, <2>1, ChatSeats, SameKeeps
  <2> QED BY <1>1, <1>3, <2>2, KeepsInv
<1>7. CASE \E c \in Characters : SendWhisper(s, c)
  <2>1. PICK c \in Characters : SendWhisper(s, c)
    BY <1>7
  <2> DEFINE target == game.byCharacter[c]
             lost == [game EXCEPT !.session[target].closing = TRUE]
  <2>2. /\ target # None
        /\ \/ Told(s)
           \/ game' = lost
           \/ \E failing \in SUBSET Sessions : game' = Close(lost, s, failing)
    BY <2>1 DEF SendWhisper
  <2>3. target \in Sessions
    BY <1>4, <2>2 DEF Game
  <2> HIDE DEF target
  <2>4. Keeps(game, lost)
    BY <1>4, <2>3, LostKeeps
  <2> HIDE DEF lost
  <2>5. ASSUME \E failing \in SUBSET Sessions : game' = Close(lost, s, failing)
        PROVE  Keeps(game, game')
    <3>1. PICK failing \in SUBSET Sessions : game' = Close(lost, s, failing)
      BY <2>5
    <3>2. Keeps(lost, game')
      BY <2>4, <3>1, CloseSound DEF Keeps
    <3> QED BY <2>4, <3>2 DEF Keeps
  <2>6. Keeps(game, game')
    BY <1>5, <2>2, <2>4, <2>5
  <2> QED BY <1>1, <1>3, <2>6, KeepsInv
<1>8. CASE RateLimited(s) \/ InvalidMessage(s)
  <2>1. Keeps(game, game')
    BY <1>5, <1>8 DEF RateLimited, InvalidMessage
  <2> QED BY <1>1, <1>3, <2>1, KeepsInv
<1> QED BY <1>6, <1>7, <1>8

\* Nobody appears or disappears while somebody talks: connections are marked, and
\* the sender's may end as any other.
LEMMA ChatFades ==
  ASSUME NEW g \in Game, NEW s \in Sessions, NEW F
  PROVE  Fades(g, NotifyPlayerChat(g, s, F))
<1> DEFINE n == NotifyPlayerChat(g, s, F)
<1>1. g.session \in [Sessions -> Session]
  BY DEF Game
<1>2. \A t \in Sessions : \/ n.session[t] = g.session[t]
                          \/ n.session[t] = [g.session[t] EXCEPT !.closing = TRUE]
  BY <1>1 DEF NotifyPlayerChat, Game
<1> HIDE DEF n
<1>3. ASSUME NEW t \in Sessions
      PROVE  /\ SameSeat(g.session[t], n.session[t]) /\ n.session[t].seen = g.session[t].seen
             /\ Connected(n, t) => Connected(g, t)
  BY <1>1, <1>2 DEF Session, SameSeat, Connected
<1> QED BY <1>3 DEF Fades, n

LEMMA TalkPresence ==
  ASSUME GameInv, Presence(game), NEW s \in Sessions,
         \/ RateLimited(s) \/ InvalidMessage(s) \/ SendMap(s)
         \/ \E c \in Characters : SendWhisper(s, c)
  PROVE  Presence(game')
<1>1. Sound(game) /\ game \in Game
  BY SessionFacts
<1>2. ASSUME Told(s) PROVE Presence(game')
  BY <1>1, <1>2, PresenceAround, ClosePresence DEF Told
<1>3. CASE SendMap(s)
  <2>1. PICK failing \in SUBSET Sessions : game' = NotifyPlayerChat(game, s, failing)
    BY <1>3 DEF SendMap
  <2> QED BY <1>1, <2>1, ChatFades, FadesKeeps
<1>4. CASE \E c \in Characters : SendWhisper(s, c)
  <2>1. PICK c \in Characters : SendWhisper(s, c)
    BY <1>4
  <2> DEFINE target == game.byCharacter[c]
             lost == [game EXCEPT !.session[target].closing = TRUE]
  <2>2. /\ target # None
        /\ \/ Told(s)
           \/ game' = lost
           \/ \E failing \in SUBSET Sessions : game' = Close(lost, s, failing)
    BY <2>1 DEF SendWhisper
  <2>3. target \in Sessions
    BY <1>1, <2>2 DEF Game
  <2> HIDE DEF target
  <2>4. Sound(lost) /\ Fades(game, lost)
    BY <1>1, <2>3, LostKeeps, MarkFades DEF Keeps
  <2> HIDE DEF lost
  <2>5. Presence(lost)
    BY <2>4, FadesKeeps
  <2> QED BY <1>2, <2>2, <2>4, <2>5, PresenceAround, ClosePresence
<1>5. CASE RateLimited(s) \/ InvalidMessage(s)
  BY <1>2, <1>5 DEF RateLimited, InvalidMessage
<1> QED BY <1>3, <1>4, <1>5

-----------------------------------------------------------------------------
(* Every step, and what follows.                                            *)

LEMMA StillSound ==
  ASSUME GameInv, UNCHANGED vars
  PROVE  GameInv'
BY GameStep

LEMMA ChatStep == GameInv /\ ChatInv /\ [ChatNext]_<<vars, chatVars>> => GameInv' /\ ChatInv'
<1> SUFFICES ASSUME GameInv, ChatInv, [ChatNext]_<<vars, chatVars>> PROVE GameInv' /\ ChatInv'
  OBVIOUS
<1>1. ASSUME UNCHANGED chatVars PROVE ChatInv'
  BY <1>1 DEF ChatInv, chatVars, Refill, AtMost
<1>2. CASE UNCHANGED <<vars, chatVars>>
  BY <1>1, <1>2, StillSound
<1>3. CASE Step /\ UNCHANGED chatVars
  <2>1. GameInv'
    BY <1>3, GameStep DEF Next
  <2> QED BY <1>1, <1>3, <2>1
<1>4. CASE Restart /\ Reset
  <2>1. GameInv'
    BY <1>4, GameStep DEF Next
  <2>2. ChatInv'
    BY <1>4, BucketFacts DEF Reset, ChatInv, Refill
  <2> QED BY <2>1, <2>2
<1>5. ASSUME NEW s \in Sessions,
             \/ RateLimited(s) \/ InvalidMessage(s) \/ SendMap(s)
             \/ \E c \in Characters : SendWhisper(s, c)
      PROVE  GameInv' /\ ChatInv'
  BY <1>5, TalkStep
<1>6. CASE Cleanup
  <2>1. UNCHANGED vars
    BY <1>6 DEF Cleanup
  <2> QED BY <1>6, <2>1, StillSound, CleanupStep
<1>7. CASE Elapse
  <2>1. UNCHANGED vars
    BY <1>7 DEF Elapse
  <2> QED BY <1>7, <2>1, StillSound, ElapseStep
<1> QED BY <1>2, <1>3, <1>4, <1>5, <1>6, <1>7 DEF ChatNext

LEMMA ChatInvariance == ChatSpec => [](GameInv /\ ChatInv)
<1>1. ChatInit => GameInv /\ ChatInv
  BY InitInv, BucketFacts DEF ChatInit, ChatInv, Refill
<1> QED BY <1>1, ChatStep, PTL DEF ChatSpec

\* With talk about it the indexes still agree: a send that fails while somebody
\* talks ends a connection and takes nobody out of one index only
\* (PlayerManager.cpp:9).
THEOREM IndexesAgreeInTalk == ChatSpec => []IndexesAgree
<1>1. GameInv /\ ChatInv => IndexesAgree
  BY Consequences
<1> QED BY <1>1, ChatInvariance, PTL

\* Nor does it spend a key again (AuthTicketManager.cpp:13).
THEOREM KeysSpentOnceInTalk == ChatSpec => []KeysSpentOnce
<1>1. GameInv /\ ChatInv => KeysSpentOnce
  BY Consequences
<1> QED BY <1>1, ChatInvariance, PTL

LEMMA ChatPresenceStep ==
  GameInv /\ Presence(game) /\ [ChatNext]_<<vars, chatVars>> => Presence(game)'
<1> SUFFICES ASSUME GameInv, Presence(game), [ChatNext]_<<vars, chatVars>>
             PROVE  Presence(game)'
  OBVIOUS
<1>1. CASE [Next]_vars
  BY <1>1, PresenceStep
<1>2. ASSUME NEW s \in Sessions,
             \/ RateLimited(s) \/ InvalidMessage(s) \/ SendMap(s)
             \/ \E c \in Characters : SendWhisper(s, c)
      PROVE  Presence(game)'
  <2>1. Presence(game')
    BY <1>2, TalkPresence
  <2> QED BY <2>1 DEF Presence, Watching, Connected, Meets, Known, Together
<1> QED BY <1>1, <1>2 DEF ChatNext, Next, Cleanup, Elapse

\* A send that fails while somebody talks leaves no ghost in anybody's map and
\* nobody unseen (Map.cpp:261).
THEOREM PresenceInTalk == ChatSpec => []PresenceAgrees
<1>1. ChatInit => Presence(game)
  BY EmptyPresence DEF ChatInit, Init
<1>2. GameInv /\ Presence(game) /\ [ChatNext]_<<vars, chatVars>> => Presence(game)'
  BY ChatPresenceStep
<1>3. GameInv /\ Presence(game) => PresenceAgrees
  BY PresenceAgreed
<1> QED BY <1>1, <1>2, <1>3, ChatInvariance, PTL DEF ChatSpec

\* An account says as much as its bucket holds and time refills, for any
\* capacity and cost, however often it reconnects and whenever buckets are
\* erased (ChatLimiter.h:29).
THEOREM SpeechIsExact == ChatSpec => []SpeechExact
<1>1. GameInv /\ ChatInv => SpeechExact
  BY BucketFacts DEF ChatInv, SpeechExact
<1> QED BY <1>1, ChatInvariance, PTL
=============================================================================
