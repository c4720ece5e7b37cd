SPECIFICATION FairSpec
CONSTANTS
  Nobody = Nobody
  p1 = p1  p2 = p2
  Players = {p1, p2}
  Monsters = {slime}
  lawn = lawn  hill = hill
  Places = {lawn, hill}
  Home = lawn
  Within <- MCWithin
  Part = 0
  Entrance = lawn
  Paths <- MCPaths
  MonsterHp = 3
  Blows = {2}
  PlayerHp = 1
  HitLimit <- MCHitLimit
  Numbers <- MCNumbers
  Cooldown = 1
  Interval = 0
  RespawnDelay = 1
  ReviveDelay = 0
  Period = 1
  Heartbeat = 2
INVARIANTS
  SwingsSpaced
  ReviveIsAlone
  PausedHasHit
PROPERTIES
  NeverBack
  BroadcastShowsAll
  MonsterReturns
