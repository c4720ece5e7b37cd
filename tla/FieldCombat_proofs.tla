------------------------- MODULE FieldCombat_proofs -------------------------
(***************************************************************************)
(* Proofs about FieldCombat for all players, monsters and delays.          *)
(*                                                                         *)
(* The invariants about players speak of one player each: AllSound says    *)
(* them of every player, and a step is proved by what it makes of one      *)
(* record.  The property about what is shown rests on Shown: no client has *)
(* been sent a later revision than the monster's, and the cached records   *)
(* are never older than it.                                                *)
(***************************************************************************)
EXTENDS FieldCombat, FiniteSetTheorems, TLAPS

(***************************************************************************)
(* One player.  t is the time since its last swing.                        *)
(***************************************************************************)

Sound(r, t) ==
  /\ r \in PlayerSet /\ t \in 0..Cooldown
  /\ r.reviving => r.hits = 0 /\ r.ready /\ r.hp = 0
  /\ r.paused => r.hits > 0
  /\ r.where # "gone" => r.cooldown + t >= Cooldown

AllSound(players, times) ==
  /\ players \in [Players -> PlayerSet] /\ times \in [Players -> 0..Cooldown]
  /\ \A p \in Players : Sound(players[p], times[p])

LEMMA ClosingSound ==
  ASSUME NEW players, NEW times, AllSound(players, times), NEW S
  PROVE  AllSound(Closing(players, S), times)
<1>1. ASSUME NEW p \in Players
      PROVE  Sound(Closing(players, S)[p], times[p])
  BY DEF AllSound, Closing, Sound, PlayerSet
<1>2. Closing(players, S) \in [Players -> PlayerSet]
  BY DEF AllSound, Closing, PlayerSet
<1> QED BY <1>1, <1>2 DEF AllSound

LEMMA OneChanged ==
  ASSUME AllSound(player, rest), NEW p \in Players, NEW r, NEW t, Sound(r, t)
  PROVE  /\ AllSound([player EXCEPT ![p] = r], [rest EXCEPT ![p] = t])
         /\ t = rest[p] => AllSound([player EXCEPT ![p] = r], rest)
<1>1. r \in PlayerSet /\ t \in 0..Cooldown
  BY DEF Sound
<1> QED BY <1>1 DEF AllSound

\* One field is changed.
LEMMA FieldSound ==
  ASSUME NEW r, NEW t, Sound(r, t)
  PROVE  /\ \A n \in Nat : Sound([r EXCEPT !.last = n], t)
         /\ Sound([r EXCEPT !.cooldown = Cooldown], 0)
         /\ \A n \in Nat : Sound([r EXCEPT !.reviveIn = n], t)
         /\ Sound([r EXCEPT !.reviving = FALSE], t)
         /\ r.hits = 0 /\ r.ready /\ r.hp = 0 => Sound([r EXCEPT !.reviving = TRUE], t)
         /\ r.where # "gone" => \A w \in {"field", "elsewhere"} : Sound([r EXCEPT !.where = w], t)
         /\ \A x \in Places : Sound([r EXCEPT !.pose = x], t)
         /\ Sound([r EXCEPT !.paused = FALSE], t)
         /\ Sound([r EXCEPT !.ready = TRUE], t)
         /\ r.hits > 0 => Sound([r EXCEPT !.paused = TRUE], t) /\ Sound([r EXCEPT !.ready = FALSE], t)
         /\ ~r.reviving => \A hp \in 0..PlayerHp : Sound([r EXCEPT !.hp = hp], t)
<1>1. Cooldown \in Nat
  BY CombatAssumption DEF CombatAssumption
<1>2. \A n \in Nat : Sound([r EXCEPT !.last = n], t)
  BY DEF Sound, PlayerSet
<1>3. Sound([r EXCEPT !.cooldown = Cooldown], 0)
  BY <1>1 DEF Sound, PlayerSet
<1>4. \A n \in Nat : Sound([r EXCEPT !.reviveIn = n], t)
  BY DEF Sound, PlayerSet
<1>5. Sound([r EXCEPT !.reviving = FALSE], t)
  BY DEF Sound, PlayerSet
<1>6. r.hits = 0 /\ r.ready /\ r.hp = 0 => Sound([r EXCEPT !.reviving = TRUE], t)
  BY DEF Sound, PlayerSet
<1>7. r.where # "gone" => \A w \in {"field", "elsewhere"} : Sound([r EXCEPT !.where = w], t)
  BY DEF Sound, PlayerSet
<1>8. Sound([r EXCEPT !.paused = FALSE], t) /\ Sound([r EXCEPT !.ready = TRUE], t)
  BY DEF Sound, PlayerSet
<1>9. /\ r.hits > 0 => Sound([r EXCEPT !.paused = TRUE], t)
      /\ r.hits > 0 => Sound([r EXCEPT !.ready = FALSE], t)
  <2>1. ASSUME r.hits > 0
        PROVE  r \in PlayerSet /\ ~r.reviving
    BY <2>1 DEF Sound, PlayerSet
  <2>2. ASSUME r.hits > 0
        PROVE  Sound([r EXCEPT !.paused = TRUE], t)
    BY <2>1, <2>2 DEF Sound, PlayerSet
  <2>3. ASSUME r.hits > 0
        PROVE  Sound([r EXCEPT !.ready = FALSE], t)
    BY <2>1, <2>3 DEF Sound, PlayerSet
  <2> QED BY <2>2, <2>3
<1>10. ~r.reviving => \A hp \in 0..PlayerHp : Sound([r EXCEPT !.hp = hp], t)
  BY DEF Sound, PlayerSet
<1>11. \A x \in Places : Sound([r EXCEPT !.pose = x], t)
  BY DEF Sound, PlayerSet
<1> QED BY <1>2, <1>3, <1>4, <1>5, <1>6, <1>7, <1>8, <1>9, <1>10, <1>11

\* A number is used up, accepted or not; an accepted one starts the cooldown.
LEMMA AttackSound ==
  ASSUME NEW r, NEW t, Sound(r, t), NEW n \in Nat
  PROVE  Sound([r EXCEPT !.last = n, !.cooldown = Cooldown], 0)
<1> DEFINE u == [r EXCEPT !.last = n]
<1>1. Sound(u, t)
  BY FieldSound
<1> HIDE DEF u
<1>2. Sound([u EXCEPT !.cooldown = Cooldown], 0)
  BY <1>1, FieldSound
<1> QED BY <1>2 DEF u

LEMMA HitsSound ==
  ASSUME NEW r, NEW t, Sound(r, t), NEW k \in Nat, k > 0 => r.hp > 0 /\ r.ready
  PROVE  Sound([r EXCEPT !.hits = @ + k], t)
BY DEF Sound, PlayerSet

LEMMA BackSound ==
  ASSUME NEW r, NEW t, Sound(r, t), r.hits > 0
  PROVE  Sound([r EXCEPT !.paused = TRUE, !.ready = FALSE], t)
<1> DEFINE u == [r EXCEPT !.paused = TRUE]
<1>1. Sound(u, t) /\ u.hits > 0
  <2>1. Sound(u, t)
    BY FieldSound
  <2>2. u.hits = r.hits
    BY DEF Sound, PlayerSet
  <2> QED BY <2>1, <2>2
<1> HIDE DEF u
<1>2. Sound([u EXCEPT !.ready = FALSE], t)
  BY <1>1, FieldSound
<1> QED BY <1>2 DEF u

LEMMA ElapseSound ==
  ASSUME NEW r, NEW t, Sound(r, t)
  PROVE  Sound([r EXCEPT !.cooldown = Less(@), !.reviveIn = Less(@)],
               IF t < Cooldown THEN t + 1 ELSE t)
<1> DEFINE u == [r EXCEPT !.cooldown = Less(r.cooldown)]
           later == IF t < Cooldown THEN t + 1 ELSE t
<1>1. Less(r.cooldown) \in Nat /\ Less(r.cooldown) + 1 >= r.cooldown /\ Less(r.reviveIn) \in Nat
  BY DEF Sound, PlayerSet, Less
<1>2. Cooldown \in Nat /\ later \in 0..Cooldown
  BY CombatAssumption DEF CombatAssumption, Sound
<1>3. Sound(u, later)
  BY <1>1, <1>2 DEF Sound, PlayerSet
<1> HIDE DEF u, later
<1>4. Sound([u EXCEPT !.reviveIn = Less(r.reviveIn)], later)
  BY <1>1, <1>3, FieldSound
<1> QED BY <1>4 DEF u, later

LEMMA JoinSound ==
  ASSUME NEW r, Sound(r, Cooldown), ~r.reviving, r.where = "gone"
  PROVE  Sound([r EXCEPT !.where = "elsewhere", !.hp = PlayerHp, !.ready = TRUE], Cooldown)
<1> DEFINE u == [r EXCEPT !.where = "elsewhere"]
           v == [u EXCEPT !.hp = PlayerHp]
<1>1. Sound(u, Cooldown) /\ ~u.reviving
  BY CombatAssumption DEF CombatAssumption, Sound, PlayerSet
<1> HIDE DEF u
<1>2. PlayerHp \in 0..PlayerHp
  BY CombatAssumption DEF CombatAssumption
<1>3. Sound(v, Cooldown)
  BY <1>1, <1>2, FieldSound
<1> HIDE DEF v
<1>4. Sound([v EXCEPT !.ready = TRUE], Cooldown)
  BY <1>3, FieldSound
<1> QED BY <1>4 DEF u, v

LEMMA GoneSound == Sound(Gone, Cooldown) /\ Sound(Entered, Cooldown)
<1>1. Cooldown \in Nat /\ PlayerHp \in Nat /\ Entrance \in Places
  BY CombatAssumption DEF CombatAssumption
<1>2. Gone \in PlayerSet /\ ~Gone.paused /\ ~Gone.reviving /\ Gone.where = "gone"
  BY <1>1 DEF Gone, PlayerSet
<1>3. Sound(Gone, Cooldown)
  BY <1>1, <1>2 DEF Sound
<1> QED BY <1>2, <1>3, JoinSound DEF Entered

\* What an answer makes of its player, given what SetVitals makes of it.
LEMMA HurtSound ==
  ASSUME NEW r, NEW t, Sound(r, t), r.hits > 0
  PROVE  Sound([r EXCEPT !.paused = FALSE, !.hits = @ - 1], t)
<1> DEFINE u == [r EXCEPT !.paused = FALSE]
<1>1. Sound(u, t) /\ ~u.paused /\ ~u.reviving /\ u.hits = r.hits
  <2>1. Sound(u, t)
    BY FieldSound
  <2>2. ~u.paused /\ u.reviving = r.reviving /\ u.hits = r.hits
    BY DEF Sound, PlayerSet
  <2>3. ~r.reviving
    BY DEF Sound, PlayerSet
  <2> QED BY <2>1, <2>2, <2>3
<1>2. r.hits - 1 \in Nat
  BY DEF Sound, PlayerSet
<1> HIDE DEF u
<1>3. Sound([u EXCEPT !.hits = r.hits - 1], t)
  BY <1>1, <1>2 DEF Sound, PlayerSet
<1> QED BY <1>3 DEF u

LEMMA VitalsSound ==
  ASSUME AllSound(player, rest), NEW p \in Players, NEW hp \in 0..PlayerHp, ~player[p].reviving
  PROVE  Sound(SetVitals(p, hp), rest[p]) /\ SetVitals(p, hp).hits = player[p].hits
<1>1. Sound(player[p], rest[p])
  BY DEF AllSound
<1> QED BY <1>1, CombatAssumption DEF CombatAssumption, SetVitals, Sound, PlayerSet

\* A revival ends with an answer and is over.
LEMMA RevivedSound ==
  ASSUME AllSound(player, rest), NEW p \in Players, NEW hp \in 0..PlayerHp
  PROVE  Sound([SetVitals(p, hp) EXCEPT !.reviving = FALSE], rest[p])
<1>1. Sound(player[p], rest[p])
  BY DEF AllSound
<1>2. ASSUME NEW r \in PlayerSet, r.paused => r.hits > 0,
             r.where # "gone" => r.cooldown + rest[p] >= Cooldown
      PROVE  Sound([r EXCEPT !.reviving = FALSE], rest[p])
  BY <1>1, <1>2 DEF Sound, PlayerSet
<1>3. /\ SetVitals(p, hp) \in PlayerSet
      /\ SetVitals(p, hp).hits = player[p].hits /\ SetVitals(p, hp).where = player[p].where
      /\ SetVitals(p, hp).paused = player[p].paused
      /\ SetVitals(p, hp).cooldown = player[p].cooldown
  BY <1>1, CombatAssumption DEF CombatAssumption, SetVitals, Sound, PlayerSet
<1> QED BY <1>1, <1>2, <1>3 DEF Sound

(***************************************************************************)
(* Every player, through every step.                                       *)
(***************************************************************************)

LEMMA InitSound == Init => AllSound(player, rest)
BY GoneSound DEF Init, AllSound, Sound

\* Only who can be hit is.
LEMMA StruckSound ==
  ASSUME AllSound(player, rest), NEW hit \in Strikes
  PROVE  AllSound(Struck(hit), rest)
<1> DEFINE Of(p) == {m \in Monsters : hit[m] = p}
<1>1. ASSUME NEW p \in Players
      PROVE  /\ Cardinality(Of(p)) \in Nat
             /\ Cardinality(Of(p)) > 0 => player[p].hp > 0 /\ player[p].ready
  <2>1. IsFiniteSet(Of(p))
    BY FS_Subset, CombatAssumption DEF CombatAssumption
  <2>2. Cardinality(Of(p)) \in Nat
    BY <2>1, FS_CardinalityType
  <2>3. ASSUME Of(p) # {}
        PROVE  player[p].hp > 0 /\ player[p].ready
    <3>1. PICK m \in Monsters : hit[m] = p
      BY <2>3
    <3>2. p # Nobody
      BY CombatAssumption DEF CombatAssumption
    <3>3. CanAttack(p)
      BY <3>1, <3>2 DEF Strikes
    <3> QED BY <3>3 DEF CanAttack
  <2>4. Of(p) = {} => Cardinality(Of(p)) = 0
    BY FS_EmptySet
  <2> QED BY <2>2, <2>3, <2>4
<1> HIDE DEF Of
<1>2. ASSUME NEW p \in Players
      PROVE  Sound([player[p] EXCEPT !.hits = @ + Cardinality(Of(p))], rest[p])
  BY <1>1, HitsSound DEF AllSound
<1> DEFINE hurt(p) == [player[p] EXCEPT !.hits = @ + Cardinality(Of(p))]
<1>3. Struck(hit) = [p \in Players |-> hurt(p)]
  BY DEF Struck, Of
<1>4. \A p \in Players : Sound(hurt(p), rest[p])
  BY <1>2
<1> HIDE DEF hurt
<1>5. \A p \in Players : hurt(p) \in PlayerSet
  BY <1>4 DEF Sound
<1> QED BY <1>3, <1>4, <1>5 DEF AllSound

LEMMA TickSound ==
  ASSUME AllSound(player, rest), Tick
  PROVE  AllSound(player', rest')
<1>1. CASE IdleTick
  BY <1>1 DEF IdleTick
<1>2. CASE QuietTick
  BY <1>2, StruckSound DEF QuietTick
<1>3. CASE BroadcastTick
  <2>1. PICK hit \in Strikes, failing \in SUBSET Present : player' = Closing(Struck(hit), failing)
    BY <1>3 DEF BroadcastTick
  <2> QED BY <1>3, <2>1, StruckSound, ClosingSound DEF BroadcastTick
<1> QED BY <1>1, <1>2, <1>3 DEF Tick

LEMMA SwingsSound ==
  ASSUME AllSound(player, rest), NEW p \in Players, NEW n \in Numbers[p],
         \/ AttackRefused(p, n) \/ AttackMissed(p, n)
         \/ \E m \in Monsters, blow \in Blows : AttackHit(p, n, m, blow)
  PROVE  AllSound(player', rest')
<1>1. n \in Nat
  BY CombatAssumption DEF CombatAssumption
<1>2. player[p] \in PlayerSet /\ Sound(player[p], rest[p])
  BY DEF AllSound
<1>3. CASE AttackRefused(p, n)
  <2>1. player' = [player EXCEPT ![p] = [player[p] EXCEPT !.last = n]] /\ rest' = rest
    BY <1>3 DEF AttackRefused
  <2>2. Sound([player[p] EXCEPT !.last = n], rest[p])
    BY <1>1, <1>2, FieldSound
  <2> QED BY <2>1, <2>2, OneChanged
<1>4. CASE \/ AttackMissed(p, n) \/ \E m \in Monsters, blow \in Blows : AttackHit(p, n, m, blow)
  <2>1. PICK failing : player' = Closing(Swung(p, n), failing)
    BY <1>4 DEF AttackMissed, AttackHit
  <2>2. rest' = [rest EXCEPT ![p] = 0]
    BY <1>4 DEF AttackMissed, AttackHit, Swing
  <2>3. Swung(p, n) = [player EXCEPT ![p] = [player[p] EXCEPT !.last = n, !.cooldown = Cooldown]]
    BY DEF Swung, AllSound
  <2> DEFINE spent == [player[p] EXCEPT !.last = n, !.cooldown = Cooldown]
  <2>4. Sound(spent, 0)
    BY <1>1, <1>2, AttackSound
  <2> HIDE DEF spent
  <2>5. AllSound([player EXCEPT ![p] = spent], [rest EXCEPT ![p] = 0])
    BY <2>4, OneChanged
  <2>6. Swung(p, n) = [player EXCEPT ![p] = spent]
    BY <2>3 DEF spent
  <2> QED BY <2>1, <2>2, <2>5, <2>6, ClosingSound
<1> QED BY <1>3, <1>4

LEMMA AnswersSound ==
  ASSUME AllSound(player, rest), NEW p \in Players, HitCommitted(p) \/ HitUnanswered(p)
  PROVE  AllSound(player', rest')
<1>1. Sound(player[p], rest[p]) /\ player[p].hits > 0 /\ rest' = rest
  BY DEF AllSound, HitCommitted, HitUnanswered
<1>2. CASE HitCommitted(p)
  <2> DEFINE hp == IF player[p].hp > 0 THEN player[p].hp - 1 ELSE 0
             hurt == [SetVitals(p, hp) EXCEPT !.paused = FALSE, !.hits = @ - 1]
  <2>1. hp \in 0..PlayerHp /\ ~player[p].reviving
    BY <1>1, CombatAssumption DEF CombatAssumption, Sound, PlayerSet
  <2>2. PICK failing : player' = Closing([player EXCEPT ![p] = hurt], failing)
    BY <1>2 DEF HitCommitted
  <2> HIDE DEF hp
  <2>3. Sound(hurt, rest[p])
    BY <1>1, <2>1, VitalsSound, HurtSound
  <2> HIDE DEF hurt
  <2> QED BY <1>1, <2>2, <2>3, OneChanged, ClosingSound
<1>3. CASE HitUnanswered(p)
  <2>1. PICK failing : player' = Closing([player EXCEPT ![p] = PutBack(p)], failing)
    BY <1>3 DEF HitUnanswered
  <2>2. Sound(PutBack(p), rest[p])
    BY <1>1, BackSound DEF PutBack
  <2> QED BY <1>1, <2>1, <2>2, OneChanged, ClosingSound
<1> QED BY <1>2, <1>3

LEMMA RevivalsSound ==
  ASSUME AllSound(player, rest), NEW p \in Players,
         ReviveRequest(p) \/ Revived(p) \/ ReviveFailed(p)
  PROVE  AllSound(player', rest')
<1>1. Sound(player[p], rest[p]) /\ rest' = rest
  BY DEF AllSound, ReviveRequest, Revived, ReviveFailed
<1>2. CASE ReviveRequest(p)
  <2>1. player' = [player EXCEPT ![p] = [player[p] EXCEPT !.reviving = TRUE]]
    BY <1>2 DEF ReviveRequest
  <2>2. player[p].hits = 0 /\ player[p].ready /\ player[p].hp = 0
    BY <1>1, <1>2 DEF ReviveRequest, FieldBusy, IsDead, Sound, PlayerSet
  <2>3. Sound([player[p] EXCEPT !.reviving = TRUE], rest[p])
    BY <1>1, <2>2, FieldSound
  <2> QED BY <1>1, <2>1, <2>3, OneChanged
<1>3. CASE Revived(p)
  <2> DEFINE alive == [SetVitals(p, PlayerHp) EXCEPT !.reviving = FALSE]
             there == IF p \in Present THEN [alive EXCEPT !.pose = Entrance] ELSE alive
             back == [player EXCEPT ![p] = there]
  <2>1. PlayerHp \in 0..PlayerHp /\ Entrance \in Places
    BY CombatAssumption DEF CombatAssumption
  <2>2. Sound(alive, rest[p])
    BY <2>1, RevivedSound
  <2>3. player' = back \/ \E failing : player' = Closing(back, failing)
    BY <1>3 DEF Revived, Appear
  <2> HIDE DEF alive
  <2>4. AllSound(back, rest)
    <3>1. Sound(there, rest[p])
      BY <2>1, <2>2, FieldSound
    <3> HIDE DEF there
    <3> QED BY <3>1, OneChanged
  <2> HIDE DEF back
  <2> QED BY <1>1, <2>3, <2>4, ClosingSound
<1>4. CASE ReviveFailed(p)
  <2>1. player' = [player EXCEPT ![p] = [player[p] EXCEPT !.reviving = FALSE]]
    BY <1>4 DEF ReviveFailed
  <2>2. Sound([player[p] EXCEPT !.reviving = FALSE], rest[p])
    BY <1>1, FieldSound
  <2> QED BY <1>1, <2>1, <2>2, OneChanged
<1> QED BY <1>2, <1>3, <1>4

LEMMA ChangesSound ==
  ASSUME AllSound(player, rest), NEW p \in Players,
         \/ EnterField(p) \/ LeaveField(p) \/ Disconnect(p)
         \/ \E pose \in Paths[p] : Walk(p, pose)
  PROVE  AllSound(player', rest')
<1>1. Sound(player[p], rest[p]) /\ player[p].where # "gone"
  BY DEF AllSound, EnterField, LeaveField, Disconnect, Walk, CanChange, Open
<1>2. CASE EnterField(p)
  <2>1. PICK failing : player' = Closing(BeginMap(p), failing)
    BY <1>2 DEF EnterField, Appear
  <2> DEFINE there == [player[p] EXCEPT !.where = "field"]
             begun == [there EXCEPT !.pose = Entrance]
  <2>2. BeginMap(p) = [player EXCEPT ![p] = begun] /\ rest' = rest
    BY <1>2 DEF BeginMap, EnterField, AllSound
  <2>3. Sound(begun, rest[p])
    <3>1. Sound(there, rest[p]) /\ Entrance \in Places
      BY <1>1, CombatAssumption, FieldSound DEF CombatAssumption
    <3> HIDE DEF there
    <3> QED BY <3>1, FieldSound
  <2> HIDE DEF begun
  <2> QED BY <2>1, <2>2, <2>3, OneChanged, ClosingSound
<1>3. CASE LeaveField(p)
  <2> DEFINE gone == [player EXCEPT ![p] = [player[p] EXCEPT !.where = "elsewhere"]]
  <2>1. PICK failing : player' = Closing(gone, failing)
    BY <1>3 DEF LeaveField
  <2>2. rest' = rest
    BY <1>3 DEF LeaveField
  <2>3. Sound([player[p] EXCEPT !.where = "elsewhere"], rest[p])
    BY <1>1, FieldSound
  <2>4. AllSound(gone, rest)
    BY <2>3, OneChanged
  <2> HIDE DEF gone
  <2> QED BY <2>1, <2>2, <2>4, ClosingSound
<1>4. CASE Disconnect(p)
  <2>1. PICK failing : player' = [Closing(player, failing) EXCEPT ![p] = Gone]
    BY <1>4 DEF Disconnect
  <2>2. rest' = [rest EXCEPT ![p] = Cooldown]
    BY <1>4 DEF Disconnect
  <2>3. AllSound(Closing(player, failing), rest)
    BY ClosingSound
  <2>4. Gone \in PlayerSet /\ Cooldown \in 0..Cooldown
    BY GoneSound DEF Sound
  <2> QED BY <2>1, <2>2, <2>3, <2>4, GoneSound DEF AllSound
<1>5. ASSUME NEW pose \in Paths[p], Walk(p, pose)
      PROVE  AllSound(player', rest')
  <2>1. player' = [player EXCEPT ![p] = [player[p] EXCEPT !.pose = pose]] /\ rest' = rest
    BY <1>5 DEF Walk
  <2>2. pose \in Places
    BY CombatAssumption DEF CombatAssumption
  <2>3. Sound([player[p] EXCEPT !.pose = pose], rest[p])
    BY <1>1, <2>2, FieldSound
  <2> QED BY <2>1, <2>3, OneChanged
<1> QED BY <1>2, <1>3, <1>4, <1>5

LEMMA TimeSound ==
  ASSUME AllSound(player, rest), Elapse
  PROVE  AllSound(player', rest')
<1>1. ASSUME NEW p \in Players
      PROVE  Sound([player[p] EXCEPT !.cooldown = Less(@), !.reviveIn = Less(@)],
                   IF rest[p] < Cooldown THEN rest[p] + 1 ELSE rest[p])
  BY ElapseSound DEF AllSound
<1>2. /\ player' = [p \in Players |->
             [player[p] EXCEPT !.cooldown = Less(@), !.reviveIn = Less(@)]]
      /\ rest' = [p \in Players |-> IF rest[p] < Cooldown THEN rest[p] + 1 ELSE rest[p]]
  BY DEF Elapse
<1> QED BY <1>1, <1>2 DEF AllSound, Sound

LEMMA NextSound ==
  ASSUME AllSound(player, rest), [Next]_vars
  PROVE  AllSound(player', rest')
<1>1. CASE UNCHANGED vars
  BY <1>1 DEF vars
<1>2. ASSUME NEW p \in Players, PlayerStep(p)
      PROVE  AllSound(player', rest')
  BY <1>2, SwingsSound, AnswersSound, RevivalsSound, ChangesSound DEF PlayerStep
<1> QED BY <1>1, <1>2, TickSound, TimeSound DEF Next

LEMMA SpecSound == Spec => []AllSound(player, rest)
<1>1. Init => AllSound(player, rest)
  BY InitSound
<1>2. AllSound(player, rest) /\ [Next]_vars => AllSound(player, rest)'
  BY NextSound
<1> QED BY <1>1, <1>2, PTL DEF Spec

\* For any players and delays, a player swings no more often than the cooldown
\* allows, whatever maps it changes to and however it is revived (Player.h:82).
THEOREM SwingsAreSpaced == Spec => []SwingsSpaced
<1>1. AllSound(player, rest) => SwingsSpaced
  <2> SUFFICES ASSUME AllSound(player, rest), NEW p \in Players,
                      player[p].where # "gone", player[p].cooldown = 0
               PROVE  rest[p] = Cooldown
    BY DEF SwingsSpaced
  <2>1. Cooldown \in Nat /\ rest[p] \in 0..Cooldown /\ 0 + rest[p] >= Cooldown
    BY CombatAssumption DEF CombatAssumption, AllSound, Sound
  <2> QED BY <2>1
<1> QED BY <1>1, SpecSound, PTL

\* For any number of monsters and hits, none is queued with a revival
\* (GamePacketHandler.cpp:69).
THEOREM RevivalsAreAlone == Spec => []ReviveIsAlone
<1>1. AllSound(player, rest) => ReviveIsAlone
  BY DEF AllSound, Sound, ReviveIsAlone, IsDead
<1> QED BY <1>1, SpecSound, PTL

\* Whoever is out of the fight still has the hit that brings it back
\* (GameSession.cpp:131).
THEOREM PausedHaveHits == Spec => []PausedHasHit
<1>1. AllSound(player, rest) => PausedHasHit
  BY DEF AllSound, Sound, PausedHasHit
<1> QED BY <1>1, SpecSound, PTL

(***************************************************************************)
(* What is shown.  Past(a, b): a was the state of a monster whose state is *)
(* b now; a revision has one HP.                                           *)
(***************************************************************************)

Past(a, b) == a.revision <= b.revision /\ (a.revision = b.revision => a.hp = b.hp)

Views == [Players -> [records : ListSet \cup {Nobody}, heartbeat : Nat]]
Screens == [Players -> ListSet \cup {Nobody}]
ShownTypes ==
  /\ monster \in [Monsters -> MonsterSet]
  /\ cache \in Snapshots \cup {Nobody}
  /\ broadcast \in Nat
  /\ view \in Views /\ screen \in Screens

CacheCurrent == cache # Nobody => \A m \in Monsters :
                  cache[m].revision = monster[m].revision /\ cache[m].hp = monster[m].hp
ScreensPast == \A p \in Players, m \in Monsters :
                 Showing(screen[p], m) => Past(screen[p][m], monster[m])
Shown == ShownTypes /\ CacheCurrent /\ ScreensPast

\* What the property says of one step.
Forward ==
  \A p \in Players, m \in Monsters :
    Showing(screen[p], m) /\ Showing(screen'[p], m) => Past(screen[p][m], screen'[p][m])

LEMMA ShowingRecord ==
  ASSUME NEW list \in ListSet \cup {Nobody}, NEW m \in Monsters, Showing(list, m)
  PROVE  list \in ListSet /\ list[m] \in RecordSet /\ list[m].revision \in Nat
BY DEF Showing, ListSet, RecordSet

\* What some players are sent of a snapshot.
LEMMA ListsOf ==
  ASSUME NEW records \in Snapshots, NEW players
  PROVE  /\ Lists(records, players) \in [Players -> ListSet]
         /\ \A p \in Players, m \in Monsters :
              Lists(records, players)[p][m] =
                IF Visible(m, records, players[p].pose) THEN records[m] ELSE Nobody
BY DEF Lists, Listed, ListSet, Snapshots

LEMMA CurrentSnapshot ==
  ASSUME NEW monsters \in [Monsters -> MonsterSet]
  PROVE  /\ Current(monsters) \in Snapshots
         /\ \A m \in Monsters : /\ Current(monsters)[m].revision = monsters[m].revision
                                /\ Current(monsters)[m].hp = monsters[m].hp
BY DEF Current, Record, Snapshots, RecordSet, MonsterSet

\* One field of a monster is changed.
LEMMA MonsterField ==
  ASSUME NEW r \in MonsterSet
  PROVE  /\ \A hp \in 0..MonsterHp :
              /\ [r EXCEPT !.hp = hp] \in MonsterSet /\ [r EXCEPT !.hp = hp].hp = hp
              /\ [r EXCEPT !.hp = hp].revision = r.revision
         /\ \A n \in Nat :
              /\ [r EXCEPT !.revision = n] \in MonsterSet /\ [r EXCEPT !.revision = n].hp = r.hp
              /\ [r EXCEPT !.revision = n].revision = n
         /\ \A n \in Nat :
              /\ [r EXCEPT !.respawn = n] \in MonsterSet /\ [r EXCEPT !.respawn = n].hp = r.hp
              /\ [r EXCEPT !.respawn = n].revision = r.revision
         /\ \A n \in Nat :
              /\ [r EXCEPT !.attack = n] \in MonsterSet /\ [r EXCEPT !.attack = n].hp = r.hp
              /\ [r EXCEPT !.attack = n].revision = r.revision
         /\ \A x \in Places :
              /\ [r EXCEPT !.place = x] \in MonsterSet /\ [r EXCEPT !.place = x].hp = r.hp
              /\ [r EXCEPT !.place = x].revision = r.revision
BY DEF MonsterSet

LEMMA SimulatedLater ==
  ASSUME ShownTypes, NEW hit, NEW moved \in [Monsters -> Places]
  PROVE  /\ Simulated(hit, moved) \in [Monsters -> MonsterSet]
         /\ \A m \in Monsters : Past(monster[m], Simulated(hit, moved)[m])
<1>1. ASSUME NEW m \in Monsters
      PROVE  /\ Simulated(hit, moved)[m] \in MonsterSet
             /\ Past(monster[m], Simulated(hit, moved)[m])
  <2>1. monster[m] \in MonsterSet /\ moved[m] \in Places /\ Home \in Places
    BY CombatAssumption DEF CombatAssumption, ShownTypes
  <2>2. MonsterHp \in 0..MonsterHp /\ Interval \in Nat
    BY CombatAssumption DEF CombatAssumption
  <2>3. CASE m \in Living
    <3> DEFINE later == IF hit[m] # Nobody THEN Interval ELSE monster[m].attack
               there == [monster[m] EXCEPT !.place = moved[m]]
    <3>1. Simulated(hit, moved)[m] = [there EXCEPT !.attack = later]
      BY <2>3 DEF Simulated
    <3>2. later \in Nat
      BY <2>1, <2>2 DEF MonsterSet
    <3>3. there \in MonsterSet /\ there.hp = monster[m].hp /\ there.revision = monster[m].revision
      BY <2>1, MonsterField
    <3> HIDE DEF later, there
    <3>4. /\ [there EXCEPT !.attack = later] \in MonsterSet
          /\ [there EXCEPT !.attack = later].hp = monster[m].hp
          /\ [there EXCEPT !.attack = later].revision = monster[m].revision
      BY <3>2, <3>3, MonsterField
    <3>5. monster[m].revision \in Nat
      BY <2>1 DEF MonsterSet
    <3> QED BY <3>1, <3>4, <3>5 DEF Past
  <2>4. CASE m \notin Living /\ monster[m].respawn > 0
    BY <2>1, <2>4 DEF Simulated, Past, MonsterSet
  <2>5. CASE m \notin Living /\ ~(monster[m].respawn > 0)
    <3> DEFINE next == monster[m].revision + 1
               whole == [monster[m] EXCEPT !.hp = MonsterHp]
               back == [whole EXCEPT !.revision = next]
    <3>1. Simulated(hit, moved)[m] = [back EXCEPT !.place = Home]
      BY <2>5 DEF Simulated
    <3>2. monster[m].revision \in Nat /\ next \in Nat
      BY <2>1 DEF MonsterSet
    <3>3. whole \in MonsterSet
      BY <2>1, <2>2, MonsterField
    <3> HIDE DEF whole
    <3>4. back \in MonsterSet /\ back.revision = next
      BY <3>2, <3>3, MonsterField
    <3> HIDE DEF back
    <3>5. [back EXCEPT !.place = Home] \in MonsterSet /\ [back EXCEPT !.place = Home].revision = next
      BY <2>1, <3>4, MonsterField
    <3> QED BY <3>1, <3>2, <3>5 DEF Past
  <2> QED BY <2>3, <2>4, <2>5
<1>2. Simulated(hit, moved) = [m \in Monsters |-> Simulated(hit, moved)[m]]
  BY DEF Simulated
<1> QED BY <1>1, <1>2

LEMMA HitLater ==
  ASSUME ShownTypes, NEW m \in Monsters, NEW blow \in Blows
  PROVE  /\ HitCounted(m, blow) \in [Monsters -> MonsterSet]
         /\ \A n \in Monsters : Past(monster[n], HitCounted(m, blow)[n])
         /\ HitCounted(m, blow)[m].revision = monster[m].revision + 1
         /\ \A n \in Monsters \ {m} : HitCounted(m, blow)[n] = monster[n]
<1> DEFINE left == IF blow < monster[m].hp THEN monster[m].hp - blow ELSE 0
           delay == IF blow < monster[m].hp THEN monster[m].respawn ELSE RespawnDelay
           next == monster[m].revision + 1
           hurt == [monster[m] EXCEPT !.hp = left]
           counted == [hurt EXCEPT !.revision = next]
           struck == [counted EXCEPT !.respawn = delay]
<1>1. monster[m] \in MonsterSet /\ blow \in Nat /\ RespawnDelay \in Nat /\ MonsterHp \in Nat
  BY CombatAssumption DEF CombatAssumption, ShownTypes
<1>2. left \in 0..MonsterHp /\ delay \in Nat
  BY <1>1 DEF MonsterSet
<1>3. HitCounted(m, blow) = [monster EXCEPT ![m] = struck]
  BY DEF HitCounted, ShownTypes
<1> HIDE DEF left, delay
<1>4. struck \in MonsterSet /\ struck.revision = monster[m].revision + 1
  <2>1. next \in Nat
    BY <1>1 DEF MonsterSet
  <2>2. hurt \in MonsterSet
    BY <1>1, <1>2, MonsterField
  <2> HIDE DEF hurt
  <2>3. counted \in MonsterSet /\ counted.revision = next
    BY <2>1, <2>2, MonsterField
  <2> HIDE DEF counted
  <2> QED BY <1>2, <2>3, MonsterField
<1> HIDE DEF struck
<1>5. \A n \in Monsters : monster[n].revision \in Nat
  BY DEF ShownTypes, MonsterSet
<1> QED BY <1>3, <1>4, <1>5 DEF Past, ShownTypes

\* Lists of the monsters as they are now are sent to some, and the monsters
\* have not gone back since what the others were sent.
LEMMA ShowShown ==
  ASSUME Shown, NEW S, NEW records \in Snapshots, NEW players, Show(S, Lists(records, players)),
         monster' \in [Monsters -> MonsterSet],
         \A m \in Monsters : Past(monster[m], monster'[m]),
         \A m \in Monsters : /\ records[m].revision = monster'[m].revision
                             /\ records[m].hp = monster'[m].hp
  PROVE  ScreensPast' /\ Forward /\ screen' \in Screens /\ view' \in Views
<1> DEFINE lists == Lists(records, players)
<1>1. /\ lists \in [Players -> ListSet]
      /\ \A p \in Players, m \in Monsters : lists[p][m] \in {records[m], Nobody}
  BY ListsOf
<1>2. /\ view' = [p \in Players |-> IF p \in S
                    THEN [records |-> lists[p], heartbeat |-> Heartbeat] ELSE view[p]]
      /\ screen' = [p \in Players |-> IF p \in S THEN lists[p] ELSE screen[p]]
  BY DEF Show
<1> HIDE DEF lists
<1>3. Heartbeat \in Nat
  BY CombatAssumption DEF CombatAssumption
<1>4. screen' \in Screens /\ view' \in Views
  BY <1>1, <1>2, <1>3 DEF Shown, ShownTypes, Screens, Views
<1>5. ASSUME NEW p \in Players, NEW m \in Monsters, Showing(screen'[p], m)
      PROVE  /\ Past(screen'[p][m], monster'[m])
             /\ Showing(screen[p], m) => Past(screen[p][m], screen'[p][m])
  <2>1. Showing(screen[p], m) =>
          screen[p][m].revision \in Nat /\ Past(screen[p][m], monster[m])
    BY ShowingRecord DEF Shown, ShownTypes, Screens, ScreensPast
  <2>2. monster[m].revision \in Nat /\ monster'[m].revision \in Nat
    BY DEF Shown, ShownTypes, MonsterSet
  <2>3. Past(monster[m], monster'[m])
    OBVIOUS
  <2>4. Showing(screen[p], m) => Past(screen[p][m], monster'[m])
    BY <2>1, <2>2, <2>3 DEF Past
  <2>5. CASE p \in S
    <3>1. screen'[p][m] = records[m]
      BY <1>1, <1>2, <1>5, <2>5 DEF Showing
    <3>2. records[m].revision = monster'[m].revision /\ records[m].hp = monster'[m].hp
      OBVIOUS
    <3> QED BY <2>2, <2>4, <3>1, <3>2 DEF Past
  <2>6. CASE p \notin S
    <3>1. screen'[p] = screen[p]
      BY <1>2, <2>6
    <3> QED BY <1>5, <2>1, <2>4, <3>1 DEF Past
  <2> QED BY <2>5, <2>6
<1> QED BY <1>4, <1>5 DEF ScreensPast, Forward

\* Nothing is sent.
LEMMA SameScreens ==
  ASSUME Shown, monster' \in [Monsters -> MonsterSet],
         \A m \in Monsters : Past(monster[m], monster'[m]),
         \A p \in Players : screen'[p] \in {screen[p], Nobody}
  PROVE  ScreensPast' /\ Forward
<1>1. ASSUME NEW p \in Players, NEW m \in Monsters, Showing(screen'[p], m)
      PROVE  /\ Past(screen'[p][m], monster'[m])
             /\ Past(screen[p][m], screen'[p][m])
  <2>1. screen'[p] = screen[p] /\ Showing(screen[p], m)
    BY <1>1 DEF Showing
  <2>2. screen[p][m].revision \in Nat /\ Past(screen[p][m], monster[m])
    BY <2>1, ShowingRecord DEF Shown, ShownTypes, Screens, ScreensPast
  <2>3. /\ monster[m].revision \in Nat /\ monster'[m].revision \in Nat
        /\ Past(monster[m], monster'[m])
    BY DEF Shown, ShownTypes, MonsterSet
  <2> QED BY <2>1, <2>2, <2>3 DEF Past
<1> QED BY <1>1 DEF ScreensPast, Forward

LEMMA PastItself ==
  ASSUME ShownTypes
  PROVE  \A m \in Monsters : Past(monster[m], monster[m])
BY DEF Past, ShownTypes, MonsterSet

LEMMA InitShown == Init => Shown
<1> SUFFICES ASSUME Init PROVE Shown
  OBVIOUS
<1>1. monster \in [Monsters -> MonsterSet]
  BY CombatAssumption DEF CombatAssumption, Init, MonsterSet
<1>2. cache = Nobody /\ broadcast = 0 /\ \A p \in Players : screen[p] = Nobody
  BY DEF Init
<1>3. view \in Views /\ screen \in Screens
  BY DEF Init, Unseen, Views, Screens
<1> QED BY <1>1, <1>2, <1>3 DEF Shown, ShownTypes, CacheCurrent, ScreensPast, Showing

\* Who is not there stands for no record and no list.
LEMMA NotListed == Nobody \notin RecordSet /\ Nobody \notin ListSet /\ Nobody \notin Snapshots
<1> DEFINE All == [hp : Nat, revision : Nat, place : Places]
<1>1. Nobody \notin All /\ Nobody \notin [Monsters -> All \cup {Nobody}]
  BY CombatAssumption DEF CombatAssumption
<1>2. MonsterHp \in Nat
  BY CombatAssumption DEF CombatAssumption
<1>3. RecordSet \subseteq All
  BY <1>2 DEF RecordSet
<1> HIDE DEF All
<1>4. /\ ListSet \subseteq [Monsters -> All \cup {Nobody}]
      /\ Snapshots \subseteq [Monsters -> All \cup {Nobody}]
  BY <1>3 DEF ListSet, Snapshots
<1> QED BY <1>1, <1>3, <1>4

\* What a broadcast does.
LEMMA BroadcastStep ==
  ASSUME BroadcastTick
  PROVE  \E hit \in Strikes, moved \in Moves : \E due, failing :
           LET lists == Lists(Current(Simulated(hit, moved)), player)
           IN /\ due = {p \in Present : ~SeenSame(p, lists[p])}
              /\ monster' = Simulated(hit, moved)
              /\ player' = Closing(Struck(hit), failing)
              /\ Show(due \ failing, lists)
              /\ cache' = Current(Simulated(hit, moved))
BY DEF BroadcastTick

LEMMA TickShown ==
  ASSUME Shown, Tick
  PROVE  Shown' /\ Forward
<1>1. CASE IdleTick
  BY <1>1, PastItself, SameScreens DEF IdleTick, Shown, ShownTypes, CacheCurrent
<1>2. CASE QuietTick
  <2>1. PICK hit \in Strikes, moved \in Moves : monster' = Simulated(hit, moved)
    BY <1>2 DEF QuietTick
  <2>2. /\ monster' \in [Monsters -> MonsterSet]
        /\ \A m \in Monsters : Past(monster[m], monster'[m])
    BY <2>1, SimulatedLater DEF Moves, Shown
  <2>3. cache' = Nobody /\ UNCHANGED <<broadcast, view, screen>>
    BY <1>2 DEF QuietTick
  <2>4. ScreensPast' /\ Forward
    BY <2>2, <2>3, SameScreens
  <2> QED BY <2>2, <2>3, <2>4 DEF Shown, ShownTypes, CacheCurrent
<1>3. CASE BroadcastTick
  <2>0. PICK hit \in Strikes, moved \in Moves :
          \E due, failing :
            /\ monster' = Simulated(hit, moved)
            /\ Show(due \ failing, Lists(Current(Simulated(hit, moved)), player))
            /\ cache' = Current(Simulated(hit, moved))
    BY <1>3, BroadcastStep
  <2>1. PICK due, failing :
          /\ monster' = Simulated(hit, moved)
          /\ Show(due \ failing, Lists(Current(Simulated(hit, moved)), player))
          /\ cache' = Current(Simulated(hit, moved))
    BY <2>0
  <2>2. /\ monster' \in [Monsters -> MonsterSet]
        /\ \A m \in Monsters : Past(monster[m], monster'[m])
    BY <2>1, SimulatedLater DEF Moves, Shown
  <2>3. /\ Current(monster') \in Snapshots
        /\ \A m \in Monsters : /\ Current(monster')[m].revision = monster'[m].revision
                               /\ Current(monster')[m].hp = monster'[m].hp
    BY <2>2, CurrentSnapshot
  <2>4. Show(due \ failing, Lists(Current(monster'), player)) /\ cache' = Current(monster')
    BY <2>1
  <2>5. ScreensPast' /\ Forward /\ screen' \in Screens /\ view' \in Views
    BY <2>2, <2>3, <2>4, ShowShown
  <2>6. broadcast' \in Nat
    BY <1>3, CombatAssumption DEF CombatAssumption, BroadcastTick
  <2> QED BY <2>2, <2>3, <2>4, <2>5, <2>6 DEF Shown, ShownTypes, CacheCurrent
<1> QED BY <1>1, <1>2, <1>3 DEF Tick

\* The event of a hit changes the one monster it is of, where that is shown.
LEMMA ToldList ==
  ASSUME NEW s \in ListSet \cup {Nobody}, NEW m \in Monsters,
         NEW hp \in 0..MonsterHp, NEW n \in Nat
  PROVE  /\ Told(s, m, hp, n) \in ListSet \cup {Nobody}
         /\ \A k \in Monsters : Showing(Told(s, m, hp, n), k) <=> Showing(s, k)
         /\ Showing(s, m) => /\ Told(s, m, hp, n)[m].hp = hp
                           /\ Told(s, m, hp, n)[m].revision = n
         /\ \A k \in Monsters \ {m} : Showing(s, k) => Told(s, m, hp, n)[k] = s[k]
         /\ Told(s, m, hp, n) = Nobody <=> s = Nobody
<1>1. CASE ~Showing(s, m)
  BY <1>1 DEF Told, Showing
<1>2. CASE Showing(s, m)
  <2> DEFINE told == [s EXCEPT ![m].hp = hp, ![m].revision = n]
             cell == [s[m] EXCEPT !.hp = hp]
             both == [cell EXCEPT !.revision = n]
  <2>1. s \in ListSet /\ s[m] \in RecordSet
    BY <1>2, ShowingRecord
  <2>2. cell \in RecordSet /\ cell.hp = hp
    BY <2>1 DEF RecordSet
  <2>3. told = [s EXCEPT ![m] = both]
    BY <2>1 DEF ListSet
  <2> HIDE DEF cell
  <2>4. both \in RecordSet /\ both.hp = hp /\ both.revision = n
    BY <2>2 DEF RecordSet
  <2>5. Nobody \notin RecordSet /\ Nobody \notin ListSet
    BY NotListed
  <2> HIDE DEF both, told
  <2>6. /\ told \in ListSet /\ told[m] = both
        /\ \A k \in Monsters \ {m} : told[k] = s[k]
    BY <2>1, <2>3, <2>4 DEF ListSet
  <2>7. Told(s, m, hp, n) = told
    BY <1>2 DEF Told, Showing, told
  <2>8. told # Nobody /\ s # Nobody /\ both # Nobody
    BY <2>1, <2>4, <2>5, <2>6
  <2> QED BY <1>2, <2>4, <2>6, <2>7, <2>8 DEF Showing
<1> QED BY <1>1, <1>2

\* The event of a hit tells who is there; the records have to be built anew.
LEMMA HitShown ==
  ASSUME Shown, NEW p \in Players, NEW n, NEW m \in Monsters, NEW blow \in Blows,
         AttackHit(p, n, m, blow)
  PROVE  Shown' /\ Forward
<1>1. /\ monster' \in [Monsters -> MonsterSet]
      /\ \A k \in Monsters : Past(monster[k], monster'[k])
      /\ monster'[m].revision = monster[m].revision + 1
      /\ \A k \in Monsters \ {m} : monster'[k] = monster[k]
  BY HitLater DEF AttackHit, Shown
<1>2. cache' = Nobody /\ UNCHANGED <<broadcast, view>>
  BY DEF AttackHit, Rebuild
<1> DEFINE told(q) == Told(screen[q], m, monster'[m].hp, monster'[m].revision)
<1>3. \A q \in Players : screen'[q] \in {told(q), screen[q]}
  BY DEF AttackHit
<1>4. ASSUME NEW q \in Players
      PROVE  /\ told(q) \in ListSet \cup {Nobody}
             /\ \A k \in Monsters : Showing(told(q), k) <=> Showing(screen[q], k)
             /\ Showing(screen[q], m) => /\ told(q)[m].hp = monster'[m].hp
                                      /\ told(q)[m].revision = monster'[m].revision
             /\ \A k \in Monsters \ {m} : Showing(screen[q], k) => told(q)[k] = screen[q][k]
  <2> DEFINE hp == monster'[m].hp
             r == monster'[m].revision
  <2>1. screen[q] \in ListSet \cup {Nobody} /\ hp \in 0..MonsterHp /\ r \in Nat
    BY <1>1 DEF MonsterSet, Shown, ShownTypes, Screens
  <2> HIDE DEF hp, r
  <2>2. /\ Told(screen[q], m, hp, r) \in ListSet \cup {Nobody}
        /\ \A k \in Monsters : Showing(Told(screen[q], m, hp, r), k) <=> Showing(screen[q], k)
        /\ Showing(screen[q], m) => /\ Told(screen[q], m, hp, r)[m].hp = hp
                                 /\ Told(screen[q], m, hp, r)[m].revision = r
        /\ \A k \in Monsters \ {m} :
             Showing(screen[q], k) => Told(screen[q], m, hp, r)[k] = screen[q][k]
    BY <2>1, ToldList
  <2> QED BY <2>2 DEF hp, r
<1> HIDE DEF told
<1>5. ASSUME NEW q \in Players, NEW k \in Monsters, Showing(screen'[q], k)
      PROVE  /\ Past(screen'[q][k], monster'[k])
             /\ Past(screen[q][k], screen'[q][k])
  <2>1. Showing(screen[q], k)
    BY <1>3, <1>4, <1>5
  <2>2. screen[q][k].revision \in Nat /\ Past(screen[q][k], monster[k])
    BY <2>1, ShowingRecord DEF Shown, ShownTypes, Screens, ScreensPast
  <2>3. monster[k].revision \in Nat /\ monster'[k].revision \in Nat
    BY <1>1 DEF Shown, ShownTypes, MonsterSet
  <2>4. Past(screen[q][k], monster'[k])
    BY <1>1, <2>2, <2>3 DEF Past
  <2>5. CASE screen'[q] = told(q) /\ k = m
    BY <1>1, <1>4, <2>1, <2>2, <2>3, <2>4, <2>5 DEF Past
  <2>6. CASE screen'[q] = screen[q] \/ (screen'[q] = told(q) /\ k # m)
    <3>1. screen'[q][k] = screen[q][k]
      BY <1>4, <2>1, <2>6
    <3> QED BY <2>2, <2>4, <3>1 DEF Past
  <2> QED BY <1>3, <2>5, <2>6
<1>6. screen' \in Screens
  <2>1. screen' = [q \in Players |-> screen'[q]]
    BY DEF AttackHit
  <2>2. \A q \in Players : screen'[q] \in ListSet \cup {Nobody}
    BY <1>3, <1>4 DEF Shown, ShownTypes, Screens
  <2> QED BY <2>1, <2>2 DEF Screens
<1>7. ScreensPast' /\ Forward
  BY <1>5 DEF ScreensPast, Forward
<1> QED BY <1>1, <1>2, <1>6, <1>7 DEF Shown, ShownTypes, CacheCurrent

\* Whoever appears is sent the records, which are the monsters' present state.
LEMMA AppearShown ==
  ASSUME Shown, NEW p \in Players, NEW players, NEW failing, Appear(p, players, failing),
         UNCHANGED <<monster, broadcast>>
  PROVE  Shown' /\ Forward
<1>1. /\ Current(monster) \in Snapshots
      /\ \A m \in Monsters : /\ Current(monster)[m].revision = monster[m].revision
                             /\ Current(monster)[m].hp = monster[m].hp
  BY CurrentSnapshot DEF Shown, ShownTypes
<1>2. /\ Records \in Snapshots
      /\ \A m \in Monsters : /\ Records[m].revision = monster[m].revision
                             /\ Records[m].hp = monster[m].hp
  BY <1>1 DEF Records, Shown, ShownTypes, CacheCurrent
<1>3. cache' = Records /\ monster' = monster /\ broadcast' = broadcast
  BY DEF Appear
<1>4. \A m \in Monsters : Past(monster[m], monster'[m])
  BY <1>3, PastItself DEF Shown
<1>5. monster' \in [Monsters -> MonsterSet]
  BY <1>3 DEF Shown, ShownTypes
<1>6. /\ ScreensPast' /\ Forward
      /\ screen' \in Screens /\ view' \in Views
  <2>1. CASE p \in failing
    <3>1. view' = [view EXCEPT ![p] = Unseen] /\ screen' = [screen EXCEPT ![p] = Nobody]
      BY <2>1 DEF Appear
    <3>2. /\ screen' \in Screens /\ view' \in Views
          /\ \A q \in Players : screen'[q] \in {screen[q], Nobody}
      BY <3>1 DEF Shown, ShownTypes, Unseen, Screens, Views
    <3> QED BY <1>4, <1>5, <3>2, SameScreens
  <2>2. CASE p \notin failing
    <3>1. Show({p}, Lists(Records, players))
      BY <2>2 DEF Appear
    <3> QED BY <1>2, <1>3, <1>4, <1>5, <3>1, ShowShown
  <2> QED BY <2>1, <2>2
<1>7. CacheCurrent'
  BY <1>2, <1>3 DEF CacheCurrent
<1> QED BY <1>2, <1>3, <1>5, <1>6, <1>7 DEF Shown, ShownTypes

\* A step that sends nothing and leaves the monsters alone.
LEMMA NothingShown ==
  ASSUME Shown, UNCHANGED <<monster, cache, broadcast>>,
         \/ UNCHANGED <<view, screen>>
         \/ \E p \in Players : Removed(p)
  PROVE  Shown' /\ Forward
<1>1. /\ screen' \in Screens /\ view' \in Views
      /\ \A q \in Players : screen'[q] \in {screen[q], Nobody}
  BY DEF Shown, ShownTypes, Removed, Unseen, Screens, Views
<1>2. monster' \in [Monsters -> MonsterSet] /\ \A m \in Monsters : Past(monster[m], monster'[m])
  BY PastItself DEF Shown, ShownTypes
<1>3. ScreensPast' /\ Forward
  BY <1>1, <1>2, SameScreens
<1> QED BY <1>1, <1>2, <1>3 DEF Shown, ShownTypes, CacheCurrent

LEMMA TimeShown ==
  ASSUME Shown, Elapse
  PROVE  Shown' /\ Forward
<1>1. \A n \in Nat : Less(n) \in Nat
  BY DEF Less
<1>2. ASSUME NEW m \in Monsters
      PROVE  /\ monster'[m] \in MonsterSet /\ monster'[m].hp = monster[m].hp
             /\ monster'[m].revision = monster[m].revision
  <2>1. monster[m] \in MonsterSet /\ Less(monster[m].respawn) \in Nat /\ Less(monster[m].attack) \in Nat
    BY <1>1 DEF Shown, ShownTypes, MonsterSet
  <2> DEFINE sooner == [monster[m] EXCEPT !.respawn = Less(monster[m].respawn)]
             after == Less(monster[m].attack)
  <2>2. monster'[m] = [sooner EXCEPT !.attack = after]
    BY DEF Elapse, MonsterSet
  <2>3. /\ sooner \in MonsterSet /\ sooner.hp = monster[m].hp
        /\ sooner.revision = monster[m].revision
    BY <2>1, MonsterField
  <2> HIDE DEF sooner, after
  <2> QED BY <2>1, <2>2, <2>3, MonsterField DEF after
<1>3. monster' \in [Monsters -> MonsterSet]
  BY <1>2 DEF Elapse
<1>4. \A m \in Monsters : Past(monster[m], monster'[m])
  BY <1>2 DEF Past, Shown, ShownTypes, MonsterSet
<1>5. /\ cache' = cache /\ screen' = screen /\ broadcast' \in Nat
  BY <1>1 DEF Elapse, Shown, ShownTypes
<1>6. view' \in Views
  <2>1. ASSUME NEW p \in Players
        PROVE  [view[p] EXCEPT !.heartbeat = Less(@)] \in
                 [records : ListSet \cup {Nobody}, heartbeat : Nat]
    BY <1>1 DEF Shown, ShownTypes, Views
  <2> QED BY <2>1 DEF Elapse, Views
<1>7. ScreensPast' /\ Forward
  BY <1>3, <1>4, <1>5, SameScreens
<1> QED BY <1>2, <1>3, <1>5, <1>6, <1>7 DEF Shown, ShownTypes, CacheCurrent

LEMMA NextShown ==
  ASSUME Shown, [Next]_vars
  PROVE  Shown' /\ Forward
<1>1. CASE UNCHANGED vars
  BY <1>1, NothingShown DEF vars
<1>2. ASSUME NEW p \in Players, PlayerStep(p)
      PROVE  Shown' /\ Forward
  <2>1. ASSUME NEW n \in Numbers[p], AttackRefused(p, n) \/ AttackMissed(p, n)
        PROVE  Shown' /\ Forward
    BY <2>1, NothingShown DEF AttackRefused, AttackMissed
  <2>2. ASSUME NEW n \in Numbers[p], NEW m \in Monsters, NEW blow \in Blows,
               AttackHit(p, n, m, blow)
        PROVE  Shown' /\ Forward
    BY <2>2, HitShown
  <2>3. CASE HitCommitted(p) \/ HitUnanswered(p) \/ ReviveRequest(p) \/ ReviveFailed(p)
    BY <2>3, NothingShown DEF HitCommitted, HitUnanswered, ReviveRequest, ReviveFailed
  <2>4. CASE Revived(p)
    <3>1. monster' = monster /\ broadcast' = broadcast
      BY <2>4 DEF Revived
    <3>2. \/ \E players, failing : Appear(p, players, failing)
          \/ UNCHANGED <<cache, view, screen>>
      BY <2>4 DEF Revived
    <3> QED BY <3>1, <3>2, AppearShown, NothingShown
  <2>5. CASE EnterField(p)
    BY <2>5, AppearShown DEF EnterField
  <2>6. CASE LeaveField(p) \/ Disconnect(p)
    BY <2>6, NothingShown DEF LeaveField, Disconnect
  <2>7. ASSUME NEW pose \in Paths[p], Walk(p, pose)
        PROVE  Shown' /\ Forward
    BY <2>7, NothingShown DEF Walk
  <2> QED BY <1>2, <2>1, <2>2, <2>3, <2>4, <2>5, <2>6, <2>7 DEF PlayerStep
<1> QED BY <1>1, <1>2, TickShown, TimeShown DEF Next

LEMMA SpecShown == Spec => []Shown
<1>1. Shown /\ [Next]_vars => Shown'
  BY NextShown
<1> QED BY <1>1, InitShown, PTL DEF Spec

\* Types, for any number of players and monsters and any delays.
THEOREM TypeCorrect == Spec => []TypeOK
<1>1. AllSound(player, rest) /\ Shown => TypeOK
  BY DEF AllSound, Shown, ShownTypes, Views, Screens, TypeOK
<1> QED BY <1>1, SpecSound, SpecShown, PTL

\* However attacks, ticks, snapshots, entries and revivals are interleaved, no
\* client is shown an older state of a monster after a newer one, nor two HPs
\* under one revision (FieldMonsters.cpp:253).
THEOREM ShownNeverBack == Spec => NeverBack
<1>1. Shown /\ [Next]_vars =>
        \A p \in Players, m \in Monsters :
          Showing(screen[p], m) /\ Showing(screen'[p], m) =>
            /\ screen'[p][m].revision >= screen[p][m].revision
            /\ screen'[p][m].revision = screen[p][m].revision =>
                 screen'[p][m].hp = screen[p][m].hp
  <2> SUFFICES ASSUME Shown, [Next]_vars, NEW p \in Players, NEW m \in Monsters,
                      Showing(screen[p], m), Showing(screen'[p], m)
               PROVE  /\ screen'[p][m].revision >= screen[p][m].revision
                      /\ screen'[p][m].revision = screen[p][m].revision =>
                           screen'[p][m].hp = screen[p][m].hp
    OBVIOUS
  <2>1. Past(screen[p][m], screen'[p][m])
    BY NextShown DEF Forward
  <2>2. screen[p][m].revision \in Nat
    BY ShowingRecord DEF Shown, ShownTypes, Screens
  <2>3. screen'[p] \in ListSet \cup {Nobody}
    BY NextShown DEF Shown, ShownTypes, Screens
  <2>4. screen'[p][m].revision \in Nat
    BY <2>3, ShowingRecord
  <2> QED BY <2>1, <2>2, <2>4 DEF Past
<1> QED BY <1>1, SpecShown, PTL DEF Spec, NeverBack

(***************************************************************************)
(* A broadcast leaves nobody behind: what a player was last sent a         *)
(* snapshot of is what it shows, or is older than an event it shows.       *)
(***************************************************************************)

Behind(a, b) == a.revision <= b.revision /\ (a.revision = b.revision => a = b)
\* The list last sent, and what the client shows now.
ListBehind(list, shown) ==
  /\ shown # Nobody
  /\ \A m \in Monsters : /\ Showing(list, m) <=> Showing(shown, m)
                         /\ Showing(list, m) => Behind(list[m], shown[m])
ViewsBehind ==
  \A p \in Players : view[p].records # Nobody => ListBehind(view[p].records, screen[p])

LEMMA ShowBehind ==
  ASSUME Shown, ViewsBehind, NEW S, NEW lists \in [Players -> ListSet], Show(S, lists)
  PROVE  ViewsBehind'
<1>1. /\ view' = [p \in Players |-> IF p \in S
                    THEN [records |-> lists[p], heartbeat |-> Heartbeat] ELSE view[p]]
      /\ screen' = [p \in Players |-> IF p \in S THEN lists[p] ELSE screen[p]]
  BY DEF Show
<1>2. ASSUME NEW p \in Players
      PROVE  ListBehind(lists[p], lists[p])
  <2>1. lists[p] \in ListSet /\ lists[p] # Nobody
    BY NotListed
  <2>2. \A m \in Monsters : Showing(lists[p], m) => Behind(lists[p][m], lists[p][m])
    BY <2>1, ShowingRecord DEF Behind
  <2> QED BY <2>1, <2>2 DEF ListBehind, Showing
<1>3. ASSUME NEW p \in Players, view'[p].records # Nobody
      PROVE  ListBehind(view'[p].records, screen'[p])
  <2>1. CASE p \in S
    BY <1>1, <1>2, <2>1
  <2>2. CASE p \notin S
    BY <1>1, <1>3, <2>2 DEF ViewsBehind
  <2> QED BY <2>1, <2>2
<1> QED BY <1>3 DEF ViewsBehind

LEMMA SameBehind ==
  ASSUME ViewsBehind, UNCHANGED <<view, screen>>
  PROVE  ViewsBehind'
BY DEF ViewsBehind

LEMMA RemovedBehind ==
  ASSUME Shown, ViewsBehind, NEW p \in Players,
         view' = [view EXCEPT ![p] = Unseen], screen' = [screen EXCEPT ![p] = Nobody]
  PROVE  ViewsBehind'
<1>1. view'[p].records = Nobody
  BY DEF Shown, ShownTypes, Views, Unseen
<1>2. \A q \in Players \ {p} : view'[q] = view[q] /\ screen'[q] = screen[q]
  BY DEF Shown, ShownTypes, Views, Screens
<1> QED BY <1>1, <1>2 DEF ViewsBehind

LEMMA AppearBehind ==
  ASSUME Shown, ViewsBehind, NEW p \in Players, NEW players, NEW failing,
         Appear(p, players, failing)
  PROVE  ViewsBehind'
<1>1. Records \in Snapshots
  BY CurrentSnapshot DEF Records, Shown, ShownTypes
<1>2. Lists(Records, players) \in [Players -> ListSet]
  BY <1>1, ListsOf
<1> QED BY <1>2, ShowBehind, RemovedBehind DEF Appear

LEMMA HitBehind ==
  ASSUME Shown, ViewsBehind, NEW p \in Players, NEW n, NEW m \in Monsters, NEW blow \in Blows,
         AttackHit(p, n, m, blow)
  PROVE  ViewsBehind'
<1>1. view' = view /\ monster'[m].revision = monster[m].revision + 1
  BY HitLater DEF AttackHit, Shown
<1> SUFFICES ASSUME NEW q \in Players, view[q].records # Nobody
             PROVE  ListBehind(view[q].records, screen'[q])
  BY <1>1 DEF ViewsBehind
<1>2. /\ ListBehind(view[q].records, screen[q])
      /\ screen[q] \in ListSet \cup {Nobody} /\ view[q].records \in ListSet \cup {Nobody}
  BY DEF ViewsBehind, Shown, ShownTypes, Views, Screens
<1> DEFINE told == Told(screen[q], m, monster'[m].hp, monster'[m].revision)
<1>3. screen'[q] = told \/ screen'[q] = screen[q]
  BY DEF AttackHit
<1>4. CASE screen'[q] = told
  <2>1. monster'[m].hp \in 0..MonsterHp /\ monster'[m].revision \in Nat
    BY HitLater DEF AttackHit, Shown, MonsterSet
  <2> DEFINE hp == monster'[m].hp
             r == monster'[m].revision
  <2>2. /\ \A k \in Monsters : Showing(told, k) <=> Showing(screen[q], k)
        /\ Showing(screen[q], m) => told[m].revision = monster[m].revision + 1
        /\ \A k \in Monsters \ {m} : Showing(screen[q], k) => told[k] = screen[q][k]
        /\ told # Nobody
    <3>1. hp \in 0..MonsterHp /\ r \in Nat /\ screen[q] # Nobody
      BY <1>2, <2>1 DEF ListBehind
    <3> HIDE DEF hp, r
    <3>2. /\ \A k \in Monsters : Showing(Told(screen[q], m, hp, r), k) <=> Showing(screen[q], k)
          /\ Showing(screen[q], m) => Told(screen[q], m, hp, r)[m].revision = r
          /\ \A k \in Monsters \ {m} :
               Showing(screen[q], k) => Told(screen[q], m, hp, r)[k] = screen[q][k]
          /\ Told(screen[q], m, hp, r) # Nobody
      BY <1>2, <3>1, ToldList
    <3> QED BY <1>1, <3>2 DEF hp, r
  <2> HIDE DEF told, hp, r
  <2>3. ASSUME Showing(screen[q], m)
        PROVE  Behind(view[q].records[m], told[m])
    <3>1. Showing(view[q].records, m) /\ Behind(view[q].records[m], screen[q][m])
      BY <1>2, <2>3 DEF ListBehind, Showing
    <3>2. view[q].records[m].revision \in Nat /\ screen[q][m].revision \in Nat
      BY <1>2, <2>3, <3>1, ShowingRecord
    <3>3. screen[q][m].revision <= monster[m].revision /\ monster[m].revision \in Nat
      BY <2>3 DEF Shown, ScreensPast, Past, ShownTypes, MonsterSet
    <3> QED BY <2>2, <2>3, <3>1, <3>2, <3>3 DEF Behind
  <2>4. ASSUME NEW k \in Monsters
        PROVE  /\ Showing(view[q].records, k) <=> Showing(told, k)
               /\ Showing(view[q].records, k) => Behind(view[q].records[k], told[k])
    <3>1. CASE k = m
      BY <1>2, <2>2, <2>3, <3>1 DEF ListBehind, Showing
    <3>2. CASE k # m
      BY <1>2, <2>2, <3>2 DEF ListBehind, Showing
    <3> QED BY <3>1, <3>2
  <2> QED BY <1>4, <2>2, <2>4 DEF ListBehind, Showing
<1>5. CASE screen'[q] = screen[q]
  BY <1>2, <1>5
<1> QED BY <1>3, <1>4, <1>5

LEMMA TickBehind ==
  ASSUME Shown, ViewsBehind, Tick
  PROVE  ViewsBehind'
<1>1. CASE IdleTick \/ QuietTick
  BY <1>1, SameBehind DEF IdleTick, QuietTick
<1>2. CASE BroadcastTick
  <2>0. PICK hit \in Strikes, moved \in Moves :
          \E due, failing : Show(due \ failing, Lists(Current(Simulated(hit, moved)), player))
    BY <1>2, BroadcastStep
  <2>1. PICK due, failing : Show(due \ failing, Lists(Current(Simulated(hit, moved)), player))
    BY <2>0
  <2>2. Current(Simulated(hit, moved)) \in Snapshots
    BY SimulatedLater, CurrentSnapshot DEF Moves, Shown
  <2>3. Lists(Current(Simulated(hit, moved)), player) \in [Players -> ListSet]
    BY <2>2, ListsOf
  <2> QED BY <2>1, <2>3, ShowBehind
<1> QED BY <1>1, <1>2 DEF Tick

LEMMA TimeBehind ==
  ASSUME Shown, ViewsBehind, Elapse
  PROVE  ViewsBehind'
<1>1. \A p \in Players : view'[p].records = view[p].records
  BY DEF Elapse, Shown, ShownTypes, Views
<1>2. screen' = screen
  BY DEF Elapse
<1> QED BY <1>1, <1>2 DEF ViewsBehind

LEMMA NextBehind ==
  ASSUME Shown, ViewsBehind, [Next]_vars
  PROVE  ViewsBehind'
<1>1. CASE UNCHANGED vars
  BY <1>1, SameBehind DEF vars
<1>2. ASSUME NEW p \in Players, PlayerStep(p)
      PROVE  ViewsBehind'
  <2>1. ASSUME NEW n \in Numbers[p], AttackRefused(p, n) \/ AttackMissed(p, n)
        PROVE  ViewsBehind'
    BY <2>1, SameBehind DEF AttackRefused, AttackMissed
  <2>2. ASSUME NEW n \in Numbers[p], NEW m \in Monsters, NEW blow \in Blows,
               AttackHit(p, n, m, blow)
        PROVE  ViewsBehind'
    BY <2>2, HitBehind
  <2>3. CASE HitCommitted(p) \/ HitUnanswered(p) \/ ReviveRequest(p) \/ ReviveFailed(p)
    BY <2>3, SameBehind DEF HitCommitted, HitUnanswered, ReviveRequest, ReviveFailed
  <2>4. CASE Revived(p)
    BY <2>4, AppearBehind, SameBehind DEF Revived
  <2>5. CASE EnterField(p)
    BY <2>5, AppearBehind DEF EnterField
  <2>6. CASE LeaveField(p) \/ Disconnect(p)
    BY <2>6, RemovedBehind DEF LeaveField, Disconnect, Removed
  <2>7. ASSUME NEW pose \in Paths[p], Walk(p, pose)
        PROVE  ViewsBehind'
    BY <2>7, SameBehind DEF Walk
  <2> QED BY <1>2, <2>1, <2>2, <2>3, <2>4, <2>5, <2>6, <2>7 DEF PlayerStep
<1> QED BY <1>1, <1>2, TickBehind, TimeBehind DEF Next

\* Only a broadcast sets the time to the next one.
LEMMA OnlyBroadcasts ==
  ASSUME Shown, [Next]_vars, broadcast' > broadcast
  PROVE  BroadcastTick
<1>1. broadcast \in Nat
  BY DEF Shown, ShownTypes
<1>2. ~(broadcast' = broadcast) /\ ~Elapse
  <2>1. ~(broadcast' = broadcast)
    BY <1>1
  <2>2. Less(broadcast) <= broadcast
    BY <1>1 DEF Less
  <2>3. Elapse => broadcast' = Less(broadcast)
    BY DEF Elapse
  <2>4. Less(broadcast) \in Nat
    BY <1>1 DEF Less
  <2> QED BY <1>1, <2>1, <2>2, <2>3, <2>4
<1>3. Next
  BY <1>2 DEF vars
<1>4. \A p \in Players : ~PlayerStep(p)
  BY <1>2 DEF PlayerStep, AttackRefused, AttackMissed, AttackHit, HitCommitted, HitUnanswered,
              ReviveRequest, Revived, ReviveFailed, EnterField, LeaveField, Disconnect, Walk
<1>5. ~IdleTick /\ ~QuietTick
  BY <1>2 DEF IdleTick, QuietTick
<1> QED BY <1>2, <1>3, <1>4, <1>5 DEF Next, Tick

\* A broadcast sends nobody anywhere.
LEMMA SamePose ==
  ASSUME AllSound(player, rest), NEW p \in Players, NEW hit \in Strikes, NEW failing,
         player' = Closing(Struck(hit), failing)
  PROVE  player'[p].pose = player[p].pose
<1>1. Struck(hit)[p] \in PlayerSet /\ Struck(hit)[p].pose = player[p].pose
  BY StruckSound DEF AllSound, Struck, PlayerSet
<1>2. player'[p] = Struck(hit)[p] \/ player'[p] = [Struck(hit)[p] EXCEPT !.closing = TRUE]
  BY DEF Closing
<1> HIDE DEF Closing
<1> QED BY <1>1, <1>2 DEF PlayerSet

\* What a broadcast has for p is what is in its sight.
LEMMA ListIsInSight ==
  ASSUME monster' \in [Monsters -> MonsterSet], NEW p \in Players, NEW m \in Monsters,
         player'[p].pose = player[p].pose
  PROVE  Lists(Current(monster'), player)[p][m] =
           IF InSight(p, m) THEN Record(monster'[m]) ELSE Nobody
<1>1. Cardinality(Monsters) \in Nat /\ Part \in Nat
  BY FS_CardinalityType, CombatAssumption DEF CombatAssumption
<1>2. Current(monster') \in Snapshots
  BY CurrentSnapshot
<1>3. Current(monster')[m] = Record(monster'[m]) /\ Record(monster'[m]).place = monster'[m].place
  BY DEF Current, Record
<1>4. Visible(m, Current(monster'), player[p].pose) <=> InSight(p, m)
  BY <1>1, <1>3 DEF Visible, InSight
<1> QED BY <1>2, <1>3, <1>4, ListsOf

\* Whatever was sent before, and whatever was skipped because it had been sent,
\* a broadcast leaves every open client of the field showing the monsters in
\* its sight as they are, all of them or, where there are more than fit in one
\* part, those within 16 m (FieldMonsters.cpp:75, 80).
THEOREM BroadcastIsComplete == Spec => BroadcastShowsAll
<1>1. ASSUME AllSound(player, rest), Shown, ViewsBehind, [Next]_vars, broadcast' > broadcast,
             NEW p \in Present, ~player'[p].closing, NEW m \in Monsters
      PROVE  screen'[p][m] = IF InSight(p, m) THEN Record(monster'[m]) ELSE Nobody
  <2>1. BroadcastTick
    BY <1>1, OnlyBroadcasts
  <2>2. PICK hit \in Strikes, moved \in Moves :
          \E due, failing :
            LET sent == Lists(Current(Simulated(hit, moved)), player)
            IN /\ due = {q \in Present : ~SeenSame(q, sent[q])}
               /\ monster' = Simulated(hit, moved)
               /\ player' = Closing(Struck(hit), failing)
               /\ Show(due \ failing, sent)
    BY <2>1, BroadcastStep
  <2> DEFINE lists == Lists(Current(monster'), player)
  <2>3. PICK due, failing :
          /\ due = {q \in Present : ~SeenSame(q, lists[q])}
          /\ player' = Closing(Struck(hit), failing)
          /\ Show(due \ failing, lists)
    BY <2>2
  <2>4. p \in Players
    BY DEF Present
  <2>5. /\ monster' \in [Monsters -> MonsterSet]
        /\ Past(monster[m], monster'[m])
    BY <1>1, <2>2, SimulatedLater DEF Moves, Shown
  <2>6. lists[p][m] = IF InSight(p, m) THEN Record(monster'[m]) ELSE Nobody
    BY <1>1, <2>3, <2>4, <2>5, SamePose, ListIsInSight
  <2>7. lists[p] \in ListSet /\ lists[p] # Nobody
    <3>1. Current(monster') \in Snapshots
      BY <2>5, CurrentSnapshot
    <3> QED BY <2>4, <3>1, ListsOf, NotListed
  <2> HIDE DEF lists
  <2>8. p \notin failing
    <3>1. CASE p \in failing
      <4>1. player'[p] = [Struck(hit)[p] EXCEPT !.closing = TRUE]
        BY <2>3, <2>4, <3>1 DEF Closing
      <4>2. "closing" \in DOMAIN Struck(hit)[p]
        BY <1>1, <2>4, StruckSound DEF AllSound, PlayerSet
      <4> QED BY <1>1, <4>1, <4>2
    <3> QED BY <3>1
  <2>9. CASE p \in due
    BY <2>3, <2>4, <2>6, <2>8, <2>9 DEF Show
  <2>10. CASE p \notin due
    <3>1. screen'[p] = screen[p]
      BY <2>3, <2>4, <2>10 DEF Show
    <3>2. view[p].records = lists[p]
      BY <2>3, <2>10 DEF SeenSame
    <3>3. ListBehind(lists[p], screen[p]) /\ screen[p] \in ListSet \cup {Nobody}
      BY <1>1, <2>4, <2>7, <3>2 DEF ViewsBehind, Shown, ShownTypes, Screens
    <3>4. CASE InSight(p, m)
      <4>1. lists[p][m] = Record(monster'[m])
        BY <2>6, <3>4
      <4>2. Record(monster'[m]) # Nobody /\ lists[p][m].revision = monster'[m].revision
        <5>1. Current(monster') \in Snapshots /\ Current(monster')[m] = Record(monster'[m])
          BY <2>5, CurrentSnapshot DEF Current
        <5> QED BY <4>1, <5>1, NotListed DEF Snapshots, Record
      <4>3. Showing(lists[p], m) /\ Showing(screen[p], m)
        <5>1. Showing(lists[p], m)
          BY <2>7, <4>1, <4>2 DEF Showing
        <5>2. Showing(lists[p], m) <=> Showing(screen[p], m)
          BY <1>1, <3>3 DEF ListBehind
        <5> QED BY <5>1, <5>2 DEF Showing
      <4>4. Behind(lists[p][m], screen[p][m])
        BY <3>3, <4>3 DEF ListBehind
      <4>5. screen[p][m].revision <= monster[m].revision
        BY <1>1, <2>4, <4>3 DEF Shown, ScreensPast, Past
      <4>6. monster[m].revision <= lists[p][m].revision
        BY <2>5, <4>2 DEF Past
      <4>7. /\ screen[p][m].revision \in Nat /\ lists[p][m].revision \in Nat
            /\ monster[m].revision \in Nat
        BY <1>1, <2>7, <3>3, <4>3, ShowingRecord DEF Shown, ShownTypes, MonsterSet
      <4>8. lists[p][m].revision = screen[p][m].revision
        BY <4>4, <4>5, <4>6, <4>7 DEF Behind
      <4> QED BY <3>1, <3>4, <4>1, <4>4, <4>8 DEF Behind
    <3>5. CASE ~InSight(p, m)
      <4>1. ~Showing(lists[p], m)
        BY <2>6, <3>5 DEF Showing
      <4>2. ~Showing(screen[p], m) /\ screen[p] # Nobody
        BY <3>3, <4>1 DEF ListBehind, Showing
      <4> QED BY <3>1, <3>5, <4>2 DEF Showing
    <3> QED BY <3>4, <3>5
  <2> QED BY <2>9, <2>10
<1>2. Init => ViewsBehind
  BY DEF Init, ViewsBehind, Unseen
<1>3. Shown /\ ViewsBehind /\ [Next]_vars => ViewsBehind'
  BY NextBehind
<1>4. AllSound(player, rest) /\ Shown /\ ViewsBehind /\ [Next]_vars =>
        (broadcast' > broadcast =>
           \A p \in Present : ~player'[p].closing =>
             \A m \in Monsters :
               screen'[p][m] = IF InSight(p, m) THEN Record(monster'[m]) ELSE Nobody)
  BY <1>1
<1> QED BY <1>2, <1>3, <1>4, SpecSound, SpecShown, PTL DEF Spec, BroadcastShowsAll

=============================================================================
