----------------------- MODULE InventoryRows_proofs -----------------------
(***************************************************************************)
(* Proofs about InventoryRows for every set of characters, drops, hits and *)
(* trades, every size of bag, stack and pack and every bound: the rows are *)
(* always a well-formed inventory, no statement is ever refused by a key,  *)
(* and the rows implement InventoryStore.                                  *)
(*                                                                         *)
(* What the rules make of an inventory is found out first (Follows for one *)
(* character, Traded for a trade), then what Write makes of the rows       *)
(* (Written) and what an exchange releases before it (Surrendered).        *)
(*                                                                         *)
(* The second half is about amounts: what there is of each item, in one    *)
(* inventory (Total) and in them all (Owned), is what there was and what   *)
(* drops have given, less what was eaten, and "full" is said only when     *)
(* there is no room (RoomIn).                                              *)
(***************************************************************************)
EXTENDS InventoryRows, SequenceTheorems, FiniteSetTheorems, WellFoundedInduction, TLAPS

-----------------------------------------------------------------------------
(* Recursive functions.  The principles of induction of the library are    *)
(* about predicates; here they are stated about sets.                      *)

LEMMA Least ==
  ASSUME NEW T \in SUBSET Nat, T # {}
  PROVE  \E n \in T : \A m \in T : n <= m
<1>1. IsWellFoundedOn(OpToRel(<, Nat), Nat) BY NatLessThanWellFounded
<1>2. PICK n \in T : \A m \in T : ~(<<m, n>> \in OpToRel(<, Nat)) BY <1>1, WFMin
<1>3. \A m \in T : ~(m < n) BY <1>2 DEF OpToRel
<1> QED BY <1>3

LEMMA Induction ==
  ASSUME NEW G \in SUBSET Nat, 0 \in G, \A n \in G : n + 1 \in G
  PROVE  G = Nat
<1>1. SUFFICES ASSUME Nat \ G # {} PROVE FALSE OBVIOUS
<1>2. PICK n \in Nat \ G : \A m \in Nat \ G : n <= m BY <1>1, Least
<1>3. n # 0 /\ n - 1 \in Nat /\ n - 1 \in G BY <1>2
<1> QED BY <1>2, <1>3

\* A function on 0..L with this first value and these steps.
Iterates(f, L, S, b, step) ==
  f \in [0..L -> S] /\ f[0] = b /\ \A n \in 1..L : f[n] = step[n][f[n - 1]]

LEMMA Recursion ==
  ASSUME NEW L \in Nat, NEW S, NEW b \in S, NEW step, \A n \in 1..L : step[n] \in [S -> S]
  PROVE  \E f : Iterates(f, L, S, b, step)
<1> DEFINE G == {k \in Nat : k <= L => \E f : Iterates(f, k, S, b, step)}
<1>1. 0 \in G
  <2>1. Iterates([n \in 0..0 |-> b], 0, S, b, step) BY DEF Iterates
  <2> QED BY <2>1
<1>2. ASSUME NEW k \in G PROVE k + 1 \in G
  <2> SUFFICES ASSUME k + 1 <= L PROVE \E f : Iterates(f, k + 1, S, b, step) OBVIOUS
  <2>1. PICK f : Iterates(f, k, S, b, step) BY <1>2
  <2> DEFINE v == step[k + 1][f[k]]
             h == [n \in 0..(k + 1) |-> IF n <= k THEN f[n] ELSE v]
  <2>2. v \in S BY <1>2, <2>1 DEF Iterates
  <2>3. h \in [0..(k + 1) -> S] /\ h[0] = b BY <1>2, <2>1, <2>2 DEF Iterates
  <2>4. ASSUME NEW n \in 1..(k + 1) PROVE h[n] = step[n][h[n - 1]] BY <1>2, <2>4, <2>1 DEF Iterates
  <2> HIDE DEF h
  <2>5. Iterates(h, k + 1, S, b, step) BY <2>3, <2>4 DEF Iterates
  <2> QED BY <2>5
<1>3. L \in G BY <1>1, <1>2, Induction
<1> QED BY <1>3

\* Two functions that begin alike and go on alike.
GoAlike(f, g, m) == f[0] = g[0] /\ \A n \in 1..m : f[n - 1] = g[n - 1] => f[n] = g[n]

LEMMA SameRecursion ==
  ASSUME NEW m \in Nat, NEW f, NEW g, GoAlike(f, g, m)
  PROVE  \A n \in 0..m : f[n] = g[n]
<1> DEFINE G == {k \in Nat : k <= m => f[k] = g[k]}
<1>1. 0 \in G BY DEF GoAlike
<1>2. ASSUME NEW k \in G PROVE k + 1 \in G
  <2> SUFFICES ASSUME k + 1 <= m PROVE f[k + 1] = g[k + 1] OBVIOUS
  <2>1. k + 1 \in 1..m /\ (k + 1) - 1 = k /\ f[k] = g[k] BY <1>2
  <2> QED BY <2>1 DEF GoAlike
<1>3. G = Nat BY <1>1, <1>2, Induction
<1>4. \A n \in 0..m : n \in G BY <1>3
<1> QED BY <1>4

\* The result of a recursion is the last value of any function that keeps its rule.
FillRule(f, begun, places, item, instance, limit) ==
  /\ f = [n \in 0..Slots |-> f[n]] /\ f[0] = begun
  /\ \A n \in 1..Slots : f[n] = IF n - 1 \in places
                                THEN Put(f[n - 1], n - 1, item, instance, limit)
                                ELSE f[n - 1]

LEMMA FillIs ==
  ASSUME NEW begun, NEW places, NEW item, NEW instance, NEW limit, NEW f,
         FillRule(f, begun, places, item, instance, limit)
  PROVE  Fill(begun, places, item, instance, limit) = f[Slots]
<1> DEFINE Fits(g) == g = [n \in 0..Slots |->
             IF n = 0 THEN begun
             ELSE IF n - 1 \in places THEN Put(g[n - 1], n - 1, item, instance, limit)
             ELSE g[n - 1]]
           g1 == CHOOSE g : Fits(g)
<1>0. Slots \in Nat BY RulesAssumption
<1>1. Fill(begun, places, item, instance, limit) = g1[Slots] BY DEF Fill
<1>2. Fits(f)
  <2>1. ASSUME NEW n \in 0..Slots
        PROVE  f[n] = IF n = 0 THEN begun
                      ELSE IF n - 1 \in places THEN Put(f[n - 1], n - 1, item, instance, limit)
                      ELSE f[n - 1]
    <3>1. n = 0 \/ n \in 1..Slots BY <1>0
    <3> QED BY <3>1 DEF FillRule
  <2> QED BY <2>1 DEF FillRule
<1>3. Fits(g1) BY <1>2
<1> HIDE DEF g1
<1>4. \A n \in 0..Slots : g1[n] = IF n = 0 THEN begun
        ELSE IF n - 1 \in places THEN Put(g1[n - 1], n - 1, item, instance, limit)
        ELSE g1[n - 1] BY <1>3
<1>5. GoAlike(f, g1, Slots)
  <2>1. f[0] = g1[0] BY <1>0, <1>4 DEF FillRule
  <2>2. ASSUME NEW n \in 1..Slots, f[n - 1] = g1[n - 1] PROVE f[n] = g1[n]
    BY <1>0, <1>4, <2>2 DEF FillRule
  <2> QED BY <2>1, <2>2 DEF GoAlike
<1> QED BY <1>0, <1>1, <1>5, SameRecursion

\* What holds before a pass over a bag and survives each place holds after it.
LEMMA FillIn ==
  ASSUME NEW begun, NEW places, NEW item, NEW instance, NEW limit, NEW H, begun \in H,
         \A acc \in H, i \in SlotIds : i \in places => Put(acc, i, item, instance, limit) \in H
  PROVE  Fill(begun, places, item, instance, limit) \in H
<1> DEFINE step == [n \in 1..Slots |-> [acc \in H |->
             IF n - 1 \in places THEN Put(acc, n - 1, item, instance, limit) ELSE acc]]
<1>0. Slots \in Nat /\ \A n \in 1..Slots : n - 1 \in SlotIds /\ n - 1 \in 0..Slots
  BY RulesAssumption DEF SlotIds
<1>1. \A n \in 1..Slots : step[n] \in [H -> H] BY <1>0
<1> HIDE DEF step
<1>2. PICK f : Iterates(f, Slots, H, begun, step) BY <1>0, <1>1, Recursion
<1>3. f \in [0..Slots -> H] /\ f[0] = begun /\ \A n \in 1..Slots : f[n] = step[n][f[n - 1]]
  BY <1>2 DEF Iterates
<1>4. FillRule(f, begun, places, item, instance, limit) BY <1>0, <1>3 DEF step, FillRule
<1> QED BY <1>0, <1>3, <1>4, FillIs

-----------------------------------------------------------------------------
(* Bags and what is put into them.                                            *)

Bags(k) == {b \in [SlotIds -> Entry] : \A i \in SlotIds : FitsBag(b[i], k)}
Filling(k) == [left : Nat, bag : Bags(k)]

LEMMA Catalog ==
  ASSUME NEW k \in Categories
  PROVE  /\ k \in 0..4 /\ ItemsOf(k) \subseteq Nat \ {0}
         /\ \A i : StackLimit(i, k) \in Nat
         /\ \A i : StackLimit(i, k) > 0 => i \in ItemsOf(k)
         /\ \A i \in ItemsOf(k) : StackLimit(i, k) = Limit[k] /\ Limit[k] \in Nat \ {0}
BY RulesAssumption DEF ItemsOf, StackLimit

LEMMA EmptyFits ==
  /\ Empty \in Entry /\ Empty.item = 0 /\ Empty.quantity = 0 /\ Empty.instance = 0
  /\ \A k \in Categories : FitsBag(Empty, k)
BY Catalog DEF Empty, Entry, FitsBag

LEMMA EntryFits ==
  ASSUME NEW k \in Categories, NEW e \in Entry, FitsBag(e, k)
  PROVE  /\ e.item \in Nat /\ e.quantity \in Nat /\ e.instance \in Nat
         /\ e.item = 0 => e = Empty
         /\ e.quantity = 0 => e = Empty
         /\ e.item # 0 => e.item \in ItemsOf(k) /\ e.quantity \in 1..Limit[k]
         /\ k = 0 => e = Empty \/ (e.quantity = 1 /\ e.instance # 0)
         /\ k # 0 => e.instance = 0
BY Catalog, RulesAssumption DEF Entry, FitsBag, Empty

LEMMA PutIs ==
  ASSUME NEW k \in Categories, NEW acc \in Filling(k), NEW i \in SlotIds,
         NEW item \in ItemsOf(k), NEW instance \in Nat, instance # 0 <=> k = 0,
         acc.bag[i].item \in {0, item}, acc.bag[i].instance \in {0, instance}
  PROVE  LET next == Put(acc, i, item, instance, StackLimit(item, k)) IN
         /\ next \in Filling(k)
         /\ next = acc \/ \E e \in Entry :
              /\ e.item = item /\ e.instance = instance
              /\ next.bag = [acc.bag EXCEPT ![i] = e]
<1> DEFINE limit == StackLimit(item, k)
           old == acc.bag[i]
           room == limit - old.quantity
           amount == Min({acc.left, room})
           e == [item |-> item, instance |-> instance, quantity |-> old.quantity + amount]
           next == Put(acc, i, item, instance, limit)
<1>1. acc.left \in Nat /\ acc.bag \in Bags(k) /\ old \in Entry /\ FitsBag(old, k)
  BY DEF Filling, Bags
<1>2. limit = Limit[k] /\ limit \in Nat \ {0} /\ item \in Nat \ {0} BY Catalog
<1>3. old.quantity \in Nat /\ room \in Nat BY <1>1, EntryFits, <1>2 DEF FitsBag
<1> HIDE DEF room, limit, old
<1>4. amount \in Nat /\ amount <= room /\ amount <= acc.left BY <1>1, <1>3 DEF Min
<1>5. next = IF amount = 0 THEN acc
             ELSE [left |-> acc.left - amount, bag |-> [acc.bag EXCEPT ![i] = e]]
  BY DEF Put, room, limit, old
<1> HIDE DEF amount, next
<1>6. CASE amount = 0 BY <1>5, <1>6 DEF next, limit
<1>7. CASE amount # 0
  <2>1. e.quantity \in 1..limit BY <1>2, <1>3, <1>4, <1>7 DEF room
  <2>2. e \in Entry /\ e.item = item /\ e.instance = instance BY <1>2, <1>3, <1>4 DEF Entry
  <2> HIDE DEF e
  <2>3. FitsBag(e, k) BY <1>2, <2>1, <2>2 DEF FitsBag, limit
  <2>4. acc.left - amount \in Nat BY <1>1, <1>4
  <2> QED BY <2>2, <1>5, <1>7, <1>1, <2>3, <2>4 DEF next, limit, Filling, Bags
<1> QED BY <1>6, <1>7

LEMMA DepositFits ==
  ASSUME NEW k \in Categories, NEW bag \in Bags(k), NEW item \in ItemsOf(k),
         NEW instance \in Nat, instance # 0 <=> k = 0, NEW quantity \in Nat
  PROVE  LET put == Deposit(bag, item, instance, quantity, StackLimit(item, k)) IN
         /\ put \in Filling(k)
         /\ \A i \in SlotIds : \/ put.bag[i] = bag[i]
                               \/ put.bag[i].item = item /\ put.bag[i].instance = instance
<1> DEFINE limit == StackLimit(item, k)
           Fresh(b, i) == b[i].item = item /\ b[i].instance = instance
           H == {acc \in Filling(k) :
                   \A i \in SlotIds : acc.bag[i] = bag[i] \/ Fresh(acc.bag, i)}
           stacks == {i \in SlotIds : bag[i].item = item /\ bag[i].instance = 0 /\ instance = 0}
           empties == {i \in SlotIds : bag[i] = Empty}
           begun == [left |-> quantity, bag |-> bag]
<1>1. begun \in H BY DEF Filling
<1>2. ASSUME NEW acc \in H, NEW i \in SlotIds, i \in stacks \cup empties
      PROVE  Put(acc, i, item, instance, limit) \in H
  <2> DEFINE next == Put(acc, i, item, instance, limit)
  <2>1. /\ next \in Filling(k)
        /\ next = acc \/ \E e \in Entry : /\ e.item = item /\ e.instance = instance
                                          /\ next.bag = [acc.bag EXCEPT ![i] = e]
    BY <1>2, EmptyFits, PutIs
  <2>2. acc.bag \in [SlotIds -> Entry] BY DEF Filling, Bags
  <2> HIDE DEF next
  <2>3. ASSUME NEW e \in Entry, e.item = item, e.instance = instance,
               next.bag = [acc.bag EXCEPT ![i] = e]
        PROVE  next \in H BY <2>2, <2>3, <2>1
  <2>4. next \in H BY <2>1, <2>3
  <2> QED BY <2>4 DEF next
<1> HIDE DEF H, limit, begun
<1>3. Fill(begun, stacks, item, instance, limit) \in H
  <2> HIDE DEF stacks, empties
  <2> QED BY <1>1, <1>2, FillIn
<1>4. Fill(Fill(begun, stacks, item, instance, limit), empties, item, instance, limit) \in H
  <2> HIDE DEF stacks, empties
  <2> QED BY <1>2, <1>3, FillIn
<1> QED BY <1>4 DEF H, limit, Deposit, FillStacks, begun

-----------------------------------------------------------------------------
(* What an operation may make of an inventory.                                *)

Good == {s \in Inventory : WellFormed(s)}

\* Gear only moves: what t has, s had somewhere.
GearFrom(s, t) ==
  \A p \in Places : At(t, p).instance # 0 => \E q \in Places : At(s, q) = At(t, p)

LEMMA Numbers ==
  /\ 0 \in Categories /\ Slots \in Nat /\ 0 \in SlotIds /\ 1 \in SlotIds /\ SlotIds \subseteq Nat
  /\ MaxHp \in Nat /\ MaxMp \in Nat /\ Heal \in Nat /\ Mana \in Nat /\ MaxItems \in Nat
  /\ MaxRevision \in Nat /\ MaxMesos \in Nat /\ Limit[0] = 1
BY RulesAssumption DEF SlotIds

LEMMA PlacesAre ==
  /\ \A i \in SlotIds : <<"bag", i>> \in Places
  /\ \A w \in WornSlots : <<"worn", w>> \in Places
  /\ \A p \in Places : \/ \E i \in SlotIds : p = <<"bag", i>>
                       \/ \E w \in WornSlots : p = <<"worn", w>>
  /\ \A s, i : At(s, <<"bag", i>>) = s.entries[0][i]
  /\ \A s, w : At(s, <<"worn", w>>) = s.equipped[w]
BY DEF Places, At

LEMMA GoodParts ==
  ASSUME NEW s \in Good
  PROVE  /\ s \in Inventory /\ WellFormed(s)
         /\ s.revision \in Nat /\ s.mesos \in Nat /\ s.hp \in 0..MaxHp /\ s.mp \in 0..MaxMp
         /\ s.entries \in [Categories -> [SlotIds -> Entry]]
         /\ \A k \in Categories : s.entries[k] \in Bags(k)
         /\ s.equipped \in [WornSlots -> Entry]
         /\ \A w \in WornSlots : FitsBody(s.equipped[w], w)
         /\ \A p, q \in Places :
              At(s, p).instance = At(s, q).instance => p = q \/ At(s, p).instance = 0
BY DEF Good, Inventory, WellFormed, Bags

LEMMA GearAt ==
  ASSUME NEW s \in Good, NEW p \in Places
  PROVE  /\ At(s, p) \in Entry
         /\ At(s, p) = Empty \/ (At(s, p).instance # 0 /\ At(s, p).quantity = 1
                                 /\ At(s, p).item \in {1, 2} /\ FitsBag(At(s, p), 0))
<1>1. CASE \E i \in SlotIds : p = <<"bag", i>>
  <2>1. PICK i \in SlotIds : p = <<"bag", i>> BY <1>1
  <2>2. ItemsOf(0) = {1, 2} BY DEF ItemsOf
  <2> QED BY <2>1, PlacesAre, GoodParts, Numbers, EntryFits, <2>2 DEF Bags
<1>2. CASE \E w \in WornSlots : p = <<"worn", w>>
  <2>1. PICK w \in WornSlots : p = <<"worn", w>> BY <1>2
  <2>2. At(s, p) = s.equipped[w] /\ s.equipped[w] \in Entry /\ FitsBody(s.equipped[w], w)
    BY <2>1, PlacesAre, GoodParts
  <2> HIDE DEF WellFormed
  <2>3. CASE At(s, p) # Empty
    <3> DEFINE e == At(s, p)
    <3>1. EquipmentSlot(e.item) = w /\ e.quantity = 1 /\ e.instance # 0 /\ w \in {0, 1}
      BY <2>2, <2>3 DEF FitsBody, WornSlots
    <3>2. e.item \in {1, 2} BY <3>1 DEF EquipmentSlot
    <3> QED BY <2>2, <3>1, <3>2, Catalog, Numbers DEF FitsBag, ItemsOf
  <2> QED BY <2>2, <2>3
<1> QED BY <1>1, <1>2, PlacesAre

LEMMA BodyFits ==
  ASSUME NEW e \in Entry, FitsBag(e, 0), e # Empty, NEW w, EquipmentSlot(e.item) = w
  PROVE  FitsBody(e, w)
BY EntryFits, Numbers DEF FitsBody

\* The bags of all other categories.
OtherBags(s, t, k) == \A c \in Categories : c # k => t.entries[c] = s.entries[c]

\* Only a bag of other things than gear is changed.
LEMMA Rebagged ==
  ASSUME NEW s \in Good, NEW t \in Inventory, NEW k \in Categories \ {0},
         t.hp <= MaxHp, t.mp <= MaxMp, t.equipped = s.equipped,
         t.entries[k] \in Bags(k), OtherBags(s, t, k)
  PROVE  t \in Good /\ GearFrom(s, t)
<1>1. t.entries[0] = s.entries[0] /\ \A c \in Categories : t.entries[c] \in Bags(c)
  BY GoodParts, Numbers DEF OtherBags
<1>2. \A p \in Places : At(t, p) = At(s, p) BY <1>1, PlacesAre
<1> QED BY <1>2, <1>1, Numbers, GoodParts DEF Good, GearFrom, WellFormed, Bags, Inventory

\* Gear changes places.
LEMMA Regeared ==
  ASSUME NEW s \in Good, NEW t \in Inventory, NEW f \in [Places -> Places],
         t.hp = s.hp, t.mp = s.mp, t.entries[0] \in Bags(0), OtherBags(s, t, 0),
         \A w \in WornSlots : FitsBody(t.equipped[w], w),
         \A p \in Places : At(t, p).instance # 0 => At(t, p) = At(s, f[p]),
         \A p, q \in Places : f[p] = f[q] /\ At(t, p).instance # 0 => p = q
  PROVE  t \in Good /\ GearFrom(s, t)
BY GoodParts, Numbers DEF OtherBags, WellFormed, Bags, Good, GearFrom

\* Two pieces of gear change places, or one takes an empty place.
Swapped(p, q) == [x \in Places |-> IF x = p THEN q ELSE IF x = q THEN p ELSE x]

LEMMA SwapIs ==
  ASSUME NEW p \in Places, NEW q \in Places
  PROVE  Swapped(p, q) \in [Places -> Places]
         /\ \A x, y \in Places : Swapped(p, q)[x] = Swapped(p, q)[y] => x = y
BY DEF Swapped

\* What every operation keeps.
Kept(s, t) == t.revision = s.revision /\ t.mesos = s.mesos /\ t \in Good /\ GearFrom(s, t)

LEMMA KeptSame ==
  ASSUME NEW s \in Good
  PROVE  Kept(s, s)
BY DEF Kept, GearFrom

LEMMA EquipKeeps ==
  ASSUME NEW s \in Good, NEW r, r.category \in Categories, r.source \in SlotIds
  PROVE  Kept(s, Equip(s, r).state)
<1> DEFINE i == r.source
           e == s.entries[0][i]
           w == EquipmentSlot(e.item)
           t == Equip(s, r).state
<1>1. CASE r.category # 0 \/ EquipmentSlot(s.entries[r.category][i].item) = -1 \/ s.hp = 0
  BY <1>1, KeptSame DEF Equip, Reply
<1>2. CASE ~(r.category # 0 \/ EquipmentSlot(s.entries[r.category][i].item) = -1 \/ s.hp = 0)
  <2>1. r.category = 0 /\ w # -1 /\ e.item \in {1, 2} /\ w \in WornSlots /\ w = e.item - 1
    BY <1>2 DEF EquipmentSlot, WornSlots
  <2> HIDE DEF w, e
  <2>2. t = [s EXCEPT !.entries[0][i] = s.equipped[w], !.equipped[w] = e]
    BY <1>2, <2>1 DEF Equip, Reply, w, e
  <2> DEFINE bag == [s.entries[0] EXCEPT ![i] = s.equipped[w]]
             body == [s.equipped EXCEPT ![w] = e]
  <2>3. t = [revision |-> s.revision, mesos |-> s.mesos, hp |-> s.hp, mp |-> s.mp,
             entries |-> [s.entries EXCEPT ![0] = bag], equipped |-> body]
    BY <2>2, GoodParts DEF Inventory
  <2>4. /\ e \in Entry /\ FitsBag(e, 0) /\ s.equipped[w] \in Entry /\ FitsBag(s.equipped[w], 0)
        /\ s.entries[0] \in Bags(0) /\ e = At(s, <<"bag", i>>) /\ s.equipped[w] = At(s, <<"worn", w>>)
    <3>1. e = At(s, <<"bag", i>>) /\ s.equipped[w] = At(s, <<"worn", w>>)
          /\ <<"bag", i>> \in Places /\ <<"worn", w>> \in Places BY <2>1, PlacesAre DEF e
    <3>2. e # Empty BY <2>1, EmptyFits
    <3> QED BY <3>1, <3>2, GearAt, EmptyFits, GoodParts, Numbers
  <2>5. bag \in Bags(0) /\ bag[i] = s.equipped[w] /\ \A n \in SlotIds : n # i => bag[n] = s.entries[0][n]
    BY <2>4 DEF Bags
  <2>6. body \in [WornSlots -> Entry] /\ body[w] = e
        /\ \A x \in WornSlots : x # w => body[x] = s.equipped[x] BY <2>1, <2>4, GoodParts
  <2> HIDE DEF bag, body, t
  <2>7. /\ t \in Inventory /\ t.hp = s.hp /\ t.mp = s.mp /\ t.revision = s.revision
        /\ t.mesos = s.mesos /\ t.equipped = body /\ t.entries[0] = bag /\ OtherBags(s, t, 0)
    BY <2>3, <2>5, <2>6, GoodParts, Numbers DEF Inventory, Bags, OtherBags
  <2>8. \A x \in WornSlots : FitsBody(t.equipped[x], x)
    BY <2>1, <2>4, EmptyFits, BodyFits, <2>6, <2>7, GoodParts DEF w
  <2> DEFINE f == Swapped(<<"bag", i>>, <<"worn", w>>)
  <2>9. \A p \in Places : At(t, p) = At(s, f[p])
    <3> SUFFICES ASSUME NEW p \in Places PROVE At(t, p) = At(s, f[p]) OBVIOUS
    <3>1. CASE \E n \in SlotIds : p = <<"bag", n>>
      <4>1. PICK n \in SlotIds : p = <<"bag", n>> BY <3>1
      <4> QED BY <2>4, <2>5, <4>1, <2>7, PlacesAre DEF Swapped
    <3>2. CASE \E n \in WornSlots : p = <<"worn", n>>
      <4>1. PICK n \in WornSlots : p = <<"worn", n>> BY <3>2
      <4> QED BY <2>4, <2>6, <4>1, <2>7, PlacesAre DEF Swapped
    <3> QED BY <3>1, <3>2, PlacesAre
  <2>10. f \in [Places -> Places] /\ \A p, q \in Places : f[p] = f[q] => p = q
    BY <2>1, PlacesAre, SwapIs
  <2> HIDE DEF f
  <2> QED BY <2>7, <2>5, <2>8, <2>9, <2>10, Regeared DEF Kept, t
<1> QED BY <1>1, <1>2

LEMMA UnequipKeeps ==
  ASSUME NEW s \in Good, NEW r, r.source \in SlotIds, r.target \in SlotIds
  PROVE  Kept(s, Unequip(s, r).state)
<1> DEFINE w == r.source
           j == r.target
           e == s.equipped[w]
           t == Unequip(s, r).state
<1>1. CASE \/ r.category # 0 \/ w \notin WornSlots \/ s.hp = 0
           \/ e = Empty \/ s.entries[0][j] # Empty BY <1>1, KeptSame DEF Unequip, Reply
<1>2. CASE ~(\/ r.category # 0 \/ w \notin WornSlots \/ s.hp = 0
             \/ e = Empty \/ s.entries[0][j] # Empty)
  <2>1. t = [s EXCEPT !.entries[0][j] = e, !.equipped[w] = Empty] BY <1>2 DEF Unequip, Reply
  <2> DEFINE bag == [s.entries[0] EXCEPT ![j] = e]
             body == [s.equipped EXCEPT ![w] = Empty]
  <2>2. t = [revision |-> s.revision, mesos |-> s.mesos, hp |-> s.hp, mp |-> s.mp,
             entries |-> [s.entries EXCEPT ![0] = bag], equipped |-> body]
    BY <2>1, GoodParts DEF Inventory
  <2>3. /\ e \in Entry /\ FitsBag(e, 0) /\ s.entries[0] \in Bags(0)
        /\ e = At(s, <<"worn", w>>) /\ s.entries[0][j] = Empty
        /\ <<"bag", j>> \in Places /\ <<"worn", w>> \in Places
    <3>1. e = At(s, <<"worn", w>>) /\ <<"worn", w>> \in Places /\ <<"bag", j>> \in Places
      BY <1>2, PlacesAre
    <3> QED BY <1>2, <3>1, GearAt, GoodParts, Numbers
  <2> HIDE DEF e
  <2>4. bag \in Bags(0) /\ bag[j] = e /\ \A n \in SlotIds : n # j => bag[n] = s.entries[0][n]
    BY <2>3 DEF Bags
  <2>5. body \in [WornSlots -> Entry] /\ body[w] = Empty
        /\ \A x \in WornSlots : x # w => body[x] = s.equipped[x] BY <1>2, EmptyFits, GoodParts
  <2> HIDE DEF bag, body, t
  <2>6. /\ t \in Inventory /\ t.hp = s.hp /\ t.mp = s.mp /\ t.revision = s.revision
        /\ t.mesos = s.mesos /\ t.equipped = body /\ t.entries[0] = bag /\ OtherBags(s, t, 0)
    BY <2>2, <2>4, <2>5, GoodParts, Numbers DEF Inventory, Bags, OtherBags
  <2>7. \A x \in WornSlots : FitsBody(t.equipped[x], x) BY <2>5, <2>6, GoodParts DEF FitsBody
  <2> DEFINE f == Swapped(<<"bag", j>>, <<"worn", w>>)
  <2>8. \A p \in Places : At(t, p).instance # 0 => At(t, p) = At(s, f[p])
    <3> SUFFICES ASSUME NEW p \in Places, At(t, p).instance # 0 PROVE At(t, p) = At(s, f[p]) OBVIOUS
    <3>1. CASE \E n \in SlotIds : p = <<"bag", n>>
      <4>1. PICK n \in SlotIds : p = <<"bag", n>> BY <3>1
      <4>a. At(t, p) = t.entries[0][n] /\ At(s, p) = s.entries[0][n] BY <4>1, PlacesAre
      <4> QED BY <2>3, <2>4, <4>1, <2>6, <4>a DEF Swapped
    <3>2. CASE \E n \in WornSlots : p = <<"worn", n>>
      <4>1. PICK n \in WornSlots : p = <<"worn", n>> BY <3>2
      <4>2. At(t, p) = body[n] /\ At(s, p) = s.equipped[n] BY <2>6, <4>1, PlacesAre
      <4>3. n # w BY <2>5, <4>2, EmptyFits
      <4>4. f[p] = p BY <4>1, <4>3 DEF Swapped
      <4> QED BY <2>5, <4>2, <4>3, <4>4
    <3> QED BY <3>1, <3>2, PlacesAre
  <2>9. f \in [Places -> Places] /\ \A p, q \in Places : f[p] = f[q] => p = q BY <2>3, SwapIs
  <2> HIDE DEF f
  <2> QED BY <2>6, <2>4, <2>7, <2>8, <2>9, Regeared DEF Kept, t
<1> QED BY <1>1, <1>2

\* Two entries of one bag change.
Changes(s, k, i, j, a, b, bag, t) ==
  bag = [s.entries[k] EXCEPT ![i] = a, ![j] = b] /\ t = [s EXCEPT !.entries[k] = bag]

LEMMA TwoChange ==
  ASSUME NEW s \in Good, NEW k \in Categories, NEW i \in SlotIds, NEW j \in SlotIds, i # j,
         NEW a \in Entry, NEW b \in Entry, FitsBag(a, k), FitsBag(b, k),
         NEW bag, NEW t, Changes(s, k, i, j, a, b, bag, t)
  PROVE  /\ bag \in Bags(k) /\ bag[i] = a /\ bag[j] = b
         /\ \A n \in SlotIds : n # i /\ n # j => bag[n] = s.entries[k][n]
         /\ t \in Inventory /\ t.revision = s.revision /\ t.mesos = s.mesos
         /\ t.hp = s.hp /\ t.mp = s.mp /\ t.equipped = s.equipped
         /\ t.entries[k] = bag /\ OtherBags(s, t, k)
BY GoodParts DEF Bags, Changes, Inventory, OtherBags

LEMMA MoveKeeps ==
  ASSUME NEW s \in Good, NEW r, r.category \in Categories, r.source \in SlotIds,
         r.target \in SlotIds
  PROVE  Kept(s, Move(s, r).state)
<1> DEFINE k == r.category
           i == r.source
           j == r.target
           from == s.entries[k][i]
           to == s.entries[k][j]
           limit == StackLimit(from.item, k)
           moved == Min({from.quantity, limit - to.quantity})
           t == Move(s, r).state
<1>0. /\ from \in Entry /\ to \in Entry /\ FitsBag(from, k) /\ FitsBag(to, k) /\ limit \in Nat
  BY GoodParts, Catalog DEF Bags
<1>1. CASE from = Empty \/ i = j BY <1>1, KeptSame DEF Move, Reply
<1>2. CASE ~(from = Empty \/ i = j) /\ from.item = to.item /\ limit > 1
  <2> DEFINE a == IF moved = from.quantity THEN Empty ELSE Stack(from.item, from.quantity - moved)
             b == Stack(to.item, to.quantity + moved)
  <2>1. t = [s EXCEPT !.entries[k] = [s.entries[k] EXCEPT ![i] = a, ![j] = b]]
    BY <1>2 DEF Move, Reply
  <2>2. from.item \in ItemsOf(k) /\ from.quantity \in 1..limit /\ to.quantity \in 1..limit
        /\ limit = Limit[k] BY <1>0, <1>2, EntryFits, EmptyFits, Catalog
  <2>3. k # 0 BY <1>2, <2>2, Numbers
  <2>4. moved \in Nat /\ moved <= from.quantity /\ to.quantity + moved <= limit
    <3>1. limit - to.quantity \in Nat BY <1>0, <2>2
    <3> HIDE DEF limit, from, to
    <3>2. moved = IF from.quantity <= limit - to.quantity THEN from.quantity
                  ELSE limit - to.quantity BY <2>2, <3>1 DEF Min
    <3> HIDE DEF moved
    <3> QED BY <1>0, <2>2, <3>1, <3>2
  <2> HIDE DEF moved
  <2>5. b \in Entry /\ FitsBag(b, k)
    <3>1. to.quantity + moved \in 1..limit /\ to.item \in Nat \ {0}
      BY <1>0, <1>2, <2>2, <2>4, Catalog
    <3>2. StackLimit(to.item, k) = limit BY <1>2
    <3> HIDE DEF limit
    <3> QED BY <1>0, <2>3, <3>1, <3>2 DEF Stack, Entry, FitsBag
  <2>6. a \in Entry /\ FitsBag(a, k)
    <3>1. CASE moved = from.quantity BY <3>1, EmptyFits
    <3>2. CASE moved # from.quantity
      <4>1. from.quantity - moved \in 1..limit /\ from.item \in Nat \ {0}
        BY <1>0, <2>2, <2>4, <3>2, Catalog
      <4> HIDE DEF from
      <4> QED BY <1>0, <2>3, <3>2, <4>1 DEF Stack, Entry, FitsBag
    <3> QED BY <3>1, <3>2
  <2> HIDE DEF a, b, t
  <2> DEFINE bag == [s.entries[k] EXCEPT ![i] = a, ![j] = b]
  <2>7. /\ bag \in Bags(k) /\ t \in Inventory /\ t.revision = s.revision /\ t.mesos = s.mesos
        /\ t.hp = s.hp /\ t.mp = s.mp /\ t.equipped = s.equipped
        /\ t.entries[k] = bag /\ OtherBags(s, t, k)
    <3>1. i # j /\ t = [s EXCEPT !.entries[k] = bag] /\ k \in Categories
          /\ i \in SlotIds /\ j \in SlotIds BY <1>2, <2>1
    <3>2. Changes(s, k, i, j, a, b, bag, t) BY <3>1 DEF Changes
    <3> HIDE DEF bag, k, i, j
    <3>3. t.entries[k] = bag BY <3>1, GoodParts DEF Inventory
    <3> QED BY ONLY <2>5, <2>6, <3>1, <3>2, <3>3, TwoChange, s \in Good
  <2> HIDE DEF bag
  <2>8. t.hp <= MaxHp /\ t.mp <= MaxMp BY <2>7, GoodParts, Numbers
  <2> QED BY <2>3, <2>7, <2>8, Rebagged DEF Kept, t
<1>3. CASE ~(from = Empty \/ i = j) /\ ~(from.item = to.item /\ limit > 1)
  <2>1. t = [s EXCEPT !.entries[k] = [s.entries[k] EXCEPT ![i] = to, ![j] = from]]
    BY <1>3 DEF Move, Reply
  <2> HIDE DEF t
  <2> DEFINE bag == [s.entries[k] EXCEPT ![i] = to, ![j] = from]
  <2>2. /\ bag \in Bags(k) /\ bag[i] = to /\ bag[j] = from
        /\ \A n \in SlotIds : n # i /\ n # j => bag[n] = s.entries[k][n]
        /\ t \in Inventory /\ t.revision = s.revision /\ t.mesos = s.mesos
        /\ t.hp = s.hp /\ t.mp = s.mp /\ t.equipped = s.equipped
        /\ t.entries[k] = bag /\ OtherBags(s, t, k)
    <3>1. i # j /\ t = [s EXCEPT !.entries[k] = bag] /\ k \in Categories
          /\ i \in SlotIds /\ j \in SlotIds BY <1>3, <2>1
    <3>2. Changes(s, k, i, j, to, from, bag, t) BY <3>1 DEF Changes
    <3> HIDE DEF bag, k, i, j, from, to
    <3>3. t.entries[k] = bag BY <3>1, GoodParts DEF Inventory
    <3> HIDE DEF from, to
    <3> QED BY ONLY <1>0, <3>1, <3>2, <3>3, TwoChange, s \in Good
  <2> HIDE DEF bag
  <2>3. CASE k # 0
    <3>1. t.hp <= MaxHp /\ t.mp <= MaxMp BY <2>2, GoodParts, Numbers
    <3> QED BY <2>2, <2>3, <3>1, Rebagged DEF Kept, t
  <2>4. CASE k = 0
    <3> DEFINE f == Swapped(<<"bag", i>>, <<"bag", j>>)
    <3>1. \A p \in Places : At(t, p) = At(s, f[p])
      <4> SUFFICES ASSUME NEW p \in Places PROVE At(t, p) = At(s, f[p]) OBVIOUS
      <4>1. CASE \E n \in SlotIds : p = <<"bag", n>>
        <5>1. PICK n \in SlotIds : p = <<"bag", n>> BY <4>1
        <5>a. At(t, p) = t.entries[0][n] /\ At(s, p) = s.entries[0][n] BY <5>1, PlacesAre
        <5>b. At(s, <<"bag", i>>) = s.entries[0][i] /\ At(s, <<"bag", j>>) = s.entries[0][j]
          BY PlacesAre
        <5> QED BY <2>2, <2>4, <5>1, <5>a, <5>b DEF Swapped
      <4>2. CASE \E n \in WornSlots : p = <<"worn", n>>
        <5>1. PICK n \in WornSlots : p = <<"worn", n>> BY <4>2
        <5> QED BY <2>2, <5>1, PlacesAre DEF Swapped
      <4> QED BY <4>1, <4>2, PlacesAre
    <3>2. f \in [Places -> Places] /\ \A p, q \in Places : f[p] = f[q] => p = q BY SwapIs, PlacesAre
    <3>3. \A w \in WornSlots : FitsBody(t.equipped[w], w) BY <2>2, GoodParts
    <3> HIDE DEF f
    <3> QED BY <2>2, <2>4, <3>1, <3>2, <3>3, Regeared DEF Kept, t
  <2> QED BY <2>3, <2>4
<1> QED BY <1>1, <1>2, <1>3

LEMMA UseKeeps ==
  ASSUME NEW s \in Good, NEW r, r.category \in Categories, r.source \in SlotIds
  PROVE  Kept(s, Use(s, r).state)
<1> DEFINE i == r.source
           source == s.entries[r.category][i]
           health == source.item = 101 /\ s.hp < MaxHp
           mana == source.item = 102 /\ s.mp < MaxMp
           t == Use(s, r).state
<1>1. CASE r.category # 1 \/ s.hp = 0 \/ ~(health \/ mana) BY <1>1, KeptSame DEF Use, Reply
<1>2. CASE ~(r.category # 1 \/ s.hp = 0 \/ ~(health \/ mana))
  <2> DEFINE hp == IF health THEN Min({MaxHp, s.hp + Heal}) ELSE s.hp
             mp == IF health THEN s.mp ELSE Min({MaxMp, s.mp + Mana})
             left == IF source.quantity = 1 THEN Empty ELSE [source EXCEPT !.quantity = @ - 1]
             bag == [s.entries[1] EXCEPT ![i] = left]
  <2>1. t = [s EXCEPT !.hp = hp, !.mp = mp, !.entries[1][i] = left] BY <1>2 DEF Use, Reply
  <2>2. t = [revision |-> s.revision, mesos |-> s.mesos, hp |-> hp, mp |-> mp,
             entries |-> [s.entries EXCEPT ![1] = bag], equipped |-> s.equipped]
    <3> HIDE DEF hp, mp, left
    <3> QED BY <2>1, GoodParts DEF Inventory
  <2>3. hp \in Nat /\ mp \in Nat /\ hp <= MaxHp /\ mp <= MaxMp
    <3>1. \A a, b \in Nat : Min({a, b}) = IF a <= b THEN a ELSE b BY DEF Min
    <3>2. s.hp \in 0..MaxHp /\ s.mp \in 0..MaxMp BY GoodParts
    <3> QED BY <3>1, <3>2, Numbers
  <2>4. 1 \in Categories /\ s.entries[1] \in Bags(1) /\ source \in Entry /\ FitsBag(source, 1)
        /\ source = s.entries[1][i] BY <1>2, GoodParts DEF Bags
  <2>5. source.item # 0 /\ source.quantity \in 1..Limit[1] /\ source.item \in Nat
        /\ source.instance = 0 /\ StackLimit(source.item, 1) = Limit[1] /\ Limit[1] \in Nat
    BY <1>2, <2>4, EntryFits, Catalog
  <2>6. left \in Entry /\ FitsBag(left, 1)
    <3>1. CASE source.quantity = 1 BY <2>4, <3>1, EmptyFits
    <3>2. CASE source.quantity # 1
      <4>1. source.quantity - 1 \in 1..Limit[1] BY <2>5, <3>2
      <4>2. left = [item |-> source.item, quantity |-> source.quantity - 1, instance |-> 0]
        BY <2>4, <2>5, <3>2 DEF Entry
      <4> HIDE DEF left, source
      <4> QED BY <2>5, <4>1, <4>2 DEF Entry, FitsBag
    <3> QED BY <3>1, <3>2
  <2> HIDE DEF left, hp, mp
  <2>7. bag \in Bags(1) BY <2>4, <2>6 DEF Bags
  <2> HIDE DEF bag, t
  <2>8. /\ t \in Inventory /\ t.hp <= MaxHp /\ t.mp <= MaxMp /\ t.revision = s.revision
        /\ t.mesos = s.mesos /\ t.equipped = s.equipped
        /\ t.entries[1] = bag /\ OtherBags(s, t, 1)
    BY <2>2, <2>3, <2>4, <2>7, GoodParts DEF Inventory, Bags, OtherBags
  <2> QED BY <2>4, <2>7, <2>8, Rebagged DEF Kept, t
<1> QED BY <1>1, <1>2

-----------------------------------------------------------------------------
(* Sorting a bag.                                                             *)

Stacks(k) == {e \in Entry : FitsBag(e, k) /\ e.item # 0}

PackRule(f, bag, k) ==
  /\ f = [n \in 0..Slots |-> f[n]]
  /\ f[0] = [left |-> {i \in SlotIds : bag[i] # Empty}, packed |-> <<>>]
  /\ \A n \in 1..Slots : f[n] = PackNext(bag, k, f[n - 1])

LEMMA PackedIs ==
  ASSUME NEW bag, NEW k, NEW f, PackRule(f, bag, k)
  PROVE  Packed(bag, k) = f[Slots].packed
<1> DEFINE begun == [left |-> {i \in SlotIds : bag[i] # Empty}, packed |-> <<>>]
           Fits(g) == g = [n \in 0..Slots |->
             IF n = 0 THEN begun ELSE PackNext(bag, k, g[n - 1])]
           g1 == CHOOSE g : Fits(g)
<1>0. Slots \in Nat BY Numbers
<1>1. Packed(bag, k) = g1[Slots].packed BY DEF Packed
<1> HIDE DEF begun
<1>2. Fits(f) BY <1>0 DEF PackRule, begun
<1>3. Fits(g1) BY <1>2
<1> HIDE DEF g1
<1>4. \A n \in 0..Slots : g1[n] = IF n = 0 THEN begun ELSE PackNext(bag, k, g1[n - 1]) BY <1>3
<1>5. GoAlike(f, g1, Slots)
  <2>1. f[0] = g1[0] BY <1>0, <1>4 DEF PackRule, begun
  <2>2. ASSUME NEW n \in 1..Slots, f[n - 1] = g1[n - 1] PROVE f[n] = g1[n]
    BY <1>0, <1>4, <2>2 DEF PackRule
  <2> QED BY <2>1, <2>2 DEF GoAlike
<1>6. f[Slots] = g1[Slots] BY <1>0, <1>5, SameRecursion
<1> QED BY <1>1, <1>6

LEMMA PackedRuns ==
  ASSUME NEW bag, NEW k, NEW H,
         [left |-> {i \in SlotIds : bag[i] # Empty}, packed |-> <<>>] \in H,
         \A acc \in H : PackNext(bag, k, acc) \in H
  PROVE  \E f \in [0..Slots -> H] : PackRule(f, bag, k) /\ Packed(bag, k) = f[Slots].packed
<1> DEFINE begun == [left |-> {i \in SlotIds : bag[i] # Empty}, packed |-> <<>>]
           step == [n \in 1..Slots |-> [acc \in H |-> PackNext(bag, k, acc)]]
<1>0. Slots \in Nat /\ \A n \in 1..Slots : n - 1 \in 0..Slots BY Numbers
<1>1. \A n \in 1..Slots : step[n] \in [H -> H] OBVIOUS
<1> HIDE DEF step, begun
<1>2. PICK f : Iterates(f, Slots, H, begun, step) BY <1>0, <1>1, Recursion DEF begun
<1>3. f \in [0..Slots -> H] /\ f[0] = begun /\ \A n \in 1..Slots : f[n] = step[n][f[n - 1]]
  BY <1>2 DEF Iterates
<1>4. PackRule(f, bag, k) BY <1>0, <1>3 DEF step, begun, PackRule
<1>5. Packed(bag, k) = f[Slots].packed BY <1>4, PackedIs
<1> QED BY <1>3, <1>4, <1>5

LEMMA PackedIn ==
  ASSUME NEW bag, NEW k, NEW H,
         [left |-> {i \in SlotIds : bag[i] # Empty}, packed |-> <<>>] \in H,
         \A acc \in H : PackNext(bag, k, acc) \in H
  PROVE  \E acc \in H : Packed(bag, k) = acc.packed
<1>1. PICK f \in [0..Slots -> H] : Packed(bag, k) = f[Slots].packed BY PackedRuns
<1>2. Slots \in 0..Slots BY Numbers
<1> QED BY <1>1, <1>2

LEMMA MinIn ==
  ASSUME NEW S \in SUBSET Nat, S # {}
  PROVE  Min(S) \in S
BY Least DEF Min

LEMMA NextIn ==
  ASSUME NEW k \in Categories, NEW bag \in Bags(k), NEW left \in SUBSET SlotIds, left # {}
  PROVE  NextOf(bag, left) \in left
<1> DEFINE items == {bag[i].item : i \in left}
           least == Min(items)
           first == {i \in left : bag[i].item = least}
<1>1. items \in SUBSET Nat /\ items # {} BY DEF Bags, Entry
<1> HIDE DEF items
<1>2. least \in items BY <1>1, MinIn
<1>3. first \in SUBSET Nat /\ first # {} BY <1>2, Numbers DEF items
<1> HIDE DEF least, first
<1>4. Min(first) \in first BY <1>3, MinIn
<1> QED BY <1>4 DEF first, NextOf, least, items

LEMMA FrontIs ==
  ASSUME NEW S, NEW packed \in Seq(S), packed # <<>>
  PROVE  /\ Len(packed) \in Nat \ {0} /\ Last(packed) = packed[Len(packed)] /\ Last(packed) \in S
         /\ Front(packed) \in Seq(S) /\ Len(Front(packed)) = Len(packed) - 1
         /\ \A n \in 1..(Len(packed) - 1) : Front(packed)[n] = packed[n]
<1> DEFINE m == Len(packed) - 1
<1>1. Len(packed) \in Nat \ {0} /\ m \in Nat /\ \A n \in 1..Len(packed) : packed[n] \in S OBVIOUS
<1>2. \A n \in 1..m : packed[n] \in S /\ 1 + n - 1 = n BY <1>1
<1> HIDE DEF m
<1>3. m - 1 + 1 = m /\ (~(1 <= m) => m = 0) BY <1>1
<1>4. Front(packed) = SubSeq(packed, 1, m) BY DEF Front, m
<1> QED BY <1>1, <1>2, SubSeqProperties, <1>3, <1>4 DEF Last, m

\* A stack is appended, or fills up the last one first.
LEMMA PackFits ==
  ASSUME NEW k \in Categories, NEW packed \in Seq(Stacks(k)), NEW e \in Stacks(k)
  PROVE  /\ Pack(packed, e, StackLimit(e.item, k)) \in Seq(Stacks(k))
         /\ k = 0 => Pack(packed, e, StackLimit(e.item, k)) = Append(packed, e)
<1> DEFINE limit == StackLimit(e.item, k)
           previous == Last(packed)
           moved == Min({e.quantity, limit - previous.quantity})
           p == [previous EXCEPT !.quantity = @ + moved]
           d == [e EXCEPT !.quantity = @ - moved]
           full == Front(packed) \o <<p>>
           next == Pack(packed, e, limit)
<1>0. /\ e \in Entry /\ e.item \in ItemsOf(k) /\ e.item \in Nat \ {0} /\ limit = Limit[k] /\ limit \in Nat \ {0}
      /\ e.quantity \in 1..limit /\ (e.instance # 0 <=> k = 0) /\ e.instance \in Nat
      /\ e = [item |-> e.item, quantity |-> e.quantity, instance |-> e.instance]
  BY EntryFits, Catalog DEF Stacks, Entry, FitsBag
<1>1. CASE packed = <<>> BY <1>1 DEF Pack
<1>2. CASE packed # <<>>
  <2>1. /\ Len(packed) \in Nat \ {0} /\ previous = packed[Len(packed)] /\ previous \in Stacks(k)
        /\ Front(packed) \in Seq(Stacks(k)) /\ Len(Front(packed)) = Len(packed) - 1
        /\ \A n \in 1..(Len(packed) - 1) : Front(packed)[n] = packed[n] BY <1>2, FrontIs
  <2>2. next = IF previous.item # e.item THEN Append(packed, e)
               ELSE IF moved = e.quantity THEN full ELSE Append(full, d) BY <1>2 DEF Pack
  <2>3. CASE previous.item # e.item BY <2>2, <2>3
  <2>4. CASE previous.item = e.item
    <3> HIDE DEF limit, previous, next
    <3>1. /\ previous \in Entry /\ previous.quantity \in 1..limit /\ previous.instance \in Nat
          /\ (previous.instance # 0 <=> k = 0)
          /\ previous = [item |-> e.item, quantity |-> previous.quantity,
                         instance |-> previous.instance]
      BY <2>1, EntryFits, <1>0, <2>4 DEF Stacks, Entry, FitsBag
    <3>2. moved \in Nat /\ moved <= e.quantity /\ previous.quantity + moved <= limit
          /\ (limit = 1 => moved = 0)
      <4>1. e.quantity \in Nat /\ limit - previous.quantity \in Nat /\ limit \in Nat BY <1>0, <3>1
      <4>2. moved = IF e.quantity <= limit - previous.quantity THEN e.quantity
                    ELSE limit - previous.quantity BY <4>1 DEF Min
      <4> HIDE DEF moved
      <4> QED BY <1>0, <3>1, <4>1, <4>2
    <3> HIDE DEF moved
    <3>3. p = [item |-> e.item, quantity |-> previous.quantity + moved,
               instance |-> previous.instance] BY <3>1
    <3>4. d = [item |-> e.item, quantity |-> e.quantity - moved, instance |-> e.instance] BY <1>0
    <3> HIDE DEF p, d
    <3>5. p \in Stacks(k) BY <1>0, <3>1, <3>2, <3>3 DEF Stacks, Entry, FitsBag, limit
    <3>6. moved # e.quantity => d \in Stacks(k)
      BY <1>0, <3>2, <3>4 DEF Stacks, Entry, FitsBag, limit
    <3>7. full \in Seq(Stacks(k)) BY <2>1, <3>5
    <3>8. next \in Seq(Stacks(k))
      <4> HIDE DEF full
      <4> QED BY <2>2, <2>4, <3>6, <3>7
    <3>9. k = 0 => next = Append(packed, e)
      <4> SUFFICES ASSUME k = 0 PROVE next = Append(packed, e) OBVIOUS
      <4>1. limit = 1 /\ moved = 0 /\ e.quantity = 1 BY <1>0, <3>2, Numbers
      <4>2. p = previous BY <3>1, <3>3, <4>1
      <4>3. d = e BY <1>0, <3>4, <4>1
      <4>4. full = packed
        <5>1. full \in Seq(Stacks(k)) /\ Len(full) = Len(packed) BY <2>1, <3>5
        <5>2. \A n \in 1..Len(packed) : full[n] = packed[n] BY <2>1, <3>5, <4>2
        <5> HIDE DEF full
        <5> QED BY <5>1, <5>2, SeqEqual
      <4> HIDE DEF full
      <4> QED BY <2>2, <2>4, <4>1, <4>3, <4>4
    <3> QED BY <3>8, <3>9 DEF next, limit
  <2> QED BY <2>3, <2>4
<1> QED BY <1>1, <1>2

\* What a sorted bag of gear is: pieces of the old one, each once.
Distinct(packed) ==
  \A m, n \in 1..Len(packed) : packed[m].instance = packed[n].instance => m = n

LEMMA PackedFits ==
  ASSUME NEW s \in Good, NEW k \in Categories
  PROVE  LET packed == Packed(s.entries[k], k) IN
         /\ packed \in Seq(Stacks(k))
         /\ k = 0 => /\ Distinct(packed)
                     /\ \A n \in 1..Len(packed) : \E i \in SlotIds : packed[n] = s.entries[0][i]
<1> DEFINE bag == s.entries[k]
           Found(acc) == \A n \in 1..Len(acc.packed) :
                           \E i \in SlotIds \ acc.left : acc.packed[n] = bag[i]
           H == {acc \in [left : SUBSET {i \in SlotIds : bag[i] # Empty}, packed : Seq(Stacks(k))] :
                   k = 0 => Distinct(acc.packed) /\ Found(acc)}
           begun == [left |-> {i \in SlotIds : bag[i] # Empty}, packed |-> <<>>]
<1>0. bag \in Bags(k) /\ \A i \in SlotIds : bag[i] \in Entry /\ FitsBag(bag[i], k)
  BY GoodParts DEF Bags
<1>1. begun \in H BY DEF Distinct
<1>2. ASSUME NEW acc \in H PROVE PackNext(bag, k, acc) \in H
  <2> DEFINE i == NextOf(bag, acc.left)
             e == bag[i]
             next == Pack(acc.packed, e, StackLimit(e.item, k))
  <2>1. CASE acc.left = {} BY <2>1 DEF PackNext
  <2>2. CASE acc.left # {}
    <3>1. /\ i \in acc.left /\ i \in SlotIds /\ e # Empty /\ acc.packed \in Seq(Stacks(k))
      BY <1>0, <2>2, NextIn
    <3>2. e \in Stacks(k) BY <1>0, <3>1, EntryFits DEF Stacks
    <3>3. PackNext(bag, k, acc) = [left |-> acc.left \ {i}, packed |-> next] BY <2>2 DEF PackNext
    <3> HIDE DEF i, bag
    <3>4. next \in Seq(Stacks(k)) /\ (k = 0 => next = Append(acc.packed, e)) BY <3>1, <3>2, PackFits
    <3> HIDE DEF e, next
    <3>5. ASSUME k = 0
          PROVE  /\ Distinct(next)
                 /\ \A n \in 1..Len(next) : \E j \in SlotIds \ (acc.left \ {i}) : next[n] = bag[j]
      <4>1. /\ Len(acc.packed) \in Nat /\ Len(next) = Len(acc.packed) + 1 /\ next[Len(next)] = e
            /\ \A n \in 1..Len(acc.packed) : next[n] = acc.packed[n] BY <3>1, <3>2, <3>4, <3>5
      <4>2. \A n \in 1..Len(acc.packed) : \E j \in SlotIds \ acc.left : next[n] = bag[j]
        BY <3>5, <4>1
      <4>3. \A n \in 1..Len(acc.packed) : next[n].instance # e.instance
        <5> SUFFICES ASSUME NEW n \in 1..Len(acc.packed), next[n].instance = e.instance
                     PROVE  FALSE OBVIOUS
        <5>1. PICK j \in SlotIds \ acc.left : next[n] = bag[j] BY <4>2
        <5>2. /\ <<"bag", i>> \in Places /\ <<"bag", j>> \in Places
              /\ At(s, <<"bag", i>>) = e /\ At(s, <<"bag", j>>) = bag[j]
          BY <3>1, <3>5, PlacesAre DEF e, bag
        <5>3. e.instance # 0 BY <3>2, <3>5 DEF Stacks, FitsBag
        <5> QED BY <3>1, <5>1, <5>2, <5>3, GoodParts
      <4>4. Distinct(acc.packed) BY <3>5
      <4> QED BY <3>1, <4>1, <4>2, <4>3, <4>4 DEF e, Distinct
    <3> QED BY <3>3, <3>4, <3>5
  <2> QED BY <2>1, <2>2
<1> HIDE DEF H
<1>3. \E acc \in H : Packed(bag, k) = acc.packed BY <1>1, <1>2, PackedIn
<1> QED BY <1>3 DEF H

LEMMA SortKeeps ==
  ASSUME NEW s \in Good, NEW r, r.category \in Categories
  PROVE  Kept(s, Sort(s, r).state)
<1> DEFINE k == r.category
           packed == Packed(s.entries[k], k)
           bag == [i \in SlotIds |-> IF i < Len(packed) THEN packed[i + 1] ELSE Empty]
           t == Sort(s, r).state
<1>1. /\ packed \in Seq(Stacks(k))
      /\ k = 0 => /\ Distinct(packed)
                  /\ \A n \in 1..Len(packed) : \E i \in SlotIds : packed[n] = s.entries[0][i]
  BY PackedFits
<1>2. t = [s EXCEPT !.entries[k] = bag] BY DEF Sort, Reply
<1> HIDE DEF packed, t
<1>3. /\ Len(packed) \in Nat
      /\ \A i \in SlotIds : i < Len(packed) => i + 1 \in 1..Len(packed) /\ packed[i + 1] \in Stacks(k)
  BY <1>1, Numbers
<1>4. bag \in Bags(k) BY <1>3, EmptyFits DEF Stacks, Bags
<1>5. \A i \in SlotIds : bag[i] = IF i < Len(packed) THEN packed[i + 1] ELSE Empty OBVIOUS
<1> HIDE DEF bag
<1>6. /\ t \in Inventory /\ t.hp = s.hp /\ t.mp = s.mp /\ t.revision = s.revision
      /\ t.mesos = s.mesos /\ t.equipped = s.equipped
      /\ t.entries[k] = bag /\ OtherBags(s, t, k)
  BY <1>4, <1>2, GoodParts DEF Inventory, Bags, OtherBags
<1>7. CASE k # 0 BY <1>6, GoodParts, Numbers, <1>4, <1>7, Rebagged DEF Kept, t
<1>8. CASE k = 0
  <2> DEFINE Source(i) == CHOOSE j \in SlotIds : packed[i + 1] = s.entries[0][j]
             f == [p \in Places |-> IF p[1] = "bag" /\ p[2] < Len(packed)
                                    THEN <<"bag", Source(p[2])>> ELSE p]
  <2>1. \A i \in SlotIds : i < Len(packed) =>
          Source(i) \in SlotIds /\ packed[i + 1] = s.entries[0][Source(i)] BY <1>1, <1>3, <1>8
  <2> HIDE DEF Source
  <2>2. \A i \in SlotIds : f[<<"bag", i>>] = IF i < Len(packed) THEN <<"bag", Source(i)>>
                                             ELSE <<"bag", i>> BY PlacesAre
  <2>3. \A w \in WornSlots : f[<<"worn", w>>] = <<"worn", w>> BY PlacesAre
  <2>4. f \in [Places -> Places]
    <3> SUFFICES ASSUME NEW p \in Places PROVE f[p] \in Places OBVIOUS
    <3> HIDE DEF f
    <3> QED BY <2>1, <2>2, <2>3, PlacesAre
  <2> HIDE DEF f
  <2> DEFINE Sorted(p) ==
               \E i \in SlotIds : p = <<"bag", i>> /\ i < Len(packed) /\ At(t, p) = packed[i + 1]
             Worn(p) == \E w \in WornSlots : p = <<"worn", w>>
             From(p) == At(t, p) = At(s, f[p])
  <2>5. ASSUME NEW p \in Places, At(t, p).instance # 0
        PROVE  From(p) /\ (Sorted(p) \/ Worn(p))
    <3>1. CASE \E i \in SlotIds : p = <<"bag", i>>
      <4>1. PICK i \in SlotIds : p = <<"bag", i>> BY <3>1
      <4>2. At(t, p) = t.entries[0][i] BY <4>1, PlacesAre
      <4>3. At(t, p) = bag[i] BY <1>6, <1>8, <4>2
      <4>4. i < Len(packed) BY <1>5, <2>5, <4>3, EmptyFits
      <4>5. At(t, p) = packed[i + 1] BY <1>5, <4>3, <4>4
      <4>6. At(s, f[p]) = s.entries[0][Source(i)] BY <2>2, <4>1, <4>4, PlacesAre
      <4> QED BY <2>1, <4>1, <4>4, <4>5, <4>6
    <3>2. CASE \E w \in WornSlots : p = <<"worn", w>>
      <4>1. PICK w \in WornSlots : p = <<"worn", w>> BY <3>2
      <4> QED BY <1>6, <4>1, <2>3, PlacesAre
    <3> QED BY <3>1, <3>2, PlacesAre
  <2> HIDE DEF From, Sorted, Worn
  <2>6. ASSUME NEW p \in Places, NEW q \in Places, At(t, p).instance # 0,
               At(t, p).instance = At(t, q).instance
        PROVE  p = q
    <3>1. f[p] = f[q] /\ At(t, p) = At(s, f[p]) /\ At(t, q) = At(s, f[q])
      <4>1. At(t, q).instance # 0 BY <2>6
      <4>2. At(t, p) = At(s, f[p]) BY <2>5, <2>6 DEF From
      <4>3. At(t, q) = At(s, f[q]) BY <2>5, <4>1 DEF From
      <4>4. f[p] \in Places /\ f[q] \in Places BY <2>4
      <4>5. f[p] = f[q] BY <4>4, <2>6, <4>2, <4>3, GoodParts
      <4> QED BY <4>2, <4>3, <4>5
    <3>2. CASE \E i \in SlotIds : p = <<"bag", i>>
      <4>1. PICK i \in SlotIds : p = <<"bag", i>> /\ i < Len(packed) /\ At(t, p) = packed[i + 1]
        BY <2>5, <2>6, <3>2 DEF Sorted, Worn
      <4>2. f[p] = <<"bag", Source(i)>> BY <2>2, <4>1
      <4>3. ~(\E w \in WornSlots : q = <<"worn", w>>)
        <5> SUFFICES ASSUME NEW w \in WornSlots, q = <<"worn", w>> PROVE FALSE OBVIOUS
        <5>1. f[q] = <<"worn", w>> BY <2>3
        <5>2. <<"bag", Source(i)>> = <<"worn", w>> BY <3>1, <4>2, <5>1
        <5> QED BY <5>2
      <4>4. PICK j \in SlotIds : q = <<"bag", j>> /\ j < Len(packed) /\ At(t, q) = packed[j + 1]
        BY <2>5, <2>6, <4>3 DEF Sorted, Worn
      <4>5. i + 1 = j + 1 BY <1>1, <1>8, <2>6, <4>1, <4>4, <1>3 DEF Distinct
      <4>6. i = j BY <4>5, Numbers
      <4> QED BY <4>1, <4>4, <4>6
    <3>3. CASE \E w \in WornSlots : p = <<"worn", w>>
      <4>1. f[p] = p BY <2>3, <3>3
      <4>2. CASE \E i \in SlotIds : q = <<"bag", i>>
        <5>1. PICK i \in SlotIds : q = <<"bag", i>> /\ i < Len(packed)
          BY <2>5, <2>6, <4>2 DEF Sorted, Worn
        <5>2. f[q] = <<"bag", Source(i)>> BY <2>2, <5>1
        <5> QED BY <3>1, <3>3, <4>1, <5>2
      <4>3. CASE \E w \in WornSlots : q = <<"worn", w>> BY <2>3, <4>3, <3>1, <4>1
      <4> QED BY <4>2, <4>3, PlacesAre
    <3> QED BY <3>2, <3>3, PlacesAre
  <2>7. GearFrom(s, t)
    <3> SUFFICES ASSUME NEW p \in Places, At(t, p).instance # 0
                 PROVE  \E q \in Places : At(s, q) = At(t, p) BY DEF GearFrom
    <3> QED BY <2>4, <2>5 DEF From
  <2> QED BY <1>6, <2>7, <2>6, <1>4, <1>8, GoodParts DEF Kept, Good, t, WellFormed, Bags, OtherBags
<1> QED BY <1>7, <1>8

-----------------------------------------------------------------------------
(* The requests of a client, hits, revivals and pickups.                      *)

Operations == {"Equip", "Unequip", "Move", "Sort", "Use"}

LEMMA OperateKeeps ==
  ASSUME NEW s \in Good, NEW r, r.category \in Categories, r.source \in SlotIds,
         r.target \in SlotIds, r.operation \in Operations
  PROVE  Kept(s, Operate(s, r).state)
BY EquipKeeps, UnequipKeeps, MoveKeeps, SortKeeps, UseKeeps DEF Operate, Operations

\* A successful change: well formed again, made of the same gear, and with the
\* old number only if nothing changed.
Follows(s, t) ==
  t \in Good /\ GearFrom(s, t) /\ (t.revision = s.revision => t = s)

LEMMA FollowsSame ==
  ASSUME NEW s \in Good
  PROVE  Follows(s, s)
BY KeptSame DEF Kept, Follows

\* A new number for the same contents.
LEMMA Renumbered ==
  ASSUME NEW s \in Good, NEW t \in Good, NEW n \in Nat, GearFrom(s, t)
  PROVE  LET u == [t EXCEPT !.revision = n] IN u \in Good /\ GearFrom(s, u) /\ u.revision = n
<1> DEFINE u == [t EXCEPT !.revision = n]
<1>1. u \in Inventory /\ u.revision = n /\ u.hp = t.hp /\ u.mp = t.mp
      /\ u.entries = t.entries /\ u.equipped = t.equipped BY GoodParts DEF Inventory
<1> HIDE DEF u
<1>2. \A p : At(u, p) = At(t, p) BY <1>1 DEF At
<1>3. WellFormed(u) BY <1>1, <1>2, GoodParts DEF WellFormed
<1> QED BY <1>1, <1>2, <1>3 DEF u, Good, GearFrom

LEMMA UnchangedIs ==
  ASSUME NEW s \in Good, NEW t, Kept(s, t), ~Changed(s, t)
  PROVE  t = s
<1>1. /\ t \in Good /\ GearFrom(s, t) /\ t.revision = s.revision /\ t.mesos = s.mesos
      /\ t.hp = s.hp /\ t.mp = s.mp /\ t.entries = s.entries
      /\ \A w \in WornSlots : t.equipped[w].instance = s.equipped[w].instance BY DEF Kept, Changed
<1>2. ASSUME NEW w \in WornSlots PROVE t.equipped[w] = s.equipped[w]
  <2> DEFINE p == <<"worn", w>>
  <2>1. p \in Places /\ At(t, p) = t.equipped[w] /\ At(s, p) = s.equipped[w] BY PlacesAre
  <2> HIDE DEF p
  <2>2. CASE At(t, p).instance = 0 BY <1>1, <2>1, <2>2, GearAt
  <2>3. CASE At(t, p).instance # 0
    <3>1. PICK q \in Places : At(s, q) = At(t, p) BY <1>1, <2>1, <2>3 DEF GearFrom
    <3>2. q = p BY <1>1, <2>1, <2>3, <3>1, GoodParts
    <3> QED BY <2>1, <3>1, <3>2
  <2> QED BY <2>2, <2>3
<1>3. t.equipped = s.equipped BY <1>2, <1>1, GoodParts
<1> QED BY <1>1, <1>3, GoodParts DEF Inventory

\* What clients send.
Requests ==
  {r : r \in {Refresh}} \cup
  [operation : Operations, category : Int, source : Int, target : Int, revision : Int]

LEMMA ApplyFollows ==
  ASSUME NEW s \in Inventory, NEW r \in Requests, Validate(s), Apply(s, r).result = "Success"
  PROVE  Follows(s, Apply(s, r).state)
<1>1. s \in Good BY DEF Good, Validate
<1>2. CASE r.operation = "Refresh" BY <1>1, <1>2, FollowsSame DEF Apply, Reply
<1>3. CASE r.operation # "Refresh"
  <2> DEFINE reply == Operate(s, r)
             t == reply.state
  <2>1. r.operation \in Operations BY <1>3 DEF Requests, Refresh
  <2>2. r.category \in Categories /\ r.source \in SlotIds /\ r.target \in SlotIds
        /\ Apply(s, r) = IF Changed(s, t) THEN [reply EXCEPT !.state.revision = @ + 1] ELSE reply
    BY <1>3 DEF Apply, Reply
  <2>3. Kept(s, t) BY <1>1, <2>1, <2>2, OperateKeeps
  <2>4. reply = [result |-> reply.result, state |-> t]
    BY <2>1 DEF Operations, Operate, Equip, Unequip, Move, Sort, Use, Reply
  <2> HIDE DEF reply, t
  <2>5. CASE ~Changed(s, t) BY <1>1, <2>3, <2>5, UnchangedIs, <2>2, <2>4, FollowsSame
  <2>6. CASE Changed(s, t)
    <3> DEFINE u == [t EXCEPT !.revision = t.revision + 1]
    <3>1. Apply(s, r).state = u BY <2>2, <2>4, <2>6
    <3>2. t \in Good /\ GearFrom(s, t) /\ t.revision = s.revision /\ t.revision \in Nat
      BY <2>3, GoodParts DEF Kept
    <3>3. u \in Good /\ GearFrom(s, u) /\ u.revision = t.revision + 1 BY <1>1, <3>2, Renumbered
    <3> HIDE DEF u
    <3> QED BY <3>1, <3>2, <3>3 DEF Follows
  <2> QED BY <2>5, <2>6
<1> QED BY <1>2, <1>3

-----------------------------------------------------------------------------
(* Hits, revivals and pickups.                                                *)

Health(s, t, h, n) == t = [s EXCEPT !.hp = h, !.revision = n]

LEMMA HpChange ==
  ASSUME NEW s \in Good, NEW h \in 0..MaxHp, NEW n \in Nat, NEW t, Health(s, t, h, n)
  PROVE  t \in Good /\ GearFrom(s, t) /\ t.revision = n
<1>1. t = [revision |-> n, mesos |-> s.mesos, hp |-> h, mp |-> s.mp,
           entries |-> s.entries, equipped |-> s.equipped] BY GoodParts DEF Inventory, Health
<1>2. /\ t \in Inventory /\ t.revision = n /\ t.hp = h /\ t.mp = s.mp
      /\ t.entries = s.entries /\ t.equipped = s.equipped BY <1>1, GoodParts, Numbers DEF Inventory
<1>3. \A p : At(t, p) = At(s, p) BY <1>2 DEF At
<1>4. WellFormed(t) BY <1>2, <1>3, GoodParts DEF WellFormed
<1> QED BY <1>2, <1>3, <1>4 DEF Good, GearFrom

LEMMA DamageFollows ==
  ASSUME NEW s \in Good, NEW damage \in Nat
  PROVE  Follows(s, Damage(s, damage).state)
<1> DEFINE left == IF s.hp > damage THEN s.hp - damage ELSE 0
           n == IF left = s.hp THEN s.revision ELSE s.revision + 1
           t == Damage(s, damage).state
<1>1. Health(s, t, left, n) BY GoodParts DEF Damage, Reply, Inventory, Health
<1>2. left \in 0..MaxHp /\ n \in Nat /\ (n = s.revision => left = s.hp) BY GoodParts, Numbers
<1> HIDE DEF left, n, t
<1>3. ASSUME n = s.revision PROVE t = s BY <1>1, <1>2, <1>3, GoodParts DEF Inventory, Health
<1> QED BY <1>1, <1>2, HpChange, <1>3 DEF Follows, t

LEMMA ReviveFollows ==
  ASSUME NEW s \in Good
  PROVE  Follows(s, Revive(s).state)
<1>1. CASE s.hp # 0 BY <1>1, FollowsSame DEF Revive, Reply
<1>2. CASE s.hp = 0
  <2> DEFINE n == s.revision + 1
             t == Revive(s).state
  <2>1. Health(s, t, MaxHp, n) BY <1>2, GoodParts DEF Revive, Reply, Inventory, Health
  <2>2. MaxHp \in 0..MaxHp /\ n \in Nat /\ n # s.revision BY GoodParts, Numbers
  <2> HIDE DEF n, t
  <2> QED BY <2>2, <2>1, HpChange DEF Follows, t
<1> QED BY <1>1, <1>2

LEMMA PickupFollows ==
  ASSUME NEW s \in Good, NEW item \in Items, NEW quantity \in Nat
  PROVE  Follows(s, Pickup(s, item, quantity).state)
<1> DEFINE k == CategoryOf(item)
           put == Filled(s, k, item, quantity)
           t == Pickup(s, item, quantity).state
<1>1. CASE k = -1 \/ quantity = 0 \/ s.hp = 0 \/ put.left > 0 BY <1>1, FollowsSame DEF Pickup, Reply
<1>2. CASE ~(k = -1 \/ quantity = 0 \/ s.hp = 0 \/ put.left > 0)
  <2> DEFINE n == s.revision + 1
  <2>1. t = [s EXCEPT !.entries[k] = put.bag, !.revision = n]
    BY <1>2, GoodParts DEF Pickup, Reply, Inventory
  <2>2. k # 0 /\ k \in Categories /\ item \in ItemsOf(k)
    <3>1. k \in {1, 3} /\ item \in {101, 102, 301, 302} BY <1>2 DEF CategoryOf
    <3>2. PICK c \in Categories : item \in ItemsOf(c) BY DEF Items
    <3>3. c \in 0..4 BY <3>2, Catalog
    <3>4. k = c BY <3>1, <3>2, <3>3 DEF CategoryOf, ItemsOf
    <3> QED BY <3>1, <3>2, <3>4
  <2> HIDE DEF k
  <2>3. put.bag \in Bags(k) BY <2>2, GoodParts, DepositFits DEF Filling, Filled
  <2> DEFINE bag == put.bag
  <2> HIDE DEF put
  <2>4. t = [revision |-> n, mesos |-> s.mesos, hp |-> s.hp, mp |-> s.mp,
             entries |-> [s.entries EXCEPT ![k] = bag], equipped |-> s.equipped]
    BY <2>1, GoodParts DEF Inventory
  <2> HIDE DEF bag, t
  <2>5. /\ t \in Inventory /\ t.hp = s.hp /\ t.mp = s.mp /\ t.revision = n
        /\ t.equipped = s.equipped /\ t.entries[k] = bag /\ OtherBags(s, t, k)
    BY <2>2, <2>3, <2>4, GoodParts DEF Inventory, Bags, OtherBags, bag
  <2>6. t.hp <= MaxHp /\ t.mp <= MaxMp BY <2>5, GoodParts, Numbers
  <2>7. t.revision # s.revision BY <2>5, GoodParts
  <2> QED BY <2>2, <2>3, <2>5, <2>6, Rebagged, <2>7 DEF Follows, t, bag
<1> QED BY <1>1, <1>2

Mutations ==
  [kind : {"damage"}, damage : Nat] \cup {[kind |-> "revive"]}
    \cup [kind : {"pickup"}, item : Items, quantity : Nat]

LEMMA MutateFollows ==
  ASSUME NEW s \in Inventory, NEW m \in Mutations, Mutate(s, m).result = "Success"
  PROVE  Follows(s, Mutate(s, m).state)
BY DamageFollows, ReviveFollows, PickupFollows DEF Mutate, Reply, Good, Validate, Mutations

LEMMA StarterGood ==
  ASSUME NEW n \in Nat \ {0}
  PROVE  /\ Starter(n) \in Good /\ Starter(n).equipped = [w \in WornSlots |-> Empty]
         /\ \A p \in Places : At(Starter(n), p).instance # 0 =>
              \/ At(Starter(n), p).instance = n /\ At(Starter(n), p).item = 1
              \/ At(Starter(n), p).instance = n + 1 /\ At(Starter(n), p).item = 2
<1> DEFINE s == Starter(n)
<1>1. /\ s.equipped = [w \in WornSlots |-> Empty] /\ s.revision = 1
      /\ s.mesos = StarterPack.mesos /\ s.hp = StarterPack.hp /\ s.mp = StarterPack.mp
      /\ \A i \in SlotIds : s.entries[0][i] = IF i < 2 THEN Gear(i + 1, n + i) ELSE Empty
      /\ \A k \in Categories \ {0}, i \in SlotIds : s.entries[k][i] = StarterPack.entries[k][i]
      /\ s.entries = [k \in Categories |-> [i \in SlotIds |-> s.entries[k][i]]]
      /\ s = [revision |-> s.revision, mesos |-> s.mesos, hp |-> s.hp, mp |-> s.mp,
              entries |-> s.entries, equipped |-> s.equipped] BY Numbers DEF Starter
<1> HIDE DEF s
<1>2. \A k \in Categories, i \in SlotIds : s.entries[k][i] \in Entry /\ FitsBag(s.entries[k][i], k)
  <2> SUFFICES ASSUME NEW k \in Categories, NEW i \in SlotIds
               PROVE  s.entries[k][i] \in Entry /\ FitsBag(s.entries[k][i], k) OBVIOUS
  <2>1. CASE k # 0 BY <1>1, <2>1, StarterAssumption
  <2>2. CASE k = 0 /\ i >= 2 BY <1>1, <2>2, Numbers, EmptyFits
  <2>3. CASE k = 0 /\ i < 2
    <3>0. i \in Nat /\ i \in {0, 1} BY <2>3, Numbers
    <3>1. i \in {0, 1} /\ s.entries[k][i] = [item |-> i + 1, quantity |-> 1, instance |-> n + i]
      BY <1>1, <2>3, <3>0 DEF Gear
    <3>2. i + 1 \in ItemsOf(0) /\ StackLimit(i + 1, 0) = 1 BY <3>1, Catalog, Numbers DEF ItemsOf
    <3> QED BY <2>3, <3>1, <3>2 DEF FitsBag, Entry
  <2> QED BY <2>1, <2>2, <2>3, Numbers
<1>3. \A p \in Places : \/ At(s, p).instance = 0
                        \/ p = <<"bag", 0>> /\ At(s, p).instance = n /\ At(s, p).item = 1
                        \/ p = <<"bag", 1>> /\ At(s, p).instance = n + 1 /\ At(s, p).item = 2
  <2> SUFFICES ASSUME NEW p \in Places, At(s, p).instance # 0
               PROVE  \/ p = <<"bag", 0>> /\ At(s, p).instance = n /\ At(s, p).item = 1
                      \/ p = <<"bag", 1>> /\ At(s, p).instance = n + 1 /\ At(s, p).item = 2 OBVIOUS
  <2>1. ~(\E w \in WornSlots : p = <<"worn", w>>) BY <1>1, PlacesAre, EmptyFits
  <2>2. PICK i \in SlotIds : p = <<"bag", i>> BY <2>1, PlacesAre
  <2>3. At(s, p) = IF i < 2 THEN Gear(i + 1, n + i) ELSE Empty
    <3>1. At(s, p) = s.entries[0][i] BY <2>2, PlacesAre
    <3> QED BY <1>1, <3>1
  <2>4. i < 2 BY <2>3, EmptyFits
  <2>5. i \in {0, 1} /\ At(s, p).instance = n + i /\ At(s, p).item = i + 1
    BY <2>3, <2>4, Numbers DEF Gear
  <2> QED BY <2>2, <2>5
<1>4. s.hp \in 0..MaxHp /\ s.mp \in 0..MaxMp BY <1>1, StarterAssumption
<1>5. \A p, q \in Places : At(s, p).instance = At(s, q).instance => p = q \/ At(s, p).instance = 0
  BY <1>3
<1>6. s \in Good
  BY <1>2, <1>1, EmptyFits, StarterAssumption, Numbers, <1>4, <1>5 DEF Good, WellFormed, Inventory,
    FitsBody
<1> QED BY <1>1, <1>3, <1>6 DEF s

-----------------------------------------------------------------------------
(* Trades: what leaves an inventory and what enters it.                       *)

Offerable ==
  [category : Categories, slot : SlotIds, quantity : Nat, item : Nat, instance : Nat]
Taking ==
  [result : {"Success", "Invalid", "Stale"}, state : Inventory,
   taken : SUBSET (Categories \X SlotIds)]
Place(o) == <<o.category, o.slot>>

SameButEntries(s, t) ==
  /\ t.revision = s.revision /\ t.mesos = s.mesos /\ t.hp = s.hp /\ t.mp = s.mp
  /\ t.equipped = s.equipped

\* One item has been taken: all of a stack or a part of it.
TakenFrom(acc, o, next) ==
  LET e == acc.state.entries[o.category][o.slot]
      d == next.state.entries[o.category][o.slot]
  IN /\ acc.result = "Success" /\ Place(o) \notin acc.taken
     /\ o.quantity \in 1..e.quantity /\ o.item # 0 /\ e.item = o.item /\ e.instance = o.instance
     /\ next.taken = acc.taken \cup {Place(o)}
     /\ SameButEntries(acc.state, next.state)
     /\ \A k \in Categories, i \in SlotIds :
          <<k, i>> # Place(o) => next.state.entries[k][i] = acc.state.entries[k][i]
     /\ \/ o.quantity = e.quantity /\ d = Empty
        \/ /\ o.quantity < e.quantity
           /\ d.item = e.item /\ d.instance = e.instance /\ d.quantity = e.quantity - o.quantity

LEMMA TakeIs ==
  ASSUME NEW acc \in Taking, NEW o \in Offerable
  PROVE  LET next == Take(acc, o) IN
         next \in Taking /\ (next.result = "Success" => TakenFrom(acc, o, next))
<1> DEFINE k == o.category
           i == o.slot
           s == acc.state
           e == s.entries[k][i]
           next == Take(acc, o)
           d == IF o.quantity = e.quantity THEN Empty
                ELSE [item |-> e.item, quantity |-> e.quantity - o.quantity, instance |-> e.instance]
           bag == [s.entries[k] EXCEPT ![i] = d]
           t == [revision |-> s.revision, mesos |-> s.mesos, hp |-> s.hp, mp |-> s.mp,
                 entries |-> [s.entries EXCEPT ![k] = bag], equipped |-> s.equipped]
<1>1. /\ k \in Categories /\ i \in SlotIds /\ o.quantity \in Nat
      /\ acc = [result |-> acc.result, state |-> s, taken |-> acc.taken]
      /\ acc.taken \in SUBSET (Categories \X SlotIds)
      /\ s = [revision |-> s.revision, mesos |-> s.mesos, hp |-> s.hp, mp |-> s.mp,
              entries |-> s.entries, equipped |-> s.equipped]
      /\ s.entries \in [Categories -> [SlotIds -> Entry]] /\ s.entries[k] \in [SlotIds -> Entry]
      /\ s \in Inventory /\ e \in Entry
      /\ e = [item |-> e.item, quantity |-> e.quantity, instance |-> e.instance]
      /\ e.item \in Nat /\ e.quantity \in Nat /\ e.instance \in Nat
  BY DEF Taking, Offerable, Inventory, Entry
<1>2. CASE acc.result # "Success" BY <1>2 DEF Take
<1>3. CASE acc.result = "Success" /\ (o.quantity = 0 \/ Place(o) \in acc.taken)
  BY <1>1, <1>3 DEF Take, Place, Taking
<1>4. CASE /\ acc.result = "Success" /\ ~(o.quantity = 0 \/ Place(o) \in acc.taken)
           /\ o.item = 0 \/ e.item # o.item \/ e.instance # o.instance \/ o.quantity > e.quantity
  BY <1>1, <1>4 DEF Take, Place, Taking
<1>5. CASE /\ acc.result = "Success" /\ ~(o.quantity = 0 \/ Place(o) \in acc.taken)
           /\ ~(o.item = 0 \/ e.item # o.item \/ e.instance # o.instance \/ o.quantity > e.quantity)
  <2>1. next = [acc EXCEPT !.taken = @ \cup {Place(o)},
                           !.state.entries[k][i] = IF o.quantity = e.quantity THEN Empty
                                                   ELSE [e EXCEPT !.quantity = @ - o.quantity]]
    BY <1>1, <1>5 DEF Take, Place
  <2>2. next = [acc EXCEPT !.taken = @ \cup {Place(o)}, !.state.entries[k][i] = d] BY <1>1, <2>1
  <2>3. d \in Entry BY <1>1, <1>5, EmptyFits DEF Entry
  <2> HIDE DEF d, e
  <2>4. next = [result |-> "Success", state |-> t, taken |-> acc.taken \cup {Place(o)}]
    BY <1>1, <1>5, <2>2
  <2>5. bag \in [SlotIds -> Entry] /\ bag[i] = d
        /\ \A n \in SlotIds : n # i => bag[n] = s.entries[k][n] BY <1>1, <2>3
  <2> HIDE DEF bag, next
  <2>6. t \in Inventory /\ SameButEntries(s, t) /\ t.entries[k] = bag
        /\ \A c \in Categories : c # k => t.entries[c] = s.entries[c]
    BY <1>1, <2>5 DEF Inventory, SameButEntries
  <2> HIDE DEF t
  <2>7. next \in Taking /\ next.state = t /\ next.taken = acc.taken \cup {Place(o)}
    <3>1. Place(o) \in Categories \X SlotIds BY <1>1 DEF Place
    <3> QED BY <1>1, <2>4, <2>6, <3>1 DEF Taking
  <2>8. \A c \in Categories, n \in SlotIds :
          <<c, n>> # Place(o) => t.entries[c][n] = s.entries[c][n] BY <2>5, <2>6 DEF Place
  <2>9. o.quantity \in 1..e.quantity BY <1>1, <1>5 DEF e
  <2>10. \/ o.quantity = e.quantity /\ d = Empty
         \/ /\ o.quantity < e.quantity
            /\ d.item = e.item /\ d.instance = e.instance /\ d.quantity = e.quantity - o.quantity
    BY <1>1, <2>9 DEF d, e
  <2>11. TakenFrom(acc, o, next) BY <1>5, <2>5, <2>6, <2>7, <2>8, <2>9, <2>10 DEF TakenFrom, e
  <2> QED BY <2>7, <2>11 DEF next
<1> QED BY <1>2, <1>3, <1>4, <1>5

TakeRule(f, s, items) ==
  /\ f = [n \in 0..Len(items) |-> f[n]]
  /\ f[0] = [result |-> "Success", state |-> s, taken |-> {}]
  /\ \A n \in 1..Len(items) : f[n] = Take(f[n - 1], items[n])

LEMMA TakeAllIs ==
  ASSUME NEW s, NEW items, Len(items) \in Nat, NEW f, TakeRule(f, s, items)
  PROVE  TakeAll(s, items) = f[Len(items)]
<1> DEFINE begun == [result |-> "Success", state |-> s, taken |-> {}]
           L == Len(items)
           Fits(g) == g = [n \in 0..L |-> IF n = 0 THEN begun ELSE Take(g[n - 1], items[n])]
           g1 == CHOOSE g : Fits(g)
<1>1. TakeAll(s, items) = g1[L] BY DEF TakeAll
<1>2. Fits(f)
  <2>1. ASSUME NEW n \in 0..L
        PROVE  f[n] = IF n = 0 THEN begun ELSE Take(f[n - 1], items[n])
    <3>1. n = 0 \/ n \in 1..L OBVIOUS
    <3> QED BY <3>1 DEF TakeRule
  <2> QED BY <2>1 DEF TakeRule
<1>3. Fits(g1) BY <1>2
<1> HIDE DEF g1
<1>4. \A n \in 0..L : g1[n] = IF n = 0 THEN begun ELSE Take(g1[n - 1], items[n]) BY <1>3
<1>5. GoAlike(f, g1, L)
  <2>1. f[0] = g1[0] BY <1>4 DEF TakeRule
  <2>2. ASSUME NEW n \in 1..L, f[n - 1] = g1[n - 1] PROVE f[n] = g1[n]
    <3>1. n \in 0..L /\ n # 0 OBVIOUS
    <3> QED BY <1>4, <2>2, <3>1 DEF TakeRule
  <2> QED BY <2>1, <2>2 DEF GoAlike
<1> QED BY <1>1, <1>5, SameRecursion

LEMMA TakeAllRuns ==
  ASSUME NEW s \in Inventory, NEW items \in Seq(Offerable)
  PROVE  \E f \in [0..Len(items) -> Taking] :
           TakeRule(f, s, items) /\ TakeAll(s, items) = f[Len(items)]
<1> DEFINE L == Len(items)
           b == [result |-> "Success", state |-> s, taken |-> {}]
           step == [n \in 1..L |-> [acc \in Taking |-> Take(acc, items[n])]]
<1>0. L \in Nat /\ \A n \in 1..L : items[n] \in Offerable OBVIOUS
<1>1. b \in Taking BY DEF Taking
<1>2. \A n \in 1..L : step[n] \in [Taking -> Taking] BY <1>0, TakeIs
<1> HIDE DEF step, b
<1>3. PICK f : Iterates(f, L, Taking, b, step) BY <1>0, <1>1, <1>2, Recursion
<1>4. f \in [0..L -> Taking] /\ f[0] = b /\ \A n \in 1..L : f[n] = step[n][f[n - 1]]
  BY <1>3 DEF Iterates
<1>5. TakeRule(f, s, items)
  <2>1. \A n \in 1..L : f[n - 1] \in Taking BY <1>0, <1>4
  <2>2. f = [n \in 0..L |-> f[n]] /\ f[0] = b BY <1>4
  <2> QED BY <1>4, <2>1, <2>2 DEF step, b, TakeRule
<1> QED BY <1>0, <1>4, <1>5, TakeAllIs

\* An item that may change hands: of its category, and for gear the very piece
\* that lies in the place.
Fair(s, o) ==
  /\ o.item \in ItemsOf(o.category) /\ (o.instance # 0 <=> o.category = 0)
  /\ o.category = 0 => /\ s.entries[0][o.slot].item = o.item
                       /\ s.entries[0][o.slot].instance = o.instance

\* What holds once the first n items have been taken.
Took(s, items, n, acc) ==
  /\ SameButEntries(s, acc.state)
  /\ \A k \in Categories : acc.state.entries[k] \in Bags(k)
  /\ acc.taken = {Place(items[j]) : j \in 1..n}
  /\ \A j, l \in 1..n : Place(items[j]) = Place(items[l]) => j = l
  /\ \A j \in 1..n : Fair(s, items[j])
  /\ \A i \in SlotIds : acc.state.entries[0][i] =
       IF <<0, i>> \in acc.taken THEN Empty ELSE s.entries[0][i]

LEMMA TookStep ==
  ASSUME NEW s \in Inventory, NEW items \in Seq(Offerable), NEW n \in Nat, n + 1 <= Len(items),
         NEW acc \in Taking, Took(s, items, n, acc), NEW next \in Taking,
         TakenFrom(acc, items[n + 1], next)
  PROVE  Took(s, items, n + 1, next)
<1> DEFINE o == items[n + 1]
           k == o.category
           i == o.slot
           e == acc.state.entries[k][i]
           d == next.state.entries[k][i]
<1>1. n + 1 \in 1..Len(items) /\ o \in Offerable OBVIOUS
<1>2. k \in Categories /\ i \in SlotIds /\ o.quantity \in Nat /\ o.item \in Nat /\ o.instance \in Nat
      /\ Place(o) = <<k, i>> BY <1>1 DEF Offerable, Place
<1> HIDE DEF o
<1>3. TakenFrom(acc, o, next) BY DEF o
<1>4. /\ o.quantity \in 1..e.quantity /\ o.item # 0 /\ e.item = o.item /\ e.instance = o.instance
      /\ Place(o) \notin acc.taken /\ next.taken = acc.taken \cup {Place(o)}
      /\ SameButEntries(acc.state, next.state)
      /\ \A c \in Categories, m \in SlotIds :
           <<c, m>> # <<k, i>> => next.state.entries[c][m] = acc.state.entries[c][m]
      /\ \/ o.quantity = e.quantity /\ d = Empty
         \/ /\ o.quantity < e.quantity
            /\ d.item = e.item /\ d.instance = e.instance /\ d.quantity = e.quantity - o.quantity
  BY <1>2, <1>3 DEF TakenFrom
<1>5. /\ e \in Entry /\ FitsBag(e, k) /\ e # Empty
      /\ e.item \in ItemsOf(k) /\ e.quantity \in 1..Limit[k] /\ Limit[k] \in Nat
      /\ (e.instance # 0 <=> k = 0) /\ e.quantity \in Nat
  <2>1. acc.state.entries[k] \in Bags(k) BY <1>2 DEF Took
  <2>2. e \in Entry /\ FitsBag(e, k) /\ e.item # 0 BY <1>2, <1>4, <2>1 DEF Bags
  <2>3. Limit[k] \in Nat BY <1>2, RulesAssumption
  <2> HIDE DEF e
  <2> QED BY <1>2, <2>2, <2>3, EntryFits, EmptyFits DEF FitsBag
<1>6. d \in Entry /\ FitsBag(d, k) /\ (k = 0 => d = Empty)
  <2>1. d \in Entry BY <1>2 DEF Taking, Inventory
  <2>2. CASE d = Empty BY <1>2, <2>1, <2>2, EmptyFits
  <2>3. CASE /\ o.quantity < e.quantity
             /\ d.item = e.item /\ d.instance = e.instance /\ d.quantity = e.quantity - o.quantity
    <3> HIDE DEF d, e
    <3>1. d.item # 0 BY <1>4, <2>3
    <3>2. k # 0 BY Numbers, <1>2, <1>4, <1>5, <2>3
    <3> QED BY <2>1, <1>5, <2>3, <1>2, <1>4, Catalog, <3>1, <3>2 DEF FitsBag
  <2> QED BY <1>4, <2>2, <2>3
<1>7. \A c \in Categories : next.state.entries[c] \in Bags(c)
  <2> SUFFICES ASSUME NEW c \in Categories, NEW m \in SlotIds
               PROVE  FitsBag(next.state.entries[c][m], c) BY DEF Bags, Taking, Inventory
  <2>1. next.state.entries[c] \in [SlotIds -> Entry] BY DEF Taking, Inventory
  <2>2. CASE <<c, m>> = <<k, i>> BY <1>6, <2>1, <2>2
  <2>3. CASE <<c, m>> # <<k, i>> BY <1>4, <2>3, <2>1 DEF Took, Bags
  <2> QED BY <2>2, <2>3
<1>8. next.taken = {Place(items[j]) : j \in 1..(n + 1)}
  <2>1. 1..(n + 1) = (1..n) \cup {n + 1} OBVIOUS
  <2>2. acc.taken = {Place(items[j]) : j \in 1..n} /\ next.taken = acc.taken \cup {Place(items[n + 1])}
    BY <1>4 DEF Took, o
  <2> QED BY <2>1, <2>2
<1>9. \A j, l \in 1..(n + 1) : Place(items[j]) = Place(items[l]) => j = l
  <2>1. \A j \in 1..n : Place(items[j]) # Place(items[n + 1]) BY <1>4 DEF Took, o
  <2>2. \A j \in 1..(n + 1) : j \in 1..n \/ j = n + 1 OBVIOUS
  <2>3. \A j, l \in 1..n : Place(items[j]) = Place(items[l]) => j = l BY DEF Took
  <2> QED BY <2>1, <2>2, <2>3
<1>10. \A j \in 1..(n + 1) : Fair(s, items[j])
  <2>1. \A j \in 1..(n + 1) : j \in 1..n \/ j = n + 1 OBVIOUS
  <2>2. \A j \in 1..n : Fair(s, items[j]) BY DEF Took
  <2>3. Fair(s, o) BY <1>2, <1>4, <1>5 DEF Took, Fair
  <2> QED BY <2>1, <2>2, <2>3 DEF o
<1>11. \A m \in SlotIds : next.state.entries[0][m] =
         IF <<0, m>> \in next.taken THEN Empty ELSE s.entries[0][m]
  <2> SUFFICES ASSUME NEW m \in SlotIds
               PROVE  next.state.entries[0][m] =
                        IF <<0, m>> \in next.taken THEN Empty ELSE s.entries[0][m] OBVIOUS
  <2>1. CASE k = 0 /\ m = i BY <1>2, <1>4, <1>6, <2>1
  <2>2. CASE ~(k = 0 /\ m = i) BY <2>2, <1>4, Numbers, <1>2 DEF Took
  <2> QED BY <2>1, <2>2
<1>12. SameButEntries(s, next.state) BY <1>4 DEF Took, SameButEntries
<1> QED BY <1>7, <1>8, <1>9, <1>10, <1>11, <1>12 DEF Took

LEMMA TakeAllTook ==
  ASSUME NEW s \in Inventory, \A k \in Categories : s.entries[k] \in Bags(k),
         NEW items \in Seq(Offerable), TakeAll(s, items).result = "Success"
  PROVE  /\ TakeAll(s, items) \in Taking
         /\ Took(s, items, Len(items), TakeAll(s, items))
<1>1. PICK f \in [0..Len(items) -> Taking] :
        TakeRule(f, s, items) /\ TakeAll(s, items) = f[Len(items)] BY TakeAllRuns
<1>2. Len(items) \in Nat /\ \A n \in 1..Len(items) : items[n] \in Offerable OBVIOUS
<1> DEFINE G == {n \in Nat : n <= Len(items) /\ f[n].result = "Success" => Took(s, items, n, f[n])}
<1>3. 0 \in G BY <1>1 DEF TakeRule, Took, SameButEntries
<1>4. ASSUME NEW n \in G PROVE n + 1 \in G
  <2> SUFFICES ASSUME n + 1 <= Len(items), f[n + 1].result = "Success"
               PROVE  Took(s, items, n + 1, f[n + 1]) BY <1>4
  <2>1. n \in Nat /\ n \in 0..Len(items) /\ n + 1 \in 0..Len(items) /\ n + 1 \in 1..Len(items)
        /\ (n + 1) - 1 = n BY <1>2, <1>4
  <2>2. f[n + 1] = Take(f[n], items[n + 1]) /\ f[n] \in Taking /\ f[n + 1] \in Taking
        /\ items[n + 1] \in Offerable BY <1>1, <1>2, <2>1 DEF TakeRule
  <2>3. TakenFrom(f[n], items[n + 1], f[n + 1]) BY <2>2, TakeIs
  <2>4. f[n].result = "Success" BY <2>3 DEF TakenFrom
  <2>5. Took(s, items, n, f[n]) BY <1>4, <2>1, <2>4
  <2> QED BY <2>1, <2>2, <2>3, <2>5, TookStep
<1>5. Len(items) \in G BY <1>2, <1>3, <1>4, Induction
<1> QED BY <1>1, <1>2, <1>5

ReceiveRule(f, s, items) ==
  /\ f = [n \in 0..Len(items) |-> f[n]]
  /\ f[0] = Reply("Success", s)
  /\ \A n \in 1..Len(items) : f[n] = Receive(f[n - 1], items[n])

LEMMA ReceiveAllIs ==
  ASSUME NEW s, NEW items, Len(items) \in Nat, NEW f, ReceiveRule(f, s, items)
  PROVE  ReceiveAll(s, items) = f[Len(items)]
<1> DEFINE L == Len(items)
           Fits(g) == g = [n \in 0..L |->
             IF n = 0 THEN Reply("Success", s) ELSE Receive(g[n - 1], items[n])]
           g1 == CHOOSE g : Fits(g)
<1>1. ReceiveAll(s, items) = g1[L] BY DEF ReceiveAll
<1>2. Fits(f)
  <2>1. ASSUME NEW n \in 0..L
        PROVE  f[n] = IF n = 0 THEN Reply("Success", s) ELSE Receive(f[n - 1], items[n])
    BY DEF ReceiveRule
  <2> QED BY <2>1 DEF ReceiveRule
<1>3. Fits(g1) BY <1>2
<1> HIDE DEF g1
<1>4. \A n \in 0..L : g1[n] = IF n = 0 THEN Reply("Success", s) ELSE Receive(g1[n - 1], items[n])
  BY <1>3
<1>5. GoAlike(f, g1, L)
  <2>1. f[0] = g1[0] BY <1>4 DEF ReceiveRule
  <2>2. ASSUME NEW n \in 1..L, f[n - 1] = g1[n - 1] PROVE f[n] = g1[n]
    <3>1. n \in 0..L /\ n # 0 OBVIOUS
    <3> QED BY <1>4, <2>2, <3>1 DEF ReceiveRule
  <2> QED BY <2>1, <2>2 DEF GoAlike
<1> QED BY <1>1, <1>5, SameRecursion

\* The run over the items, one after the other.
LEMMA ReceiveAllRuns ==
  ASSUME NEW s, NEW T, NEW items \in Seq(T), NEW H, Reply("Success", s) \in H,
         \A acc \in H, n \in 1..Len(items) : Receive(acc, items[n]) \in H
  PROVE  \E f \in [0..Len(items) -> H] :
           ReceiveRule(f, s, items) /\ ReceiveAll(s, items) = f[Len(items)]
<1> DEFINE L == Len(items)
           b == Reply("Success", s)
           step == [n \in 1..L |-> [acc \in H |-> Receive(acc, items[n])]]
<1>0. L \in Nat OBVIOUS
<1>1. \A n \in 1..L : step[n] \in [H -> H] OBVIOUS
<1> HIDE DEF step, b
<1>2. PICK f : Iterates(f, L, H, b, step) BY <1>0, <1>1, Recursion DEF b
<1>3. f \in [0..L -> H] /\ f[0] = b /\ \A n \in 1..L : f[n] = step[n][f[n - 1]] BY <1>2 DEF Iterates
<1>4. ReceiveRule(f, s, items)
  <2>1. \A n \in 1..L : f[n - 1] \in H BY <1>0, <1>3
  <2>2. f = [n \in 0..L |-> f[n]] BY <1>3
  <2> QED BY <1>3, <2>1, <2>2 DEF step, b, ReceiveRule
<1>5. ReceiveAll(s, items) = f[L] BY <1>0, <1>4, ReceiveAllIs
<1> QED BY <1>3, <1>4, <1>5

\* What holds before and survives each item holds after them all.
LEMMA ReceiveAllIn ==
  ASSUME NEW s, NEW T, NEW items \in Seq(T), NEW H, Reply("Success", s) \in H,
         \A acc \in H, n \in 1..Len(items) : Receive(acc, items[n]) \in H
  PROVE  ReceiveAll(s, items) \in H
BY ReceiveAllRuns

Receiving == [result : {"Success", "Invalid", "Full"}, state : Inventory]
\* Gear in the bag was there before, or is one of the items.
Got(s, items, acc) ==
  /\ SameButEntries(s, acc.state)
  /\ \A k \in Categories : acc.state.entries[k] \in Bags(k)
  /\ \A i \in SlotIds :
       \/ acc.state.entries[0][i] = s.entries[0][i]
       \/ \E j \in 1..Len(items) : /\ acc.state.entries[0][i].item = items[j].item
                                   /\ acc.state.entries[0][i].instance = items[j].instance

\* The bag that a delivery changes.
Rebag(s, t, k, bag) == t = [s EXCEPT !.entries[k] = bag]

LEMMA RebagIs ==
  ASSUME NEW s \in Inventory, NEW k \in Categories, NEW bag \in Bags(k), NEW t, Rebag(s, t, k, bag)
  PROVE  t \in Inventory /\ SameButEntries(s, t) /\ t.entries[k] = bag /\ OtherBags(s, t, k)
BY DEF Rebag, Inventory, Bags, SameButEntries, OtherBags

LEMMA ReceiveGot ==
  ASSUME NEW s \in Inventory, NEW items \in Seq(Offerable), NEW acc \in Receiving,
         Got(s, items, acc), NEW n \in 1..Len(items),
         items[n].instance # 0 <=> items[n].category = 0
  PROVE  Receive(acc, items[n]) \in Receiving /\ Got(s, items, Receive(acc, items[n]))
<1> DEFINE o == items[n]
           k == o.category
           limit == StackLimit(o.item, k)
           put == Deposit(acc.state.entries[k], o.item, o.instance, o.quantity, limit)
           next == Receive(acc, o)
<1>1. o \in Offerable /\ k \in Categories /\ o.quantity \in Nat /\ o.instance \in Nat
  <2>1. items[n] \in Offerable OBVIOUS
  <2> QED BY <2>1 DEF Offerable
<1>2. acc = [result |-> acc.result, state |-> acc.state] /\ acc.state \in Inventory BY DEF Receiving
<1>3. CASE acc.result # "Success" BY <1>3 DEF Receive
<1>4. CASE acc.result = "Success" /\ limit = 0 BY <1>4, <1>2 DEF Receive, Receiving, Got
<1>5. CASE acc.result = "Success" /\ limit # 0 /\ put.left > 0
  BY <1>5, <1>2 DEF Receive, Receiving, Got
<1>6. CASE acc.result = "Success" /\ limit # 0 /\ ~(put.left > 0)
  <2>1. next = [acc EXCEPT !.state.entries[k] = put.bag] BY <1>6 DEF Receive
  <2>2. o.item \in ItemsOf(k) /\ acc.state.entries[k] \in Bags(k) BY <1>1, <1>6 DEF StackLimit, Got
  <2>3. /\ put \in Filling(k)
        /\ \A i \in SlotIds : \/ put.bag[i] = acc.state.entries[k][i]
                              \/ put.bag[i].item = o.item /\ put.bag[i].instance = o.instance
    BY <1>1, <2>2, DepositFits
  <2> DEFINE bag == put.bag
             t == [acc.state EXCEPT !.entries[k] = bag]
  <2>4. bag \in Bags(k) BY <2>3 DEF Filling
  <2>5. \A i \in SlotIds : \/ bag[i] = acc.state.entries[k][i]
                           \/ bag[i].item = o.item /\ bag[i].instance = o.instance BY <2>3
  <2> HIDE DEF put, bag, next, k, o
  <2>6. next = [result |-> "Success", state |-> t] BY <1>2, <1>6, <2>1 DEF bag
  <2>7. Rebag(acc.state, t, k, bag) BY DEF Rebag
  <2> HIDE DEF t
  <2>8. t \in Inventory /\ SameButEntries(acc.state, t) /\ t.entries[k] = bag
        /\ OtherBags(acc.state, t, k) BY <1>1, <1>2, <2>4, <2>7, RebagIs
  <2>9. \A c \in Categories : t.entries[c] \in Bags(c) BY <1>1, <2>4, <2>8 DEF Got, OtherBags
  <2>10. \A i \in SlotIds :
           \/ t.entries[0][i] = s.entries[0][i]
           \/ \E j \in 1..Len(items) : /\ t.entries[0][i].item = items[j].item
                                       /\ t.entries[0][i].instance = items[j].instance
    <3> SUFFICES ASSUME NEW i \in SlotIds
                 PROVE  \/ t.entries[0][i] = s.entries[0][i]
                        \/ \E j \in 1..Len(items) : /\ t.entries[0][i].item = items[j].item
                                                    /\ t.entries[0][i].instance = items[j].instance
      OBVIOUS
    <3>1. CASE t.entries[0][i] = acc.state.entries[0][i] BY <3>1 DEF Got
    <3>2. CASE t.entries[0][i] # acc.state.entries[0][i]
      <4>1. k = 0 BY <2>8, <3>2, Numbers DEF OtherBags
      <4>2. t.entries[0][i].item = items[n].item /\ t.entries[0][i].instance = items[n].instance
        BY <2>5, <2>8, <3>2, <4>1 DEF o
      <4> QED BY <4>2
    <3> QED BY <3>1, <3>2
  <2>11. SameButEntries(s, t) BY <2>8 DEF Got, SameButEntries
  <2>12. next \in Receiving /\ next.state = t BY <2>6, <2>8 DEF Receiving
  <2> QED BY <2>9, <2>10, <2>11, <2>12 DEF Got, next, o
<1> QED BY <1>3, <1>4, <1>5, <1>6

LEMMA ReceiveAllGot ==
  ASSUME NEW s \in Inventory, \A k \in Categories : s.entries[k] \in Bags(k),
         NEW items \in Seq(Offerable),
         \A n \in 1..Len(items) : items[n].instance # 0 <=> items[n].category = 0
  PROVE  ReceiveAll(s, items) \in Receiving /\ Got(s, items, ReceiveAll(s, items))
<1> DEFINE H == {acc \in Receiving : Got(s, items, acc)}
<1>1. Reply("Success", s) \in H BY DEF Reply, Receiving, Got, SameButEntries
<1>2. \A acc \in H, n \in 1..Len(items) : Receive(acc, items[n]) \in H BY ReceiveGot
<1> HIDE DEF H
<1>3. ReceiveAll(s, items) \in H BY <1>1, <1>2, ReceiveAllIn
<1> QED BY <1>3 DEF H

Offers == [revision : Nat, mesos : Nat, items : Seq(Offerable)]

\* One side's inventory without what it offers.
Gave(s, items, t) ==
  /\ t \in Inventory /\ t.equipped = s.equipped
  /\ \A k \in Categories : t.entries[k] \in Bags(k)
  /\ \A j, l \in 1..Len(items) : Place(items[j]) = Place(items[l]) => j = l
  /\ \A j \in 1..Len(items) : Fair(s, items[j])
  /\ \A i \in SlotIds :
       \/ t.entries[0][i] = Empty
       \/ /\ t.entries[0][i] = s.entries[0][i]
          /\ \A j \in 1..Len(items) : Place(items[j]) # <<0, i>>

LEMMA WithdrawIs ==
  ASSUME NEW s \in Inventory, NEW offer \in Offers, Withdraw(s, offer).result = "Success"
  PROVE  Gave(s, offer.items, Withdraw(s, offer).state)
<1> DEFINE paid == [s EXCEPT !.mesos = @ - offer.mesos]
           items == offer.items
           taken == TakeAll(paid, items)
<1>1. /\ Validate(s) /\ ~(offer.mesos > s.mesos)
      /\ Withdraw(s, offer) = Reply(taken.result, taken.state) BY DEF Withdraw, Reply
<1>2. items \in Seq(Offerable) /\ offer.mesos \in Nat /\ s.mesos \in Nat BY DEF Offers, Inventory
<1>3. s \in Good BY <1>1 DEF Good, Validate
<1>4. s.mesos - offer.mesos \in Nat BY <1>1, <1>2
<1>5. paid \in Inventory /\ paid.entries = s.entries /\ paid.equipped = s.equipped
  BY <1>4 DEF Inventory
<1>6. taken.result = "Success" /\ Withdraw(s, offer).state = taken.state BY <1>1 DEF Reply
<1> HIDE DEF paid, items
<1>7. taken \in Taking /\ Took(paid, items, Len(items), taken)
  BY <1>2, <1>3, <1>5, <1>6, GoodParts, TakeAllTook
<1> DEFINE t == taken.state
<1> HIDE DEF taken
<1> QED BY <1>6, <1>5, <1>7 DEF items, Gave, Took, Taking, SameButEntries, Fair

LEMMA DeliverIs ==
  ASSUME NEW t \in Inventory, \A k \in Categories : t.entries[k] \in Bags(k),
         NEW offer \in Offers,
         \A n \in 1..Len(offer.items) : offer.items[n].instance # 0 <=> offer.items[n].category = 0,
         Deliver(t, offer).result = "Success"
  PROVE  LET u == Deliver(t, offer).state IN
         /\ u \in Good /\ u.equipped = t.equipped
         /\ \A i \in SlotIds :
              \/ u.entries[0][i] = t.entries[0][i]
              \/ \E j \in 1..Len(offer.items) :
                   /\ u.entries[0][i].item = offer.items[j].item
                   /\ u.entries[0][i].instance = offer.items[j].instance
<1> DEFINE items == offer.items
           paid == [t EXCEPT !.mesos = @ + offer.mesos]
           got == ReceiveAll(paid, items)
           next == [got EXCEPT !.state.revision = @ + 1]
           u == Deliver(t, offer).state
<1>1. got.result = "Success" /\ Validate(next.state) /\ u = next.state BY DEF Deliver, Reply
<1>2. items \in Seq(Offerable) /\ offer.mesos \in Nat /\ t.mesos \in Nat BY DEF Offers, Inventory
<1>3. paid \in Inventory /\ paid.entries = t.entries /\ paid.equipped = t.equipped
  BY <1>2 DEF Inventory
<1>4. \A n \in 1..Len(items) : items[n].instance # 0 <=> items[n].category = 0 OBVIOUS
<1> HIDE DEF paid, items
<1>5. got \in Receiving /\ Got(paid, items, got) BY <1>2, <1>3, <1>4, ReceiveAllGot
<1> DEFINE v == got.state
<1> HIDE DEF got
<1>6. u \in Inventory /\ u.entries = v.entries /\ u.equipped = v.equipped
  BY <1>1, <1>5 DEF Inventory, Receiving
<1>7. u \in Good BY <1>1, <1>6 DEF Good, Validate
<1> QED BY <1>6, <1>7, <1>3, <1>5 DEF items, Got, SameButEntries

\* What a trade makes of one side.
Traded(s, given, got, t) ==
  /\ t \in Good /\ t.equipped = s.equipped
  /\ \A j, l \in 1..Len(given) : Place(given[j]) = Place(given[l]) => j = l
  /\ \A j \in 1..Len(given) : Fair(s, given[j])
  /\ \A i \in SlotIds :
       \/ t.entries[0][i] = Empty
       \/ /\ t.entries[0][i] = s.entries[0][i]
          /\ \A j \in 1..Len(given) : Place(given[j]) # <<0, i>>
       \/ \E j \in 1..Len(got) : /\ t.entries[0][i].item = got[j].item
                                 /\ t.entries[0][i].instance = got[j].instance

LEMMA TradeIs ==
  ASSUME NEW offers, offers[1] \in Offers, offers[2] \in Offers,
         NEW old \in [1..2 -> Inventory], ApplyTrade(offers, old).result = "Success"
  PROVE  \A side \in 1..2 : Traded(old[side], offers[side].items, offers[3 - side].items,
                                   ApplyTrade(offers, old).states[side])
<1> DEFINE given == [side \in 1..2 |-> Withdraw(old[side], offers[side])]
           got == [side \in 1..2 |-> Deliver(given[side].state, offers[3 - side])]
           done == ApplyTrade(offers, old)
<1>1. /\ FirstFailure(given).result = "Success" /\ FirstFailure(got).result = "Success"
      /\ done.states = [side \in 1..2 |-> got[side].state] BY DEF ApplyTrade
<1>2. \A side \in 1..2 : given[side].result = "Success" /\ got[side].result = "Success"
  <2>1. \A side \in 1..2 : side = 1 \/ side = 2 OBVIOUS
  <2> HIDE DEF given, got
  <2> QED BY <1>1, <2>1 DEF FirstFailure
<1>3. \A side \in 1..2 : given[side] = Withdraw(old[side], offers[side])
                         /\ got[side] = Deliver(given[side].state, offers[3 - side])
                         /\ old[side] \in Inventory
                         /\ 3 - side \in 1..2 /\ offers[side] \in Offers /\ offers[3 - side] \in Offers
  OBVIOUS
<1> HIDE DEF given, got, done
<1>4. \A side \in 1..2 : Gave(old[side], offers[side].items, given[side].state)
  BY <1>2, <1>3, WithdrawIs
<1> SUFFICES ASSUME NEW side \in 1..2
             PROVE  Traded(old[side], offers[side].items, offers[3 - side].items, done.states[side])
  BY DEF done
<1> DEFINE other == 3 - side
           t == given[side].state
           u == got[side].state
<1>5. done.states[side] = u BY <1>1
<1>6. \A n \in 1..Len(offers[other].items) :
        offers[other].items[n].instance # 0 <=> offers[other].items[n].category = 0
  BY <1>3, <1>4 DEF Gave, Fair
<1>7. t \in Inventory /\ (\A k \in Categories : t.entries[k] \in Bags(k))
      /\ offers[other] \in Offers /\ Deliver(t, offers[other]).result = "Success"
      /\ u = Deliver(t, offers[other]).state BY <1>2, <1>3, <1>4 DEF Gave
<1>8. /\ u \in Good /\ u.equipped = t.equipped
      /\ \A i \in SlotIds :
           \/ u.entries[0][i] = t.entries[0][i]
           \/ \E j \in 1..Len(offers[other].items) :
                /\ u.entries[0][i].item = offers[other].items[j].item
                /\ u.entries[0][i].instance = offers[other].items[j].instance
  <2> HIDE DEF t, u, other
  <2> QED BY <1>6, <1>7, DeliverIs
<1>9. Gave(old[side], offers[side].items, t) BY <1>4
<1> HIDE DEF t, u, other
<1> QED BY <1>5, <1>8, <1>9 DEF other, u, Gave, Traded

-----------------------------------------------------------------------------
(* The tables, and what Write makes of them.                                  *)

HeaderOf(s) == [revision |-> s.revision, mesos |-> s.mesos, hp |-> s.hp, mp |-> s.mp]
SlotTables == [Characters -> [Categories -> [SlotIds -> Entry]]]
WornTables == [Characters -> [WornSlots -> Entry]]
Databases ==
  [header : [Characters -> Headers \cup {None}], slots : SlotTables, equipment : WornTables,
   owner : Seq(Characters \X Nat), ok : BOOLEAN]

\* Gear belongs to a character, as an item of this kind.
Owns(owners, c, e) == e.instance \in DOMAIN owners /\ owners[e.instance] = <<c, e.item>>

\* Every row holds gear of its own character.
OwnRows(owners, slots0, equipment0, c) ==
  /\ \A i \in SlotIds : slots0[c][0][i].instance # 0 => Owns(owners, c, slots0[c][0][i])
  /\ \A w \in WornSlots : equipment0[c][w].instance # 0 => Owns(owners, c, equipment0[c][w])

\* What Write leaves alone, because the rows are said to be right already.
SameSlot(old, new, create, k, i) ==
  new.entries[k][i] = IF create THEN Empty ELSE old.entries[k][i]

\* What Write needs: the rows are those of the old inventory, except for gear that
\* has been released and is not put back, and the new gear is the character's own.
Ready(db, c, old, new, create) ==
  /\ db \in Databases /\ db.ok = TRUE /\ c \in Characters /\ old \in Good /\ new \in Good
  /\ \A d \in Characters : OwnRows(db.owner, db.slots, db.equipment, d)
  /\ \A p \in Places : At(new, p).instance # 0 => Owns(db.owner, c, At(new, p))
  /\ db.equipment[c] = old.equipped
  /\ create => \A k \in Categories, i \in SlotIds : db.slots[c][k][i] = Empty
  /\ ~create => \A k \in Categories, i \in SlotIds :
       \/ db.slots[c][k][i] = old.entries[k][i]
       \/ db.slots[c][k][i] = Empty /\ new.entries[k][i] # old.entries[k][i]

\* The tables while rows are being written: gear in a row of the character is where it
\* belongs, and every row is right, or going to be written; done are
\* the places on the body that have been.
Midway(db0, db, c, old, new, create, done) ==
  /\ db \in Databases /\ db.ok = TRUE /\ db.owner = db0.owner
  /\ db.header = [db0.header EXCEPT ![c] = HeaderOf(new)]
  /\ \A d \in Characters \ {c} : db.slots[d] = db0.slots[d] /\ db.equipment[d] = db0.equipment[d]
  /\ \A k \in Categories, i \in SlotIds :
       db.slots[c][k][i] = new.entries[k][i] \/ ~SameSlot(old, new, create, k, i)
  /\ \A i \in SlotIds : db.slots[c][0][i].instance # 0 => db.slots[c][0][i] = new.entries[0][i]
  /\ \A w \in WornSlots : db.equipment[c][w] =
       IF w \notin done /\ new.equipped[w].instance # old.equipped[w].instance THEN Empty
       ELSE new.equipped[w]

LEMMA ReadyGear ==
  ASSUME NEW db, NEW c, NEW old, NEW new, NEW create, Ready(db, c, old, new, create)
  PROVE  /\ \A i \in SlotIds : new.entries[0][i].instance # 0 => Owns(db.owner, c, new.entries[0][i])
         /\ \A w \in WornSlots : new.equipped[w].instance # 0 => Owns(db.owner, c, new.equipped[w])
         /\ \A i, j \in SlotIds : new.entries[0][i].instance = new.entries[0][j].instance
                                   => i = j \/ new.entries[0][i].instance = 0
         /\ \A i, j \in WornSlots : new.equipped[i].instance = new.equipped[j].instance
                                   => i = j \/ new.equipped[i].instance = 0
<1>1. new \in Good /\ \A p \in Places : At(new, p).instance # 0 => Owns(db.owner, c, At(new, p))
  BY DEF Ready
<1>2. \A p, q \in Places : At(new, p).instance = At(new, q).instance
                            => p = q \/ At(new, p).instance = 0 BY <1>1, GoodParts
<1>3. /\ \A i \in SlotIds : <<"bag", i>> \in Places /\ At(new, <<"bag", i>>) = new.entries[0][i]
      /\ \A w \in WornSlots : <<"worn", w>> \in Places /\ At(new, <<"worn", w>>) = new.equipped[w]
  BY PlacesAre
<1>4. /\ \A i, j \in SlotIds : <<"bag", i>> = <<"bag", j>> => i = j
      /\ \A i, j \in WornSlots : <<"worn", i>> = <<"worn", j>> => i = j OBVIOUS
<1>5. \A i \in SlotIds : new.entries[0][i].instance # 0 => Owns(db.owner, c, new.entries[0][i])
  BY <1>1, <1>3
<1>6. \A w \in WornSlots : new.equipped[w].instance # 0 => Owns(db.owner, c, new.equipped[w])
  BY <1>1, <1>3
<1>7. \A i, j \in SlotIds : new.entries[0][i].instance = new.entries[0][j].instance
                             => i = j \/ new.entries[0][i].instance = 0 BY <1>2, <1>3, <1>4
<1>8. \A i, j \in WornSlots : new.equipped[i].instance = new.equipped[j].instance
                             => i = j \/ new.equipped[i].instance = 0 BY <1>2, <1>3, <1>4
<1> QED BY <1>5, <1>6, <1>7, <1>8

\* Gear with the same instance in the right hands is the same gear.
LEMMA SameGear ==
  ASSUME NEW e \in Entry, NEW f \in Entry, FitsBag(e, 0), FitsBag(f, 0), e.instance = f.instance,
         NEW owners, NEW c, e.instance # 0 => Owns(owners, c, e), f.instance # 0 => Owns(owners, c, f)
  PROVE  e = f
<1>1. /\ e = Empty \/ (e.quantity = 1 /\ e.instance # 0)
      /\ f = Empty \/ (f.quantity = 1 /\ f.instance # 0) BY EntryFits, Numbers
<1>2. CASE e.instance = 0 BY <1>1, <1>2
<1>3. CASE e.instance # 0 BY <1>3, <1>1, EmptyFits DEF Owns, Entry
<1> QED BY <1>2, <1>3

\* One row is set.
SlotSet(db, next, c, k, i, e) ==
  /\ next \in Databases /\ next.header = db.header /\ next.equipment = db.equipment
  /\ next.owner = db.owner /\ next.ok = db.ok
  /\ next.slots[c][k][i] = e
  /\ \A d \in Characters, l \in Categories, j \in SlotIds :
       <<d, l, j>> # <<c, k, i>> => next.slots[d][l][j] = db.slots[d][l][j]

SlotsAre(db, next, t) == next = [db EXCEPT !.slots = t]

LEMMA NewSlots ==
  ASSUME NEW db \in Databases, NEW t \in SlotTables, NEW next, SlotsAre(db, next, t)
  PROVE  /\ next \in Databases /\ next.header = db.header /\ next.equipment = db.equipment
         /\ next.owner = db.owner /\ next.ok = db.ok /\ next.slots = t
BY DEF SlotsAre, Databases

LEMMA SetRow ==
  ASSUME NEW db \in Databases, NEW c \in Characters, NEW k \in Categories, NEW i \in SlotIds,
         NEW e \in Entry
  PROVE  SlotSet(db, [db EXCEPT !.slots[c][k][i] = e], c, k, i, e)
<1> DEFINE bag == [db.slots[c][k] EXCEPT ![i] = e]
           bags == [db.slots[c] EXCEPT ![k] = bag]
           t == [db.slots EXCEPT ![c] = bags]
           next == [db EXCEPT !.slots[c][k][i] = e]
<1>1. db.slots \in SlotTables /\ db.slots[c] \in [Categories -> [SlotIds -> Entry]]
      /\ db.slots[c][k] \in [SlotIds -> Entry] BY DEF Databases, SlotTables
<1>2. SlotsAre(db, next, t) BY DEF SlotsAre
<1>3. bag \in [SlotIds -> Entry] /\ bag[i] = e /\ \A j \in SlotIds : j # i => bag[j] = db.slots[c][k][j]
  BY <1>1
<1> HIDE DEF bag, next
<1>4. bags \in [Categories -> [SlotIds -> Entry]] /\ bags[k] = bag
      /\ \A l \in Categories : l # k => bags[l] = db.slots[c][l] BY <1>1, <1>3
<1> HIDE DEF bags
<1>5. t \in SlotTables /\ t[c] = bags /\ \A d \in Characters : d # c => t[d] = db.slots[d]
  BY <1>1, <1>4 DEF SlotTables
<1> HIDE DEF t
<1>6. SlotSet(db, next, c, k, i, e) BY <1>3, <1>4, <1>5, <1>2, NewSlots DEF SlotSet
<1> QED BY <1>6 DEF next

\* Rows of one bag are deleted.
SlotsGone(db, next, c, k, places) ==
  /\ next \in Databases /\ next.header = db.header /\ next.equipment = db.equipment
  /\ next.owner = db.owner /\ next.ok = db.ok
  /\ \A i \in SlotIds : next.slots[c][k][i] = IF i \in places THEN Empty ELSE db.slots[c][k][i]
  /\ \A l \in Categories : l # k => next.slots[c][l] = db.slots[c][l]
  /\ \A d \in Characters : d # c => next.slots[d] = db.slots[d]

LEMMA DeleteIs ==
  ASSUME NEW db \in Databases, NEW c \in Characters, NEW k \in Categories, NEW places
  PROVE  SlotsGone(db, DeleteSlots(db, c, k, places), c, k, places)
<1> DEFINE bag == [i \in SlotIds |-> IF i \in places THEN Empty ELSE db.slots[c][k][i]]
           bags == [db.slots[c] EXCEPT ![k] = bag]
           t == [db.slots EXCEPT ![c] = bags]
           next == DeleteSlots(db, c, k, places)
<1>1. db.slots \in SlotTables /\ db.slots[c] \in [Categories -> [SlotIds -> Entry]]
      /\ db.slots[c][k] \in [SlotIds -> Entry] BY DEF Databases, SlotTables
<1>2. SlotsAre(db, next, t) BY DEF SlotsAre, DeleteSlots
<1>3. bag \in [SlotIds -> Entry]
      /\ \A i \in SlotIds : bag[i] = IF i \in places THEN Empty ELSE db.slots[c][k][i]
  BY <1>1, EmptyFits
<1> HIDE DEF bag, next
<1>4. bags \in [Categories -> [SlotIds -> Entry]] /\ bags[k] = bag
      /\ \A l \in Categories : l # k => bags[l] = db.slots[c][l] BY <1>1, <1>3
<1> HIDE DEF bags
<1>5. t \in SlotTables /\ t[c] = bags /\ \A d \in Characters : d # c => t[d] = db.slots[d]
  BY <1>1, <1>4 DEF SlotTables
<1> HIDE DEF t
<1> QED BY <1>3, <1>4, <1>5, <1>2, NewSlots DEF next, SlotsGone

LEMMA DeleteRow ==
  ASSUME NEW db \in Databases, NEW c \in Characters, NEW k \in Categories, NEW i \in SlotIds
  PROVE  SlotSet(db, DeleteSlots(db, c, k, {i}), c, k, i, Empty)
<1> DEFINE next == DeleteSlots(db, c, k, {i})
<1>1. SlotsGone(db, next, c, k, {i}) BY DeleteIs
<1> HIDE DEF next
<1> QED BY <1>1 DEF next, SlotsGone, SlotSet

\* Rows of gear worn are replaced.
WornSet(db, next, c, body) ==
  /\ next \in Databases /\ next.header = db.header /\ next.slots = db.slots
  /\ next.owner = db.owner /\ next.ok = db.ok
  /\ next.equipment[c] = body
  /\ \A d \in Characters : d # c => next.equipment[d] = db.equipment[d]

BodyIs(db, next, c, body) == next = [db EXCEPT !.equipment[c] = body]

LEMMA NewBody ==
  ASSUME NEW db \in Databases, NEW c \in Characters, NEW body \in [WornSlots -> Entry],
         NEW next, BodyIs(db, next, c, body)
  PROVE  WornSet(db, next, c, body)
<1> DEFINE t == [db.equipment EXCEPT ![c] = body]
<1>1. db.equipment \in WornTables BY DEF Databases
<1>2. t \in WornTables /\ t[c] = body /\ \A d \in Characters : d # c => t[d] = db.equipment[d]
  BY <1>1 DEF WornTables
<1>3. next = [header |-> db.header, slots |-> db.slots, equipment |-> t, owner |-> db.owner,
              ok |-> db.ok] BY DEF BodyIs, Databases
<1> HIDE DEF t
<1> QED BY <1>2, <1>3 DEF WornSet, Databases

LEMMA HeaderIs ==
  ASSUME NEW db \in Databases, NEW c \in Characters, NEW s \in Inventory
  PROVE  LET next == UpdateHeader(db, c, s) IN
         /\ next \in Databases /\ next.header = [db.header EXCEPT ![c] = HeaderOf(s)]
         /\ next.slots = db.slots /\ next.equipment = db.equipment /\ next.owner = db.owner
         /\ next.ok = db.ok
<1> DEFINE next == UpdateHeader(db, c, s)
           t == [db.header EXCEPT ![c] = HeaderOf(s)]
<1>1. db.header \in [Characters -> Headers \cup {None}] BY DEF Databases
<1>2. HeaderOf(s) \in Headers BY DEF HeaderOf, Headers, Inventory
<1>3. next = [header |-> t, slots |-> db.slots, equipment |-> db.equipment, owner |-> db.owner,
              ok |-> db.ok]
  <2>1. next = [db EXCEPT !.header[c] = HeaderOf(s)] BY DEF UpdateHeader, HeaderOf
  <2> QED BY <2>1 DEF Databases
<1>4. t \in [Characters -> Headers \cup {None}] BY <1>1, <1>2
<1> HIDE DEF t, next
<1>5. next \in Databases /\ next.header = t /\ next.slots = db.slots
      /\ next.equipment = db.equipment /\ next.owner = db.owner /\ next.ok = db.ok
  BY <1>3, <1>4 DEF Databases
<1> QED BY <1>5 DEF t, next

\* The header is written, and gear has left the places where it does not stay.
Bared(db, c, old, new, create) ==
  LET header1 == UpdateHeader(db, c, new)
      bags == IF create THEN header1 ELSE ClearSlots(header1, c, old, new)
  IN ClearWorn(bags, c, old, new)

LEMMA BaredMidway ==
  ASSUME NEW db, NEW c, NEW old, NEW new, NEW create \in BOOLEAN, Ready(db, c, old, new, create)
  PROVE  Midway(db, Bared(db, c, old, new, create), c, old, new, create, {})
<1> DEFINE header1 == UpdateHeader(db, c, new)
           left == {i \in SlotIds : old.entries[0][i] # Empty /\
                      old.entries[0][i].instance # new.entries[0][i].instance}
           bags == IF create THEN header1 ELSE DeleteSlots(header1, c, 0, left)
           off == {w \in WornSlots : old.equipped[w].instance # new.equipped[w].instance}
           body == [w \in WornSlots |-> IF w \in off THEN Empty ELSE old.equipped[w]]
           bare == DeleteWorn(bags, c, off)
<1>1. Bared(db, c, old, new, create) = bare BY DEF Bared, ClearSlots, ClearWorn
<1>2. /\ db \in Databases /\ db.ok = TRUE /\ c \in Characters
      /\ old \in Good /\ new \in Good /\ new \in Inventory /\ old \in Inventory
      /\ db.equipment[c] = old.equipped
      /\ \A d \in Characters : OwnRows(db.owner, db.slots, db.equipment, d) BY DEF Ready, Good
<1>3. /\ header1 \in Databases /\ header1.header = [db.header EXCEPT ![c] = HeaderOf(new)]
      /\ header1.slots = db.slots /\ header1.equipment = db.equipment
      /\ header1.owner = db.owner /\ header1.ok = TRUE BY <1>2, HeaderIs
<1> HIDE DEF header1, left, off
<1>4. /\ bags \in Databases /\ bags.header = header1.header /\ bags.equipment = db.equipment
      /\ bags.owner = db.owner /\ bags.ok = TRUE
      /\ \A d \in Characters : d # c => bags.slots[d] = db.slots[d]
      /\ \A k \in Categories, i \in SlotIds :
           bags.slots[c][k][i] = IF ~create /\ k = 0 /\ i \in left THEN Empty ELSE db.slots[c][k][i]
  <2>1. CASE create BY <1>3, <2>1
  <2>2. CASE ~create
    <3> DEFINE gone == DeleteSlots(header1, c, 0, left)
    <3>1. SlotsGone(header1, gone, c, 0, left) BY <1>2, <1>3, Numbers, DeleteIs
    <3>2. bags = gone BY <2>2
    <3> HIDE DEF gone, bags
    <3> QED BY <1>3, <2>2, <3>1, <3>2 DEF SlotsGone
  <2> QED BY <2>1, <2>2
<1> HIDE DEF bags
<1>5. BodyIs(bags, bare, c, body) BY <1>2, <1>4 DEF BodyIs, DeleteWorn, Databases, WornTables
<1>6. body \in [WornSlots -> Entry] /\ \A w \in WornSlots :
        body[w] = IF w \in off THEN Empty ELSE old.equipped[w] BY <1>2, EmptyFits, GoodParts
<1> HIDE DEF body, bare
<1>7. /\ bare \in Databases /\ bare.ok = TRUE /\ bare.owner = db.owner
      /\ bare.header = [db.header EXCEPT ![c] = HeaderOf(new)]
      /\ \A d \in Characters \ {c} : bare.slots[d] = db.slots[d] /\ bare.equipment[d] = db.equipment[d]
      /\ \A k \in Categories, i \in SlotIds :
           bare.slots[c][k][i] = IF ~create /\ k = 0 /\ i \in left THEN Empty ELSE db.slots[c][k][i]
      /\ bare.equipment[c] = body BY <1>3, <1>4, <1>2, <1>5, <1>6, NewBody DEF WornSet
<1>8. \A i \in SlotIds : i \in left <=> old.entries[0][i] # Empty /\
                           old.entries[0][i].instance # new.entries[0][i].instance BY DEF left
<1>9. \A i \in SlotIds : bare.slots[c][0][i].instance # 0 => bare.slots[c][0][i] = new.entries[0][i]
  <2> SUFFICES ASSUME NEW i \in SlotIds, bare.slots[c][0][i].instance # 0
               PROVE  bare.slots[c][0][i] = new.entries[0][i] OBVIOUS
  <2> DEFINE e == bare.slots[c][0][i]
             f == new.entries[0][i]
  <2>1. e = db.slots[c][0][i] /\ e # Empty /\ (create \/ i \notin left) BY <1>7, Numbers, EmptyFits
  <2>2. ~create /\ e = old.entries[0][i] BY <2>1, Numbers DEF Ready
  <2>3. e.instance = f.instance BY <1>8, <2>1, <2>2
  <2>4. e \in Entry /\ f \in Entry /\ FitsBag(e, 0) /\ FitsBag(f, 0)
    BY <1>2, <2>2, GoodParts, Numbers DEF Bags
  <2>5. Owns(db.owner, c, e) BY <1>2, <2>1 DEF OwnRows
  <2>6. f.instance # 0 => Owns(db.owner, c, f) BY ReadyGear
  <2> HIDE DEF e, f
  <2>7. e = f BY <2>3, <2>4, <2>5, <2>6, SameGear
  <2> QED BY <2>7 DEF e, f
<1>10. \A w \in WornSlots : bare.equipment[c][w] =
         IF new.equipped[w].instance # old.equipped[w].instance THEN Empty ELSE new.equipped[w]
  <2> SUFFICES ASSUME NEW w \in WornSlots
               PROVE  body[w] = IF new.equipped[w].instance # old.equipped[w].instance THEN Empty
                                ELSE new.equipped[w] BY <1>7
  <2> DEFINE e == old.equipped[w]
             f == new.equipped[w]
  <2>1. w \in off <=> e.instance # f.instance BY DEF off
  <2>2. CASE e.instance # f.instance BY <1>6, <2>1, <2>2
  <2>3. CASE e.instance = f.instance
    <3>1. <<"worn", w>> \in Places /\ e = At(old, <<"worn", w>>) /\ f = At(new, <<"worn", w>>)
      BY PlacesAre
    <3>2. e \in Entry /\ f \in Entry /\ FitsBag(e, 0) /\ FitsBag(f, 0)
      BY <1>2, <3>1, GearAt, EmptyFits, Numbers
    <3>3. e.instance # 0 => Owns(db.owner, c, e) BY <1>2 DEF OwnRows
    <3>4. f.instance # 0 => Owns(db.owner, c, f) BY ReadyGear
    <3>5. body[w] = e BY <1>6, <2>1, <2>3
    <3> HIDE DEF e, f
    <3>6. e = f BY <2>3, <3>2, <3>3, <3>4, SameGear
    <3> QED BY <2>3, <3>5, <3>6 DEF e, f
  <2> QED BY <2>2, <2>3
<1> QED BY <1>1, <1>7, <1>8, <1>9, <1>10 DEF Midway, SameSlot, Ready

\* Where the tables are midway, an instance of the new inventory is in no row but its own.
LEMMA OnlyHere ==
  ASSUME NEW db0, NEW db, NEW c, NEW old, NEW new, NEW create, NEW done,
         Ready(db0, c, old, new, create),
         Midway(db0, db, c, old, new, create, done)
  PROVE  /\ \A i \in SlotIds : new.entries[0][i].instance # 0 =>
              SlotRows(db, new.entries[0][i].instance) \subseteq {<<c, i>>}
         /\ \A w \in WornSlots : new.equipped[w].instance # 0 =>
              /\ WornRows(db, new.equipped[w].instance) \subseteq {<<c, w>>}
              /\ db.equipment[c][w] = Empty => WornRows(db, new.equipped[w].instance) = {}
<1>1. /\ \A d \in Characters : OwnRows(db0.owner, db0.slots, db0.equipment, d)
      /\ \A d \in Characters \ {c} : db.slots[d] = db0.slots[d] /\ db.equipment[d] = db0.equipment[d]
      /\ c \in Characters BY DEF Ready, Midway
<1>2. ASSUME NEW i \in SlotIds, new.entries[0][i].instance # 0,
             NEW d \in Characters, NEW j \in SlotIds,
             db.slots[d][0][j].instance = new.entries[0][i].instance
      PROVE  d = c /\ j = i
  <2>1. CASE d # c
    <3>1. Owns(db0.owner, d, db0.slots[d][0][j]) /\ db.slots[d] = db0.slots[d]
      BY <1>1, <1>2, <2>1 DEF OwnRows
    <3>2. Owns(db0.owner, c, new.entries[0][i]) BY <1>2, ReadyGear
    <3>3. <<d, db0.slots[d][0][j].item>> = <<c, new.entries[0][i].item>>
      BY <1>2, <3>1, <3>2 DEF Owns
    <3> QED BY <2>1, <3>3
  <2>2. CASE d = c BY <1>2, <2>2, ReadyGear DEF Midway
  <2> QED BY <2>1, <2>2
<1>3. ASSUME NEW w \in WornSlots, new.equipped[w].instance # 0,
             NEW d \in Characters, NEW v \in WornSlots,
             db.equipment[d][v].instance = new.equipped[w].instance
      PROVE  d = c /\ v = w /\ db.equipment[c][w] # Empty
  <2>1. CASE d # c
    <3>1. Owns(db0.owner, d, db0.equipment[d][v]) /\ db.equipment[d] = db0.equipment[d]
      BY <1>1, <1>3, <2>1 DEF OwnRows
    <3>2. Owns(db0.owner, c, new.equipped[w]) BY <1>3, ReadyGear
    <3>3. <<d, db0.equipment[d][v].item>> = <<c, new.equipped[w].item>> BY <1>3, <3>1, <3>2 DEF Owns
    <3> QED BY <2>1, <3>3
  <2>2. CASE d = c BY <1>3, <2>2, EmptyFits, ReadyGear DEF Midway
  <2> QED BY <2>1, <2>2
<1>4. ASSUME NEW i \in SlotIds, new.entries[0][i].instance # 0
      PROVE  SlotRows(db, new.entries[0][i].instance) \subseteq {<<c, i>>}
  BY <1>2, <1>4 DEF SlotRows
<1>5. ASSUME NEW w \in WornSlots, new.equipped[w].instance # 0
      PROVE  /\ WornRows(db, new.equipped[w].instance) \subseteq {<<c, w>>}
             /\ db.equipment[c][w] = Empty => WornRows(db, new.equipped[w].instance) = {}
  BY <1>3, <1>5 DEF WornRows
<1> QED BY <1>4, <1>5

\* Rows that are right stay so while another is written.
RightIn(db, c, new, k, i) == db.slots[c][k][i] = new.entries[k][i]

LEMMA SlotStored ==
  ASSUME NEW db0, NEW db, NEW c, NEW old, NEW new, NEW create, NEW done,
         Ready(db0, c, old, new, create),
         Midway(db0, db, c, old, new, create, done), NEW k \in Categories, NEW i \in SlotIds
  PROVE  LET next == StoreSlot(old, new, create, c, db, <<k, i>>) IN
         /\ Midway(db0, next, c, old, new, create, done) /\ RightIn(next, c, new, k, i)
         /\ \A l \in Categories, j \in SlotIds :
              RightIn(db, c, new, l, j) => RightIn(next, c, new, l, j)
<1> DEFINE e == new.entries[k][i]
           next == StoreSlot(old, new, create, c, db, <<k, i>>)
<1>1. db \in Databases /\ db.ok = TRUE /\ c \in Characters /\ new \in Good /\ db.owner = db0.owner
  BY DEF Ready, Midway
<1>2. next = IF SameSlot(old, new, create, k, i) THEN db
             ELSE IF e = Empty THEN DeleteSlots(db, c, k, {i}) ELSE Upsert(db, c, k, i, e)
  BY DEF StoreSlot, SameSlot
<1>3. e \in Entry /\ FitsBag(e, k) BY <1>1, GoodParts DEF Bags
<1> HIDE DEF next, e
<1>4. CASE SameSlot(old, new, create, k, i) BY <1>2, <1>4 DEF Midway, RightIn, next
<1>5. CASE ~SameSlot(old, new, create, k, i)
  <2>1. SlotSet(db, next, c, k, i, e)
    <3>1. CASE e = Empty BY <1>1, <1>2, <1>5, <3>1, DeleteRow
    <3>2. CASE e # Empty
      <4> DEFINE same == SlotRows(db, e.instance)
                 row == IF k # 0 \/ db.slots[c][0][i] # Empty \/ same = {} THEN <<c, i>>
                        ELSE CHOOSE p \in same : TRUE
                 set == [db EXCEPT !.slots[row[1]][k][row[2]] = e]
                 accepted == k # 0 \/ (same \subseteq {row} /\ db.owner[e.instance] = <<row[1], e.item>>)
      <4>1. next = OrRefuse(db, accepted, set) BY <1>2, <1>5, <3>2 DEF Upsert
      <4>2. k = 0 => e.instance # 0 BY <1>3, <3>2, EntryFits
      <4>3. k = 0 => same \subseteq {<<c, i>>} BY <4>2, OnlyHere DEF e
      <4> HIDE DEF same
      <4>4. row = <<c, i>> BY <4>3
      <4>5. accepted
        <5>1. CASE k # 0 BY <5>1
        <5>2. CASE k = 0
          <6>1. Owns(db0.owner, c, e) BY <4>2, <5>2, ReadyGear DEF e
          <6> QED BY <1>1, <4>3, <4>4, <5>2, <6>1 DEF Owns
        <5> QED BY <5>1, <5>2
      <4> HIDE DEF row, accepted
      <4>6. set = [db EXCEPT !.slots[c][k][i] = e] BY <4>4
      <4> HIDE DEF set
      <4>7. next = set BY <1>1, <4>1, <4>5 DEF OrRefuse
      <4> QED BY <1>1, <1>3, <4>6, <4>7, SetRow
    <3> QED BY <3>1, <3>2
  <2>2. /\ next \in Databases /\ next.header = db.header /\ next.equipment = db.equipment
        /\ next.owner = db.owner /\ next.ok = db.ok
        /\ next.slots[c][k][i] = e
        /\ \A d \in Characters, l \in Categories, j \in SlotIds :
             <<d, l, j>> # <<c, k, i>> => next.slots[d][l][j] = db.slots[d][l][j]
    BY <2>1 DEF SlotSet
  <2>3. \A l \in Categories, j \in SlotIds :
          next.slots[c][l][j] = new.entries[l][j] \/ next.slots[c][l][j] = db.slots[c][l][j]
    <3> SUFFICES ASSUME NEW l \in Categories, NEW j \in SlotIds
                 PROVE  next.slots[c][l][j] = new.entries[l][j] \/ next.slots[c][l][j] = db.slots[c][l][j]
      OBVIOUS
    <3>1. CASE l = k /\ j = i BY <2>2, <3>1 DEF e
    <3>2. CASE ~(l = k /\ j = i) BY <3>2, <1>1, <2>2
    <3> QED BY <3>1, <3>2
  <2>4. RightIn(next, c, new, k, i) BY <2>2 DEF RightIn, e
  <2>5. \A d \in Characters \ {c} : next.slots[d] = db.slots[d]
    <3> SUFFICES ASSUME NEW d \in Characters \ {c} PROVE next.slots[d] = db.slots[d] OBVIOUS
    <3> QED BY <1>1, <2>2 DEF Databases, SlotTables
  <2> QED BY <2>4, <2>3, Numbers, <2>2, <2>5 DEF next, RightIn, Midway
<1> QED BY <1>4, <1>5

BagRule(f, old, new, create, c, db, k) ==
  /\ f = [n \in 0..Slots |-> f[n]] /\ f[0] = db
  /\ \A n \in 1..Slots : f[n] = StoreSlot(old, new, create, c, f[n - 1], <<k, n - 1>>)

LEMMA StoreBagIs ==
  ASSUME NEW old, NEW new, NEW create, NEW c, NEW db, NEW k, NEW f,
         BagRule(f, old, new, create, c, db, k)
  PROVE  StoreBag(old, new, create, c, db, k) = f[Slots]
<1> DEFINE Step(d, n) == StoreSlot(old, new, create, c, d, <<k, n - 1>>)
           Fits(g) == g = [n \in 0..Slots |->
             IF n = 0 THEN db ELSE StoreSlot(old, new, create, c, g[n - 1], <<k, n - 1>>)]
           g1 == CHOOSE g : Fits(g)
<1>0. Slots \in Nat BY Numbers
<1>1. StoreBag(old, new, create, c, db, k) = g1[Slots] BY DEF StoreBag
<1>2. Fits(f)
  <2>1. ASSUME NEW n \in 0..Slots PROVE f[n] = IF n = 0 THEN db ELSE Step(f[n - 1], n)
    <3>1. n = 0 \/ n \in 1..Slots BY <1>0
    <3> QED BY <3>1 DEF BagRule
  <2> QED BY <2>1 DEF BagRule
<1>3. Fits(g1) BY <1>2
<1> HIDE DEF g1
<1>4. \A n \in 0..Slots : g1[n] = IF n = 0 THEN db ELSE Step(g1[n - 1], n) BY <1>3
<1>5. GoAlike(f, g1, Slots)
  <2>1. f[0] = g1[0]
    <3>1. 0 \in 0..Slots BY <1>0
    <3>2. g1[0] = db BY <1>4, <3>1
    <3> QED BY <3>2 DEF BagRule
  <2>2. ASSUME NEW n \in 1..Slots, f[n - 1] = g1[n - 1] PROVE f[n] = g1[n]
    <3>1. n \in 0..Slots /\ n # 0 BY <1>0
    <3> QED BY <1>4, <2>2, <3>1 DEF BagRule
  <2> QED BY <2>1, <2>2 DEF GoAlike
<1> QED BY <1>0, <1>1, <1>5, SameRecursion

\* What was right in one version of the tables is right in the next.
StillRight(db, next, c, new) ==
  \A k \in Categories, i \in SlotIds : RightIn(db, c, new, k, i) => RightIn(next, c, new, k, i)

LEMMA BagStored ==
  ASSUME NEW db0, NEW db, NEW c, NEW old, NEW new, NEW create, NEW done,
         Ready(db0, c, old, new, create),
         Midway(db0, db, c, old, new, create, done), NEW k \in Categories
  PROVE  LET next == StoreBag(old, new, create, c, db, k) IN
         /\ Midway(db0, next, c, old, new, create, done) /\ StillRight(db, next, c, new)
         /\ \A i \in SlotIds : RightIn(next, c, new, k, i)
<1> DEFINE S == {d \in Databases : Midway(db0, d, c, old, new, create, done)}
           step == [n \in 1..Slots |-> [d \in S |-> StoreSlot(old, new, create, c, d, <<k, n - 1>>)]]
<1>0. Slots \in Nat /\ \A n \in 1..Slots : n - 1 \in SlotIds /\ n - 1 \in 0..Slots
  BY Numbers DEF SlotIds
<1>1. db \in S /\ \A d : d \in S <=> Midway(db0, d, c, old, new, create, done) BY DEF Midway
<1> HIDE DEF S
<1>2. \A n \in 1..Slots : step[n] \in [S -> S]
  <2> SUFFICES ASSUME NEW n \in 1..Slots, NEW d \in S
               PROVE  StoreSlot(old, new, create, c, d, <<k, n - 1>>) \in S OBVIOUS
  <2> QED BY <1>0, <1>1, SlotStored
<1> HIDE DEF step
<1>3. PICK f : Iterates(f, Slots, S, db, step) BY <1>0, <1>1, <1>2, Recursion
<1>4. /\ f \in [0..Slots -> S] /\ f[0] = db
      /\ \A n \in 1..Slots : f[n - 1] \in S
           /\ f[n] = StoreSlot(old, new, create, c, f[n - 1], <<k, n - 1>>)
  BY <1>3, <1>0 DEF Iterates, step
<1>5. BagRule(f, old, new, create, c, db, k) BY <1>4 DEF BagRule
<1>6. StoreBag(old, new, create, c, db, k) = f[Slots] BY <1>5, StoreBagIs
<1> DEFINE G == {n \in Nat : n <= Slots => /\ StillRight(db, f[n], c, new)
                                           /\ \A i \in SlotIds : i < n => RightIn(f[n], c, new, k, i)}
<1>7. 0 \in G BY <1>4, Numbers DEF StillRight
<1>8. ASSUME NEW n \in G PROVE n + 1 \in G
  <2> SUFFICES ASSUME n + 1 <= Slots
               PROVE  /\ StillRight(db, f[n + 1], c, new)
                      /\ \A i \in SlotIds : i < n + 1 => RightIn(f[n + 1], c, new, k, i) BY <1>8
  <2>1. n \in Nat /\ n + 1 \in 1..Slots /\ (n + 1) - 1 = n /\ n \in SlotIds
    BY <1>0, <1>8 DEF SlotIds
  <2>2. /\ RightIn(f[n + 1], c, new, k, n)
        /\ \A l \in Categories, j \in SlotIds :
             RightIn(f[n], c, new, l, j) => RightIn(f[n + 1], c, new, l, j)
    BY <1>1, <2>1, <1>4, SlotStored
  <2> QED BY <1>0, <1>8, <2>1, <2>2, Numbers DEF StillRight
<1>9. Slots \in G BY <1>0, <1>7, <1>8, Induction
<1> QED BY <1>0, <1>6, <1>9, <1>4, <1>1 DEF SlotIds

BagsRule(f, old, new, create, c, db) ==
  /\ f = [n \in 0..5 |-> f[n]] /\ f[0] = db
  /\ \A n \in 1..5 : f[n] = IF n - 1 \in Categories
                            THEN StoreBag(old, new, create, c, f[n - 1], n - 1) ELSE f[n - 1]

LEMMA StoreBagsIs ==
  ASSUME NEW old, NEW new, NEW create, NEW c, NEW db, NEW f,
         BagsRule(f, old, new, create, c, db)
  PROVE  StoreBags(old, new, create, c, db) = f[5]
<1> DEFINE Step(d, n) == IF n - 1 \in Categories THEN StoreBag(old, new, create, c, d, n - 1) ELSE d
           Fits(g) == g = [n \in 0..5 |->
             IF n = 0 THEN db
             ELSE IF n - 1 \in Categories THEN StoreBag(old, new, create, c, g[n - 1], n - 1)
             ELSE g[n - 1]]
           g1 == CHOOSE g : Fits(g)
<1>1. StoreBags(old, new, create, c, db) = g1[5] BY DEF StoreBags
<1>2. Fits(f) BY DEF BagsRule
<1>3. Fits(g1) BY <1>2
<1> HIDE DEF g1
<1>4. \A n \in 0..5 : g1[n] = IF n = 0 THEN db ELSE Step(g1[n - 1], n) BY <1>3
<1>5. GoAlike(f, g1, 5) BY <1>4 DEF BagsRule, GoAlike
<1> QED BY <1>1, <1>5, SameRecursion

LEMMA BagsStored ==
  ASSUME NEW db0, NEW db, NEW c, NEW old, NEW new, NEW create, NEW done,
         Ready(db0, c, old, new, create),
         Midway(db0, db, c, old, new, create, done)
  PROVE  LET next == StoreBags(old, new, create, c, db) IN
         /\ Midway(db0, next, c, old, new, create, done)
         /\ \A k \in Categories, i \in SlotIds : RightIn(next, c, new, k, i)
<1> DEFINE S == {d \in Databases : Midway(db0, d, c, old, new, create, done)}
           Step(d, n) == IF n - 1 \in Categories THEN StoreBag(old, new, create, c, d, n - 1) ELSE d
           step == [n \in 1..5 |-> [d \in S |-> Step(d, n)]]
<1>1. db \in S /\ \A d : d \in S <=> Midway(db0, d, c, old, new, create, done) BY DEF Midway
<1> HIDE DEF S
<1>2. \A n \in 1..5 : step[n] \in [S -> S]
  <2> SUFFICES ASSUME NEW n \in 1..5, NEW d \in S PROVE Step(d, n) \in S OBVIOUS
  <2> QED BY <1>1, BagStored
<1> HIDE DEF step
<1>3. PICK f : Iterates(f, 5, S, db, step) BY <1>1, <1>2, Recursion
<1>4. /\ f \in [0..5 -> S] /\ f[0] = db
      /\ \A n \in 1..5 : f[n - 1] \in S /\ f[n] = Step(f[n - 1], n) BY <1>3 DEF Iterates, step
<1>5. BagsRule(f, old, new, create, c, db) BY <1>4 DEF BagsRule
<1>6. StoreBags(old, new, create, c, db) = f[5] BY <1>5, StoreBagsIs
<1> DEFINE G == {n \in Nat : n <= 5 => \A k \in Categories, i \in SlotIds :
                                         k < n => RightIn(f[n], c, new, k, i)}
<1>7. \A k \in Categories : k \in 0..4 BY Catalog
<1>8. 0 \in G BY <1>7
<1>9. ASSUME NEW n \in G PROVE n + 1 \in G
  <2> SUFFICES ASSUME n + 1 <= 5, NEW k \in Categories, NEW i \in SlotIds, k < n + 1
               PROVE  RightIn(f[n + 1], c, new, k, i) BY <1>9
  <2>1. n \in Nat /\ n + 1 \in 1..5 /\ (n + 1) - 1 = n /\ (k < n \/ k = n) BY <1>7, <1>9
  <2>2. f[n] \in S /\ f[n + 1] = IF n \in Categories THEN StoreBag(old, new, create, c, f[n], n)
                                 ELSE f[n] BY <1>4, <2>1
  <2>3. k < n => RightIn(f[n], c, new, k, i) BY <1>9, <2>1
  <2> QED BY <2>1, <2>2, <2>3, <1>1, BagStored DEF StillRight
<1>10. 5 \in G BY <1>8, <1>9, Induction
<1>11. Midway(db0, f[5], c, old, new, create, done) BY <1>1, <1>4
<1> QED BY <1>6, <1>7, <1>10, <1>11

LEMMA WornStored ==
  ASSUME NEW db0, NEW db, NEW c, NEW old, NEW new, NEW create, NEW done,
         Ready(db0, c, old, new, create),
         Midway(db0, db, c, old, new, create, done), NEW w \in WornSlots \ done
  PROVE  LET next == StoreWorn(old, new, c, db, w) IN
         /\ Midway(db0, next, c, old, new, create, done \cup {w}) /\ next.slots = db.slots
<1> DEFINE e == new.equipped[w]
           next == StoreWorn(old, new, c, db, w)
           body == [db.equipment[c] EXCEPT ![w] = e]
<1>1. db \in Databases /\ db.ok = TRUE /\ c \in Characters /\ new \in Good /\ db.owner = db0.owner
      /\ db.equipment[c] \in [WornSlots -> Entry] BY DEF Ready, Midway, Databases, WornTables
<1>2. e \in Entry /\ new.equipped \in [WornSlots -> Entry] /\ FitsBody(e, w) BY <1>1, GoodParts
<1>3. next = IF e = Empty \/ e.instance = old.equipped[w].instance THEN db
             ELSE InsertWorn(db, c, w, e) BY DEF StoreWorn
<1>4. db.equipment[c][w] = IF e.instance # old.equipped[w].instance THEN Empty ELSE e BY DEF Midway
<1> HIDE DEF e, next
<1>5. CASE e = Empty \/ e.instance = old.equipped[w].instance
  BY <1>3, <1>4, <1>5 DEF Midway, e, next
<1>6. CASE ~(e = Empty \/ e.instance = old.equipped[w].instance)
  <2>1. e.instance # 0 /\ db.equipment[c][w] = Empty BY <1>2, <1>4, <1>6 DEF FitsBody
  <2>2. WornRows(db, e.instance) = {} BY <2>1, OnlyHere DEF e
  <2>3. BodyIs(db, next, c, body)
    BY <1>1, <1>3, <1>6, <2>1, <2>2, ReadyGear DEF BodyIs, InsertWorn, OrRefuse, e, Owns
  <2>4. body \in [WornSlots -> Entry] /\ body[w] = e
        /\ \A v \in WornSlots : v # w => body[v] = db.equipment[c][v] BY <1>1, <1>2
  <2> HIDE DEF body
  <2>5. WornSet(db, next, c, body) BY <1>1, <2>3, <2>4, NewBody
  <2>6. \A v \in WornSlots : body[v] =
          IF v \notin done \cup {w} /\ new.equipped[v].instance # old.equipped[v].instance
          THEN Empty ELSE new.equipped[v]
    <3> SUFFICES ASSUME NEW v \in WornSlots
                 PROVE  body[v] =
                   IF v \notin done \cup {w} /\ new.equipped[v].instance # old.equipped[v].instance
                   THEN Empty ELSE new.equipped[v] OBVIOUS
    <3>1. CASE v = w BY <2>4, <3>1 DEF e
    <3>2. CASE v # w BY <2>4, <3>2 DEF Midway
    <3> QED BY <3>1, <3>2
  <2> QED BY <2>5, <2>6 DEF next, Midway, WornSet
<1> QED BY <1>5, <1>6

\* The rows of one character say exactly this inventory, and no other row has changed.
Written(db, next, c, s) ==
  /\ next \in Databases /\ next.ok = TRUE /\ next.owner = db.owner
  /\ next.header = [db.header EXCEPT ![c] = HeaderOf(s)]
  /\ next.slots = [db.slots EXCEPT ![c] = s.entries]
  /\ next.equipment = [db.equipment EXCEPT ![c] = s.equipped]

LEMMA WriteIs ==
  ASSUME NEW db, NEW c, NEW old, NEW new, NEW create \in BOOLEAN, Ready(db, c, old, new, create)
  PROVE  Written(db, Write(db, c, old, new, create), c, new)
<1> DEFINE bare == Bared(db, c, old, new, create)
           packed == StoreBags(old, new, create, c, bare)
           hand == StoreWorn(old, new, c, packed, 0)
           next == StoreWorn(old, new, c, hand, 1)
<1>1. Write(db, c, old, new, create) = next BY DEF Write, Bared
<1>2. Midway(db, bare, c, old, new, create, {}) BY BaredMidway
<1> HIDE DEF bare
<1>3. /\ Midway(db, packed, c, old, new, create, {})
      /\ \A k \in Categories, i \in SlotIds : RightIn(packed, c, new, k, i) BY <1>2, BagsStored
<1> HIDE DEF packed
<1>4. Midway(db, hand, c, old, new, create, {} \cup {0}) /\ hand.slots = packed.slots
  BY <1>3, WornStored DEF WornSlots
<1> HIDE DEF hand
<1>5. Midway(db, next, c, old, new, create, ({} \cup {0}) \cup {1}) /\ next.slots = hand.slots
  BY <1>4, WornStored DEF WornSlots
<1> HIDE DEF next
<1>6. db \in Databases /\ c \in Characters /\ new \in Good BY DEF Ready
<1>7. /\ next \in Databases /\ next.ok = TRUE /\ next.owner = db.owner
      /\ next.header = [db.header EXCEPT ![c] = HeaderOf(new)]
      /\ \A d \in Characters \ {c} : next.slots[d] = db.slots[d] /\ next.equipment[d] = db.equipment[d]
      /\ \A w \in WornSlots : next.equipment[c][w] = new.equipped[w] BY <1>5 DEF Midway, WornSlots
<1>8. next.slots[c] = new.entries
  BY <1>3, <1>4, <1>5, <1>6, <1>7, GoodParts DEF RightIn, Databases, SlotTables
<1>9. next.equipment = [db.equipment EXCEPT ![c] = new.equipped]
  BY <1>6, <1>7, GoodParts DEF Databases, WornTables
<1>10. Written(db, next, c, new) BY <1>7, <1>6, <1>8, <1>9 DEF Written, Databases, SlotTables
<1> QED BY <1>1, <1>10

-----------------------------------------------------------------------------
(* Offered gear is released.                                                  *)

\* Gear is in rows of its own character, and worn or in the bag.
Tidy(db) ==
  \A d \in Characters :
    /\ OwnRows(db.owner, db.slots, db.equipment, d)
    /\ \A i \in SlotIds, w \in WornSlots :
         db.slots[d][0][i].instance = db.equipment[d][w].instance
           => db.slots[d][0][i].instance = 0

\* The tables once this gear has left its rows for another owner.
Freed(db0, db, from, to, gear) ==
  /\ db \in Databases /\ db.ok = TRUE
  /\ db.header = db0.header /\ db.equipment = db0.equipment
  /\ \A d \in Characters \ {from} : db.slots[d] = db0.slots[d]
  /\ \A k \in Categories \ {0} : db.slots[from][k] = db0.slots[from][k]
  /\ \A i \in SlotIds : db.slots[from][0][i] =
       IF db0.slots[from][0][i].instance \in gear THEN Empty ELSE db0.slots[from][0][i]
  /\ db.owner = [n \in DOMAIN db0.owner |->
       IF n \in gear THEN <<to, db0.owner[n][2]>> ELSE db0.owner[n]]

\* Gear that lies in the bag can be released.
Releasable(db, from, o) ==
  o.instance # 0 => /\ Owns(db.owner, from, o)
                    /\ \E i \in SlotIds : db.slots[from][0][i].instance = o.instance

OwnerIs(db, next, n, to) == next = [db EXCEPT !.owner[n][1] = to]

LEMMA NewOwner ==
  ASSUME NEW db \in Databases, NEW n \in DOMAIN db.owner, NEW to \in Characters, NEW next,
         OwnerIs(db, next, n, to)
  PROVE  /\ next \in Databases /\ next.ok = db.ok /\ next.header = db.header
         /\ next.slots = db.slots /\ next.equipment = db.equipment
         /\ next.owner = [m \in DOMAIN db.owner |-> IF m = n THEN <<to, db.owner[n][2]>>
                                                    ELSE db.owner[m]]
<1> DEFINE one == [db.owner[n] EXCEPT ![1] = to]
           all == [db.owner EXCEPT ![n] = one]
           t == [m \in DOMAIN db.owner |-> IF m = n THEN <<to, db.owner[n][2]>> ELSE db.owner[m]]
<1>1. db.owner \in Seq(Characters \X Nat) /\ Len(db.owner) \in Nat
      /\ DOMAIN db.owner = 1..Len(db.owner)
      /\ \A m \in DOMAIN db.owner : db.owner[m] \in Characters \X Nat BY DEF Databases
<1>2. next = [header |-> db.header, slots |-> db.slots, equipment |-> db.equipment, owner |-> all,
              ok |-> db.ok] BY DEF OwnerIs, Databases
<1>3. one = <<to, db.owner[n][2]>> BY <1>1
<1>4. t \in [1..Len(db.owner) -> Characters \X Nat] BY <1>1
<1>5. all = t BY <1>1, <1>3
<1>6. t \in Seq(Characters \X Nat) BY <1>1, <1>4, SeqDef
<1> HIDE DEF all, t, one
<1> QED BY <1>2, <1>5, <1>6 DEF t, Databases

LEMMA ReleaseIs ==
  ASSUME NEW db0 \in Databases, Tidy(db0), NEW from \in Characters, NEW to \in Characters,
         NEW gear, 0 \notin gear, NEW db, Freed(db0, db, from, to, gear),
         NEW o, Releasable(db0, from, o), o.instance \notin gear
  PROVE  Freed(db0, Release(db, o, from, to), from, to, gear \cup ({o.instance} \ {0}))
<1> DEFINE n == o.instance
           next == Release(db, o, from, to)
<1>1. CASE n = 0 BY <1>1 DEF Release
<1>2. CASE n # 0
  <2> DEFINE held == \E i \in SlotIds : db.slots[from][0][i].instance = n
             here == {i \in SlotIds : db.slots[from][0][i].instance = n}
             freed == [db EXCEPT !.slots[from][0] =
                         [i \in SlotIds |-> IF @[i].instance = n THEN Empty ELSE @[i]]]
             gone == DeleteSlots(db, from, 0, here)
             more == gear \cup ({n} \ {0})
  <2>1. /\ db \in Databases /\ db.ok = TRUE
        /\ db.header = db0.header /\ db.equipment = db0.equipment
        /\ \A d \in Characters \ {from} : db.slots[d] = db0.slots[d]
        /\ \A k \in Categories \ {0} : db.slots[from][k] = db0.slots[from][k]
        /\ \A i \in SlotIds : db.slots[from][0][i] =
             IF db0.slots[from][0][i].instance \in gear THEN Empty ELSE db0.slots[from][0][i]
        /\ db.owner = [m \in DOMAIN db0.owner |->
             IF m \in gear THEN <<to, db0.owner[m][2]>> ELSE db0.owner[m]] BY DEF Freed
  <2>2. n \in DOMAIN db0.owner /\ db0.owner[n] = <<from, o.item>>
        /\ \E i \in SlotIds : db0.slots[from][0][i].instance = n BY <1>2 DEF Releasable, Owns
  <2>3. held BY <2>1, <2>2
  <2>4. DOMAIN db.owner = DOMAIN db0.owner /\ db.owner[n] = <<from, o.item>> BY <2>1, <2>2
  <2>5. freed = gone
    <3>1. [i \in SlotIds |-> IF db.slots[from][0][i].instance = n THEN Empty
                             ELSE db.slots[from][0][i]]
          = [i \in SlotIds |-> IF i \in here THEN Empty ELSE db.slots[from][0][i]] OBVIOUS
    <3> DEFINE x == [i \in SlotIds |-> IF db.slots[from][0][i].instance = n THEN Empty
                                       ELSE db.slots[from][0][i]]
               y == [i \in SlotIds |-> IF i \in here THEN Empty ELSE db.slots[from][0][i]]
    <3>2. freed = [db EXCEPT !.slots[from][0] = x] BY <2>1, Numbers DEF Databases, SlotTables
    <3>3. gone = [db EXCEPT !.slots[from][0] = y]
      BY <2>1, Numbers DEF DeleteSlots, Databases, SlotTables
    <3>4. x = y BY <3>1
    <3> HIDE DEF x, y, freed, gone
    <3> QED BY <3>2, <3>3, <3>4
  <2>6. next = TransferOwner(OrRefuse(db, held, freed), n, o.item, from, to) BY <1>2 DEF Release
  <2>7. OrRefuse(db, held, freed) = freed BY <2>1, <2>3 DEF OrRefuse
  <2>8. SlotsGone(db, gone, from, 0, here) BY <2>1, Numbers, DeleteIs
  <2>9. \A i \in SlotIds : i \in here <=> db.slots[from][0][i].instance = n OBVIOUS
  <2> HIDE DEF held, freed, gone, here
  <2>10. /\ gone \in Databases /\ gone.ok = TRUE /\ gone.owner = db.owner
         /\ gone.header = db0.header /\ gone.equipment = db0.equipment
         /\ \A d \in Characters \ {from} : gone.slots[d] = db0.slots[d]
         /\ \A k \in Categories \ {0} : gone.slots[from][k] = db0.slots[from][k]
         /\ \A i \in SlotIds : gone.slots[from][0][i] =
              IF db.slots[from][0][i].instance = n THEN Empty ELSE db.slots[from][0][i]
    BY <2>1, <2>8, <2>9 DEF SlotsGone
  <2>11. \A i \in SlotIds : gone.slots[from][0][i] =
           IF db0.slots[from][0][i].instance \in more THEN Empty ELSE db0.slots[from][0][i]
    BY <1>2, <2>1, <2>10, EmptyFits
  <2>12. SlotRows(gone, n) = {}
    <3> SUFFICES ASSUME NEW d \in Characters, NEW j \in SlotIds, gone.slots[d][0][j].instance = n
                 PROVE  FALSE BY DEF SlotRows
    <3>1. d # from BY <1>2, <2>10, EmptyFits
    <3>2. Owns(db0.owner, d, db0.slots[d][0][j]) /\ db0.slots[d][0][j].instance = n
      BY <1>2, <2>10, <3>1 DEF Tidy, OwnRows
    <3> QED BY <3>1, <2>2, <3>2 DEF Owns
  <2>13. WornRows(gone, n) = {}
    <3> SUFFICES ASSUME NEW d \in Characters, NEW w \in WornSlots, db0.equipment[d][w].instance = n
                 PROVE  FALSE BY <2>10 DEF WornRows
    <3>1. d = from BY <2>2, <1>2 DEF Owns, Tidy, OwnRows
    <3> QED BY <1>2, <2>2, <3>1 DEF Tidy
  <2>14. OwnerIs(gone, next, n, to)
    BY <2>4, <2>5, <2>6, <2>7, <2>10, <2>12, <2>13 DEF TransferOwner, OrRefuse, OwnerIs
  <2>15. /\ next \in Databases /\ next.ok = gone.ok /\ next.header = gone.header
         /\ next.slots = gone.slots /\ next.equipment = gone.equipment
         /\ next.owner = [m \in DOMAIN gone.owner |-> IF m = n THEN <<to, gone.owner[n][2]>>
                                                      ELSE gone.owner[m]]
    <3>1. n \in DOMAIN gone.owner BY <2>2, <2>4, <2>10
    <3> HIDE DEF next
    <3> QED BY <2>10, <2>14, <3>1, NewOwner
  <2>16. next.owner = [m \in DOMAIN db0.owner |->
           IF m \in more THEN <<to, db0.owner[m][2]>> ELSE db0.owner[m]]
    <3>1. next.owner = [m \in DOMAIN db0.owner |-> IF m = n THEN <<to, db.owner[n][2]>>
                                                   ELSE db.owner[m]] BY <2>4, <2>10, <2>15
    <3>2. db.owner[n][2] = db0.owner[n][2] BY <2>2, <2>4
    <3>3. \A m \in DOMAIN db0.owner : m \in more <=> m \in gear \/ m = n BY <1>2
    <3> HIDE DEF next, more
    <3> QED BY <3>1, <3>2, <3>3, <2>1
  <2> HIDE DEF next, more
  <2>17. Freed(db0, next, from, to, more)
    <3>1. /\ next \in Databases /\ next.ok = TRUE
          /\ next.header = db0.header /\ next.equipment = db0.equipment BY <2>10, <2>15
    <3>2. /\ \A d \in Characters \ {from} : next.slots[d] = db0.slots[d]
          /\ \A k \in Categories \ {0} : next.slots[from][k] = db0.slots[from][k] BY <2>10, <2>15
    <3>3. \A i \in SlotIds : next.slots[from][0][i] =
            IF db0.slots[from][0][i].instance \in more THEN Empty ELSE db0.slots[from][0][i]
      BY <2>11, <2>15
    <3> QED BY ONLY <2>16, <3>1, <3>2, <3>3 DEF Freed
  <2> QED BY <2>17 DEF next, more
<1> QED BY <1>1, <1>2

GearTo(items, n) == {items[j].instance : j \in 1..n} \ {0}

ReleaseRule(f, db, items, from, to) ==
  /\ f = [n \in 0..Len(items) |-> f[n]] /\ f[0] = db
  /\ \A n \in 1..Len(items) : f[n] = Release(f[n - 1], items[n], from, to)

LEMMA ReleaseAllIs ==
  ASSUME NEW db, NEW items, Len(items) \in Nat, NEW from, NEW to, NEW f,
         ReleaseRule(f, db, items, from, to)
  PROVE  ReleaseAll(db, items, from, to) = f[Len(items)]
<1> DEFINE L == Len(items)
           Fits(g) == g = [n \in 0..L |->
             IF n = 0 THEN db ELSE Release(g[n - 1], items[n], from, to)]
           g1 == CHOOSE g : Fits(g)
<1>1. ReleaseAll(db, items, from, to) = g1[L] BY DEF ReleaseAll
<1>2. Fits(f) BY DEF ReleaseRule
<1>3. Fits(g1) BY <1>2
<1> HIDE DEF g1
<1>4. \A n \in 0..L : g1[n] = IF n = 0 THEN db ELSE Release(g1[n - 1], items[n], from, to) BY <1>3
<1>5. GoAlike(f, g1, L)
  <2>1. f[0] = g1[0] BY <1>4 DEF ReleaseRule
  <2>2. ASSUME NEW n \in 1..L, f[n - 1] = g1[n - 1] PROVE f[n] = g1[n] BY <1>4, <2>2 DEF ReleaseRule
  <2> QED BY <2>1, <2>2 DEF GoAlike
<1> QED BY <1>1, <1>5, SameRecursion

LEMMA ReleaseAllFreed ==
  ASSUME NEW db \in Databases, db.ok = TRUE, Tidy(db), NEW from \in Characters, NEW to \in Characters,
         NEW T, NEW items \in Seq(T), \A j \in 1..Len(items) : Releasable(db, from, items[j]),
         \A j, l \in 1..Len(items) :
           items[j].instance = items[l].instance => j = l \/ items[j].instance = 0
  PROVE  Freed(db, ReleaseAll(db, items, from, to), from, to, GearTo(items, Len(items)))
<1> DEFINE L == Len(items)
           Now(d, n) == Freed(db, d, from, to, GearTo(items, n))
           step == [n \in 1..L |-> [d \in Databases |->
             IF Now(d, n - 1) THEN Release(d, items[n], from, to) ELSE d]]
<1>0. L \in Nat OBVIOUS
<1>1. ASSUME NEW n \in 1..L, NEW d \in Databases, Now(d, n - 1)
      PROVE  Release(d, items[n], from, to) \in Databases /\ Now(Release(d, items[n], from, to), n)
  <2> DEFINE gear == GearTo(items, n - 1)
             o == items[n]
             next == Release(d, o, from, to)
  <2>1. 0 \notin gear /\ Releasable(db, from, o) BY DEF GearTo
  <2>2. CASE o.instance \notin gear
    <3>1. Freed(db, next, from, to, gear \cup ({o.instance} \ {0}))
      <4>1. Freed(db, d, from, to, gear) BY <1>1
      <4> HIDE DEF gear, o, next
      <4> QED BY <2>1, <2>2, <4>1, ReleaseIs DEF next
    <3>2. GearTo(items, n) = gear \cup ({o.instance} \ {0}) BY <1>0 DEF GearTo
    <3> HIDE DEF gear, next
    <3> QED BY <3>1, <3>2 DEF Freed, next
  <2>3. CASE o.instance \in gear
    <3>1. PICK j \in 1..(n - 1) : items[j].instance = o.instance /\ o.instance # 0
      BY <2>3 DEF GearTo
    <3>2. j \in 1..L /\ j # n BY <1>0, <3>1
    <3> QED BY <3>1, <3>2
  <2> QED BY <2>2, <2>3
<1> HIDE DEF Now
<1>2. \A n \in 1..L : step[n] \in [Databases -> Databases] BY <1>1
<1> HIDE DEF step
<1>3. PICK f : Iterates(f, L, Databases, db, step) BY <1>0, <1>2, Recursion
<1>4. /\ f \in [0..L -> Databases] /\ f[0] = db
      /\ \A n \in 1..L : f[n] = IF Now(f[n - 1], n - 1) THEN Release(f[n - 1], items[n], from, to)
                                ELSE f[n - 1]
  <2>1. f \in [0..L -> Databases] /\ f[0] = db /\ \A n \in 1..L : f[n] = step[n][f[n - 1]]
    BY <1>3 DEF Iterates
  <2>2. \A n \in 1..L : f[n - 1] \in Databases BY <1>0, <2>1
  <2> QED BY <2>1, <2>2 DEF step
<1> DEFINE G == {n \in Nat : n <= L => Now(f[n], n)}
<1>5. 0 \in G BY <1>4 DEF GearTo, Databases, Freed, Now
<1>6. ASSUME NEW n \in G PROVE n + 1 \in G
  <2> SUFFICES ASSUME n + 1 <= L PROVE Now(f[n + 1], n + 1) BY <1>6
  <2>1. n \in Nat /\ n + 1 \in 1..L /\ (n + 1) - 1 = n /\ n \in 0..L BY <1>0, <1>6
  <2>2. Now(f[n], n) /\ f[n] \in Databases BY <1>4, <1>6, <2>1
  <2> QED BY <1>1, <2>1, <2>2, <1>4
<1>7. G = Nat BY <1>5, <1>6, Induction
<1>8. \A n \in 0..L : Now(f[n], n) BY <1>7
<1>9. Now(f[L], L) BY <1>0, <1>8
<1> QED
  BY <1>0, <1>4, <1>8, ReleaseAllIs, <1>9 DEF Now, ReleaseRule

-----------------------------------------------------------------------------
(* The rules of the abstract store are the rules of this module.              *)

LEMMA SameFill ==
  ASSUME NEW b, NEW p, NEW i, NEW n, NEW l PROVE Store!Fill(b, p, i, n, l) = Fill(b, p, i, n, l)
BY DEF Store!Fill, Fill, Store!Put, Put, Store!Min, Min

LEMMA SameDeposit ==
  ASSUME NEW b, NEW p, NEW i, NEW n, NEW l
  PROVE  Store!Deposit(b, p, i, n, l) = Deposit(b, p, i, n, l)
BY SameFill DEF Store!Deposit, Deposit, Store!FillStacks, FillStacks, Store!SlotIds, SlotIds,
  Store!Empty, Empty

LEMMA SameStack ==
  ASSUME NEW i, NEW k PROVE Store!StackLimit(i, k) = StackLimit(i, k)
BY DEF Store!StackLimit, StackLimit, Store!ItemsOf, ItemsOf

LEMMA SamePacked ==
  ASSUME NEW b, NEW k PROVE Store!Packed(b, k) = Packed(b, k)
BY DEF Store!Packed, Packed, Store!PackNext, PackNext, Store!NextOf, NextOf, Store!Pack, Pack,
  Store!Min, Min, Store!Last, Last, Store!Front, Front, Store!StackLimit, StackLimit, Store!ItemsOf,
  ItemsOf, Store!SlotIds, SlotIds, Store!Empty, Empty

LEMMA SameReceiveAll ==
  ASSUME NEW s, NEW o PROVE Store!ReceiveAll(s, o) = ReceiveAll(s, o)
BY DEF Store!ReceiveAll, ReceiveAll, Store!Receive, Receive, Store!Deposit, Deposit,
  Store!FillStacks, FillStacks, Store!Fill, Fill, Store!Put, Put, Store!Min, Min, Store!SlotIds,
  SlotIds, Store!Empty, Empty, Store!StackLimit, StackLimit, Store!ItemsOf, ItemsOf, Store!Reply,
  Reply

LEMMA SameTakeAll ==
  ASSUME NEW s, NEW o PROVE Store!TakeAll(s, o) = TakeAll(s, o)
BY DEF Store!TakeAll, TakeAll, Store!Take, Take, Store!SlotIds, SlotIds, Store!Empty, Empty

LEMMA SameStarter ==
  ASSUME NEW n PROVE Store!Starter(n) = Starter(n)
BY DEF Store!Starter, Starter, Store!SlotIds, SlotIds, Store!Empty, Empty, Store!Gear, Gear,
  Store!WornSlots, WornSlots

LEMMA SameValidate ==
  ASSUME NEW s PROVE Store!Validate(s) = Validate(s)
BY DEF Store!Validate, Validate, Store!WellFormed, WellFormed, Store!SlotIds, SlotIds,
  Store!StackLimit, StackLimit, Store!ItemsOf, ItemsOf, Store!WornSlots, WornSlots, Store!Empty,
  Empty, Store!EquipmentSlot, EquipmentSlot, Store!Places, Places, Store!At, At, Store!FitsBag,
  FitsBag, Store!FitsBody, FitsBody

LEMMA SameEquip ==
  ASSUME NEW s, NEW r PROVE Store!Equip(s, r) = Equip(s, r)
BY DEF Store!Equip, Equip, Store!EquipmentSlot, EquipmentSlot, Store!Reply, Reply

LEMMA SameUnequip ==
  ASSUME NEW s, NEW r PROVE Store!Unequip(s, r) = Unequip(s, r)
BY DEF Store!Unequip, Unequip, Store!WornSlots, WornSlots, Store!Empty, Empty, Store!Reply, Reply

LEMMA SameMove ==
  ASSUME NEW s, NEW r PROVE Store!Move(s, r) = Move(s, r)
BY DEF Store!Move, Move, Store!Empty, Empty, Store!Reply, Reply, Store!Min, Min, Store!Stack, Stack,
  Store!StackLimit, StackLimit, Store!ItemsOf, ItemsOf

LEMMA SameSort ==
  ASSUME NEW s, NEW r PROVE Store!Sort(s, r) = Sort(s, r)
BY SamePacked DEF Store!Sort, Sort, Store!Reply, Reply, Store!Empty, Empty, Store!SlotIds, SlotIds

LEMMA SameUse ==
  ASSUME NEW s, NEW r PROVE Store!Use(s, r) = Use(s, r)
BY DEF Store!Use, Use, Store!Reply, Reply, Store!Empty, Empty, Store!Min, Min

LEMMA SameOperate ==
  ASSUME NEW s, NEW r PROVE Store!Operate(s, r) = Operate(s, r)
BY SameEquip, SameUnequip, SameMove, SameSort, SameUse DEF Store!Operate, Operate

LEMMA SameApply ==
  ASSUME NEW s, NEW r PROVE Store!Apply(s, r) = Apply(s, r)
BY SameOperate, SameValidate DEF Store!Apply, Apply, Store!Reply, Reply, Store!SlotIds, SlotIds,
  Store!Changed, Changed, Store!WornSlots, WornSlots

LEMMA SameMutate ==
  ASSUME NEW s, NEW m PROVE Store!Mutate(s, m) = Mutate(s, m)
BY DEF Store!Mutate, Mutate, Store!Reply, Reply, Store!Damage, Damage, Store!Revive, Revive,
  Store!Pickup, Pickup, Store!Filled, Filled, Store!CategoryOf, CategoryOf, Store!Deposit, Deposit,
  Store!FillStacks, FillStacks, Store!Fill, Fill, Store!Put, Put, Store!Min, Min, Store!SlotIds,
  SlotIds, Store!Empty, Empty, Store!StackLimit, StackLimit, Store!ItemsOf, ItemsOf, Store!Validate,
  Validate, Store!WellFormed, WellFormed, Store!WornSlots, WornSlots, Store!EquipmentSlot,
  EquipmentSlot, Store!Places, Places, Store!At, At, Store!FitsBag, FitsBag, Store!FitsBody,
  FitsBody

LEMMA SameWithdraw ==
  ASSUME NEW s, NEW o PROVE Store!Withdraw(s, o) = Withdraw(s, o)
BY SameValidate, SameTakeAll DEF Store!Withdraw, Withdraw, Store!Reply, Reply

LEMMA SameDeliver ==
  ASSUME NEW s, NEW o PROVE Store!Deliver(s, o) = Deliver(s, o)
BY SameValidate, SameReceiveAll DEF Store!Deliver, Deliver, Store!Reply, Reply

LEMMA SameApplyTrade ==
  ASSUME NEW o, NEW s PROVE Store!ApplyTrade(o, s) = ApplyTrade(o, s)
BY SameWithdraw, SameDeliver DEF Store!ApplyTrade, ApplyTrade, Store!FirstFailure, FirstFailure

-----------------------------------------------------------------------------
(* The invariant: the rows of each character say a well-formed inventory of   *)
(* its own gear, or nothing at all.                                           *)

ReadOf(db, c) ==
  [revision |-> db.header[c].revision, mesos |-> db.header[c].mesos,
   hp |-> db.header[c].hp, mp |-> db.header[c].mp,
   entries |-> db.slots[c], equipped |-> db.equipment[c]]
SoundFor(db, c) ==
  /\ OwnRows(db.owner, db.slots, db.equipment, c)
  /\ db.header[c] = None => /\ \A k \in Categories, i \in SlotIds : db.slots[c][k][i] = Empty
                            /\ \A w \in WornSlots : db.equipment[c][w] = Empty
  /\ db.header[c] # None => WellFormed(ReadOf(db, c))
Sound(db) == db \in Databases /\ db.ok = TRUE /\ \A c \in Characters : SoundFor(db, c)
IInv == Sound(Tables) /\ refused = {}

LEMMA ReadGood ==
  ASSUME NEW db \in Databases, NEW c \in Characters, db.header[c] # None, SoundFor(db, c)
  PROVE  /\ ReadOf(db, c) \in Good /\ ReadOf(db, c) # None
         /\ ReadOf(db, c).entries = db.slots[c] /\ ReadOf(db, c).equipped = db.equipment[c]
         /\ HeaderOf(ReadOf(db, c)) = db.header[c]
<1> DEFINE h == db.header[c]
           s == ReadOf(db, c)
<1>1. h \in Headers /\ db.slots[c] \in [Categories -> [SlotIds -> Entry]]
      /\ db.equipment[c] \in [WornSlots -> Entry] BY DEF Databases, SlotTables, WornTables
<1>2. s = [revision |-> h.revision, mesos |-> h.mesos, hp |-> h.hp, mp |-> h.mp,
           entries |-> db.slots[c], equipped |-> db.equipment[c]] BY DEF ReadOf
<1> HIDE DEF h
<1>3. s \in Inventory BY <1>1, <1>2 DEF Headers, Inventory
<1>4. WellFormed(s) BY DEF SoundFor
<1>5. s.entries = db.slots[c] /\ s.equipped = db.equipment[c] /\ HeaderOf(s) = h
  BY <1>1, <1>2 DEF Headers, HeaderOf
<1> HIDE DEF s
<1>6. s \in Good /\ s # None BY <1>3, <1>4, RowsAssumption DEF Good
<1> QED BY <1>5, <1>6 DEF s, h

LEMMA SoundTidy ==
  ASSUME NEW db, Sound(db)
  PROVE  Tidy(db)
<1> SUFFICES ASSUME NEW d \in Characters
             PROVE  /\ OwnRows(db.owner, db.slots, db.equipment, d)
                    /\ \A i \in SlotIds, w \in WornSlots :
                         db.slots[d][0][i].instance = db.equipment[d][w].instance
                           => db.slots[d][0][i].instance = 0 BY DEF Tidy
<1>1. db \in Databases /\ SoundFor(db, d) BY DEF Sound
<1>2. ASSUME NEW i \in SlotIds, NEW w \in WornSlots,
             db.slots[d][0][i].instance = db.equipment[d][w].instance
      PROVE  db.slots[d][0][i].instance = 0
  <2>1. CASE db.header[d] = None BY <1>1, <2>1, EmptyFits, Numbers DEF SoundFor
  <2>2. CASE db.header[d] # None
    <3> DEFINE s == ReadOf(db, d)
               p == <<"bag", i>>
               q == <<"worn", w>>
    <3>1. s \in Good /\ s.entries = db.slots[d] /\ s.equipped = db.equipment[d]
      BY <1>1, <2>2, ReadGood
    <3> HIDE DEF s
    <3>2. p \in Places /\ q \in Places /\ p # q
          /\ At(s, p) = s.entries[0][i] /\ At(s, q) = s.equipped[w] BY PlacesAre
    <3> QED BY <1>2, <3>1, <3>2, GoodParts
  <2> QED BY <2>1, <2>2
<1> QED BY <1>1, <1>2 DEF SoundFor

\* Gear at its places and in its rows.
LEMMA RowsOwned ==
  ASSUME NEW db, NEW c, NEW s, s.entries = db.slots[c], s.equipped = db.equipment[c], NEW o
  PROVE  OwnRows(o, db.slots, db.equipment, c)
           <=> \A p \in Places : At(s, p).instance # 0 => Owns(o, c, At(s, p))
<1>1. \A i \in SlotIds : <<"bag", i>> \in Places /\ At(s, <<"bag", i>>) = db.slots[c][0][i]
  <2>1. \A i \in SlotIds : <<"bag", i>> \in Places /\ At(s, <<"bag", i>>) = s.entries[0][i]
    BY ONLY PlacesAre
  <2> QED BY <2>1
<1>2. \A w \in WornSlots : <<"worn", w>> \in Places /\ At(s, <<"worn", w>>) = db.equipment[c][w]
  <2>1. \A w \in WornSlots : <<"worn", w>> \in Places /\ At(s, <<"worn", w>>) = s.equipped[w]
    BY ONLY PlacesAre
  <2> QED BY <2>1
<1>3. ASSUME OwnRows(o, db.slots, db.equipment, c), NEW p \in Places, At(s, p).instance # 0
      PROVE  Owns(o, c, At(s, p)) BY <1>1, <1>3, <1>2, PlacesAre DEF OwnRows
<1>4. ASSUME \A p \in Places : At(s, p).instance # 0 => Owns(o, c, At(s, p))
      PROVE  OwnRows(o, db.slots, db.equipment, c) BY <1>1, <1>4, <1>2 DEF OwnRows
<1> QED BY <1>3, <1>4

\* One character's rows are written.
LEMMA WrittenSound ==
  ASSUME NEW db \in Databases, NEW c \in Characters, NEW s \in Good, NEW next,
         Written(db, next, c, s),
         \A p \in Places : At(s, p).instance # 0 => Owns(db.owner, c, At(s, p))
  PROVE  /\ SoundFor(next, c) /\ next.header[c] # None /\ ReadOf(next, c) = s
         /\ \A d \in Characters \ {c} :
              /\ next.header[d] = db.header[d] /\ ReadOf(next, d) = ReadOf(db, d)
              /\ SoundFor(db, d) => SoundFor(next, d)
<1>1. /\ next \in Databases /\ next.owner = db.owner
      /\ next.header[c] = HeaderOf(s) /\ next.slots[c] = s.entries /\ next.equipment[c] = s.equipped
      /\ \A d \in Characters \ {c} : /\ next.header[d] = db.header[d] /\ next.slots[d] = db.slots[d]
                                     /\ next.equipment[d] = db.equipment[d]
  BY DEF Written, Databases, SlotTables, WornTables
<1>2. HeaderOf(s) \in Headers /\ HeaderOf(s) # None
  BY RowsAssumption, GoodParts DEF HeaderOf, Headers, Inventory
<1>3. ReadOf(next, c) = s BY GoodParts, <1>1 DEF Inventory, HeaderOf, ReadOf
<1>4. ASSUME NEW d \in Characters \ {c}
      PROVE  /\ next.header[d] = db.header[d] /\ ReadOf(next, d) = ReadOf(db, d)
             /\ SoundFor(db, d) => SoundFor(next, d) BY <1>1 DEF ReadOf, OwnRows, SoundFor
<1> QED BY <1>1, <1>2, <1>3, RowsOwned, GoodParts, <1>4 DEF SoundFor

-----------------------------------------------------------------------------
(* A transaction about one character.                                         *)

LEMMA TablesAre ==
  /\ Tables.header = header /\ Tables.slots = slots /\ Tables.equipment = equipment
  /\ Tables.owner = owner /\ Tables.ok = TRUE
  /\ \A c \in Characters : Inventories[c] = IF header[c] = None THEN None ELSE ReadOf(Tables, c)
  /\ Inventories = [c \in Characters |-> Inventories[c]]
BY DEF Tables, Inventories, Read, ReadOf

LEMMA IssuedIs ==
  ASSUME NEW o \in Seq(Characters \X Nat), NEW c \in Characters
  PROVE  LET p == o \o <<<<c, 1>>, <<c, 2>>>> IN
         /\ p \in Seq(Characters \X Nat) /\ Len(o) + 1 \in Nat \ {0}
         /\ \A d, e : Owns(o, d, e) => Owns(p, d, e)
         /\ \A e : e.instance = Len(o) + 1 /\ e.item = 1 => Owns(p, c, e)
         /\ \A e : e.instance = Len(o) + 2 /\ e.item = 2 => Owns(p, c, e)
<1> DEFINE T == Characters \X Nat
           q == <<<<c, 1>>, <<c, 2>>>>
           p == o \o q
<1>1. q \in Seq(T) /\ Len(q) = 2 /\ q[1] = <<c, 1>> /\ q[2] = <<c, 2>> OBVIOUS
<1>2. o \in Seq(T) /\ Len(o) \in Nat /\ DOMAIN o = 1..Len(o) OBVIOUS
<1> HIDE DEF T, q
<1>3. /\ p \in Seq(T) /\ Len(p) = Len(o) + Len(q)
      /\ \A i \in 1..(Len(o) + Len(q)) : p[i] = IF i <= Len(o) THEN o[i] ELSE q[i - Len(o)]
  BY <1>1, <1>2, ConcatProperties
<1>4. DOMAIN p = 1..Len(p) BY <1>3
<1> HIDE DEF p
<1>5. /\ \A i \in DOMAIN o : i \in DOMAIN p /\ p[i] = o[i]
      /\ Len(o) + 1 \in DOMAIN p /\ p[Len(o) + 1] = <<c, 1>>
      /\ Len(o) + 2 \in DOMAIN p /\ p[Len(o) + 2] = <<c, 2>>
  <2>1. \A i \in DOMAIN o : i \in DOMAIN p /\ p[i] = o[i] BY <1>1, <1>2, <1>3, <1>4
  <2>2. Len(o) + 1 \in 1..(Len(o) + Len(q)) /\ Len(o) + 2 \in 1..(Len(o) + Len(q))
        /\ ~(Len(o) + 1 <= Len(o)) /\ ~(Len(o) + 2 <= Len(o))
        /\ (Len(o) + 1) - Len(o) = 1 /\ (Len(o) + 2) - Len(o) = 2 BY <1>1, <1>2
  <2>3. p[Len(o) + 1] = q[1] /\ p[Len(o) + 2] = q[2] BY <1>3, <2>2
  <2> QED BY <1>1, <1>3, <1>4, <2>1, <2>2, <2>3
<1>6. \A d, e : Owns(o, d, e) => Owns(p, d, e) BY <1>5 DEF Owns
<1>7. /\ \A e : e.instance = Len(o) + 1 /\ e.item = 1 => Owns(p, c, e)
      /\ \A e : e.instance = Len(o) + 2 /\ e.item = 2 => Owns(p, c, e) BY <1>5 DEF Owns
<1>8. Len(o) + 1 \in Nat \ {0} BY <1>2
<1> QED BY <1>3, <1>6, <1>7, <1>8 DEF T, p, q

Base(c) == [Tables EXCEPT !.owner = Store!Issued(c)]

LEMMA BaseRecord ==
  ASSUME NEW c
  PROVE  Base(c) = [header |-> header, slots |-> slots, equipment |-> equipment,
                    owner |-> Store!Issued(c), ok |-> TRUE]
<1>1. Tables = [header |-> header, slots |-> slots, equipment |-> equipment, owner |-> owner, ok |-> TRUE]
  BY DEF Tables
<1> DEFINE o == Store!Issued(c)
<1> HIDE DEF o
<1> SUFFICES [Tables EXCEPT !.owner = o]
        = [header |-> header, slots |-> slots, equipment |-> equipment, owner |-> o, ok |-> TRUE]
  BY DEF Base, o
<1>2. DOMAIN Tables = {"header", "slots", "equipment", "owner", "ok"} BY <1>1
<1> DEFINE u == [Tables EXCEPT !.owner = o]
<1>3. u = [n \in {"header", "slots", "equipment", "owner", "ok"} |->
             IF n = "owner" THEN o ELSE Tables[n]] BY <1>2
<1>4. /\ Tables["header"] = header /\ Tables["slots"] = slots /\ Tables["equipment"] = equipment
      /\ Tables["ok"] = TRUE BY <1>1
<1> HIDE DEF u
<1>5. u = [header |-> header, slots |-> slots, equipment |-> equipment, owner |-> o, ok |-> TRUE]
  BY <1>3, <1>4
<1> QED BY <1>5 DEF u

LEMMA BaseIs ==
  ASSUME IInv, NEW c \in Characters
  PROVE  LET s == Store!Current(c)
             db == Base(c)
         IN /\ db \in Databases /\ db.ok = TRUE /\ db.header = header /\ db.slots = slots
            /\ db.equipment = equipment /\ db.owner = Store!Issued(c)
            /\ s \in Good /\ s.equipped = equipment[c]
            /\ Store!IsNew(c) \in BOOLEAN /\ (Store!IsNew(c) <=> header[c] = None)
            /\ Store!IsNew(c) => \A k \in Categories, i \in SlotIds : slots[c][k][i] = Empty
            /\ ~Store!IsNew(c) => /\ s = ReadOf(Tables, c) /\ s.entries = slots[c]
                                  /\ HeaderOf(s) = header[c] /\ Store!Issued(c) = owner
            /\ \A d \in Characters : SoundFor(db, d)
            /\ \A p \in Places : At(s, p).instance # 0 => Owns(Store!Issued(c), c, At(s, p))
<1> DEFINE s == Store!Current(c)
           db == Base(c)
           o == Store!Issued(c)
           first == Len(owner) + 1
<1>1. /\ Tables \in Databases /\ \A d \in Characters : SoundFor(Tables, d)
      /\ owner \in Seq(Characters \X Nat)
      /\ equipment[c] \in [WornSlots -> Entry] BY TablesAre DEF IInv, Sound, Databases, WornTables
<1>2. Store!IsNew(c) <=> header[c] = None BY <1>1, ReadGood, TablesAre DEF Store!IsNew
<1>3. CASE header[c] = None
  <2>1. s = Starter(first) /\ o = owner \o <<<<c, 1>>, <<c, 2>>>>
    BY <1>2, <1>3, SameStarter DEF Store!Current, Store!Issued
  <2> HIDE DEF s, o
  <2>2. /\ o \in Seq(Characters \X Nat) /\ first \in Nat \ {0}
        /\ \A d, e : Owns(owner, d, e) => Owns(o, d, e)
        /\ \A e : e.instance = first /\ e.item = 1 => Owns(o, c, e)
        /\ \A e : e.instance = Len(owner) + 2 /\ e.item = 2 => Owns(o, c, e) BY <1>1, <2>1, IssuedIs
  <2>3. first + 1 = Len(owner) + 2 BY <1>1
  <2> HIDE DEF first
  <2>4. /\ s \in Good /\ s.equipped = [w \in WornSlots |-> Empty]
        /\ \A p \in Places : At(s, p).instance # 0 =>
             \/ At(s, p).instance = first /\ At(s, p).item = 1
             \/ At(s, p).instance = first + 1 /\ At(s, p).item = 2 BY <2>1, <2>2, StarterGood
  <2>5. \A p \in Places : At(s, p).instance # 0 => Owns(o, c, At(s, p)) BY <2>2, <2>3, <2>4
  <2>6. /\ \A k \in Categories, i \in SlotIds : slots[c][k][i] = Empty
        /\ \A w \in WornSlots : equipment[c][w] = Empty BY <1>1, <1>3, TablesAre DEF SoundFor
  <2>7. s.equipped = equipment[c] BY <1>1, <2>4, <2>6
  <2>8. /\ db \in Databases /\ db.ok = TRUE /\ db.header = header /\ db.slots = slots
        /\ db.equipment = equipment /\ db.owner = o
    <3>1. db = [header |-> header, slots |-> slots, equipment |-> equipment, owner |-> o, ok |-> TRUE]
      BY BaseRecord DEF o
    <3> HIDE DEF db
    <3> QED BY <1>1, <2>2, <3>1, TablesAre DEF Databases
  <2> HIDE DEF db
  <2>9. \A d \in Characters : SoundFor(db, d)
    <3> SUFFICES ASSUME NEW d \in Characters PROVE SoundFor(db, d) OBVIOUS
    <3>1. SoundFor(Tables, d) BY <1>1
    <3> QED BY <2>8, <3>1, <2>2, TablesAre DEF SoundFor, OwnRows, ReadOf
  <2> QED BY <1>2, <1>3, <2>4, <2>5, <2>6, <2>7, <2>8, <2>9 DEF s, o, db
<1>4. CASE header[c] # None
  <2>1. s = ReadOf(Tables, c) /\ o = owner
    BY <1>2, <1>4, TablesAre DEF Store!Current, Store!Issued, Store!IsNew
  <2>2. s \in Good /\ s.entries = slots[c] /\ s.equipped = equipment[c] /\ HeaderOf(s) = header[c]
    BY <1>1, <1>4, <2>1, ReadGood, TablesAre
  <2>3. db = Tables BY BaseRecord, <2>1 DEF o, Tables
  <2>4. \A p \in Places : At(s, p).instance # 0 => Owns(o, c, At(s, p))
    <3>1. OwnRows(owner, Tables.slots, Tables.equipment, c) BY <1>1, TablesAre DEF SoundFor
    <3> HIDE DEF s, o
    <3> QED BY <2>1, <2>2, <3>1, RowsOwned, TablesAre
  <2>5. Store!IsNew(c) \in BOOLEAN BY DEF Store!IsNew
  <2> HIDE DEF s, o, db
  <2>6. /\ db \in Databases /\ db.ok = TRUE /\ db.header = header /\ db.slots = slots
        /\ db.equipment = equipment /\ db.owner = o
        /\ \A d \in Characters : SoundFor(db, d) BY ONLY <1>1, <2>1, <2>3, TablesAre
  <2> QED BY ONLY <1>2, <1>4, <2>1, <2>2, <2>4, <2>5, <2>6 DEF s, o, db
<1> QED BY <1>3, <1>4

\* What a reply leaves in store.
Outcome(c, reply) == IF reply.result = "Success" THEN reply.state ELSE Store!Current(c)

LEMMA SaveIs ==
  ASSUME IInv, NEW c \in Characters, NEW reply,
         reply.result = "Success" => Follows(Store!Current(c), reply.state)
  PROVE  LET new == Outcome(c, reply) IN
         /\ Written(Base(c), Save(c, reply), c, new) /\ new \in Good
         /\ \A p \in Places : At(new, p).instance # 0 => Owns(Store!Issued(c), c, At(new, p))
<1> DEFINE old == Store!Current(c)
           new == Outcome(c, reply)
           db == Base(c)
           create == Store!IsNew(c)
<1>1. /\ db \in Databases /\ db.ok = TRUE /\ db.header = header /\ db.slots = slots
      /\ db.equipment = equipment /\ db.owner = Store!Issued(c)
      /\ old \in Good /\ old.equipped = equipment[c]
      /\ create \in BOOLEAN
      /\ create => \A k \in Categories, i \in SlotIds : slots[c][k][i] = Empty
      /\ ~create => old.entries = slots[c] /\ HeaderOf(old) = header[c]
      /\ \A d \in Characters : SoundFor(db, d)
      /\ \A p \in Places : At(old, p).instance # 0 => Owns(db.owner, c, At(old, p)) BY BaseIs
<1>2. Save(c, reply) = IF create \/ (reply.result = "Success" /\ new.revision # old.revision)
                       THEN Write(db, c, old, new, create) ELSE db BY DEF Save, Outcome, Base
<1>3. Follows(old, new) BY <1>1, FollowsSame DEF Outcome
<1>4. reply.result # "Success" => new = old BY DEF Outcome
<1> HIDE DEF old, new, db, create
<1>5. new \in Good /\ GearFrom(old, new) /\ (new.revision = old.revision => new = old)
  BY <1>3 DEF Follows
<1>6. \A p \in Places : At(new, p).instance # 0 => Owns(db.owner, c, At(new, p))
  <2> SUFFICES ASSUME NEW p \in Places, At(new, p).instance # 0 PROVE Owns(db.owner, c, At(new, p))
    OBVIOUS
  <2>1. PICK q \in Places : At(old, q) = At(new, p) BY <1>5 DEF GearFrom
  <2>2. At(old, q).instance # 0 BY <2>1
  <2>3. Owns(db.owner, c, At(old, q)) BY <1>1, <2>2
  <2> QED BY <2>1, <2>3
<1>7. Ready(db, c, old, new, create) BY <1>1, <1>5, <1>6 DEF SoundFor, Ready
<1>8. CASE create \/ (reply.result = "Success" /\ new.revision # old.revision)
  BY <1>1, <1>2, <1>7, <1>8, WriteIs, <1>5, <1>6 DEF new, db
<1>9. CASE ~(create \/ (reply.result = "Success" /\ new.revision # old.revision))
  BY <1>2, <1>4, <1>5, <1>9, <1>1, <1>6 DEF Databases, SlotTables, WornTables, Written, new, db
<1> QED BY <1>8, <1>9

\* Commit: the tables are those that the transaction has made.
LEMMA FinishIs ==
  ASSUME NEW next, next \in Databases, next.ok = TRUE, NEW who, Finish(next, who)
  PROVE  /\ Tables' = next /\ owner' = next.owner /\ refused' = refused
         /\ \A c \in Characters : Inventories'[c] = IF next.header[c] = None THEN None ELSE ReadOf(next, c)
         /\ Inventories' = [c \in Characters |-> Inventories'[c]]
BY DEF Finish, Tables, Databases, Inventories, Read, ReadOf

LEMMA SoundNext ==
  ASSUME IInv, NEW next, Sound(next), Tables' = next, refused' = refused
  PROVE  IInv'
BY DEF IInv

\* A transaction about one character does what the store says, and is never refused.
LEMMA CommitIs ==
  ASSUME IInv, NEW c \in Characters, NEW reply, NEW who, Finish(Save(c, reply), who),
         reply.result = "Success" => Follows(Store!Current(c), reply.state)
  PROVE  /\ IInv' /\ Save(c, reply).ok = TRUE
         /\ Inventories' = [Inventories EXCEPT ![c] = Outcome(c, reply)]
         /\ owner' = Store!Issued(c)
<1> DEFINE new == Outcome(c, reply)
           db == Base(c)
           next == Save(c, reply)
<1>1. /\ db \in Databases /\ db.header = header /\ db.slots = slots /\ db.equipment = equipment
      /\ db.owner = Store!Issued(c) /\ \A d \in Characters : SoundFor(db, d) BY BaseIs
<1>2. /\ Written(db, next, c, new) /\ new \in Good
      /\ \A p \in Places : At(new, p).instance # 0 => Owns(db.owner, c, At(new, p)) BY <1>1, SaveIs
<1>3. Finish(next, who) OBVIOUS
<1> HIDE DEF new, next
<1>4. next \in Databases /\ next.ok = TRUE /\ next.owner = db.owner BY <1>2 DEF Written
<1>5. /\ Tables' = next /\ owner' = next.owner /\ refused' = refused
      /\ \A d \in Characters : Inventories'[d] = IF next.header[d] = None THEN None ELSE ReadOf(next, d)
      /\ Inventories' = [d \in Characters |-> Inventories'[d]] BY <1>3, <1>4, FinishIs
<1>6. /\ SoundFor(next, c) /\ next.header[c] # None /\ ReadOf(next, c) = new
      /\ \A d \in Characters \ {c} :
           /\ next.header[d] = db.header[d] /\ ReadOf(next, d) = ReadOf(db, d)
           /\ SoundFor(db, d) => SoundFor(next, d)
  <2> HIDE DEF db
  <2> QED BY <1>1, <1>2, WrittenSound
<1>7. Sound(next) BY <1>1, <1>4, <1>6 DEF Sound
<1>8. IInv' BY <1>5, <1>7, SoundNext
<1>9. Inventories'[c] = new BY <1>5, <1>6
<1>10. ASSUME NEW d \in Characters \ {c} PROVE Inventories'[d] = Inventories[d]
  <2>1. Inventories[d] = IF header[d] = None THEN None ELSE ReadOf(Tables, d) BY TablesAre
  <2>2. ReadOf(db, d) = ReadOf(Tables, d) BY <1>1, TablesAre DEF ReadOf
  <2> QED BY <1>1, <1>5, <1>6, <2>1, <2>2
<1>11. Inventories' = [Inventories EXCEPT ![c] = new]
  <2> DEFINE f == Inventories
             g == Inventories'
  <2>1. f = [d \in Characters |-> f[d]] /\ g = [d \in Characters |-> g[d]] BY <1>5, TablesAre
  <2>2. g[c] = new /\ \A d \in Characters \ {c} : g[d] = f[d] BY <1>9, <1>10
  <2> HIDE DEF f, g
  <2>3. g = [f EXCEPT ![c] = new] BY <2>1, <2>2
  <2> QED BY <2>3 DEF f, g
<1> QED BY <1>1, <1>4, <1>5, <1>8, <1>11 DEF new, next

\* The store keeps the same.
LEMMA StoreSaves ==
  ASSUME NEW c, NEW reply, Inventories' = [Inventories EXCEPT ![c] = Outcome(c, reply)],
         owner' = Store!Issued(c)
  PROVE  Store!Save(c, reply)
BY DEF Store!Save, Outcome

LEMMA CurrentIs ==
  ASSUME IInv, NEW c \in Characters
  PROVE  /\ Store!Current(c) \in Good /\ Store!Current(c) \in Inventory
         /\ Store!Current(c).revision \in Int
<1>1. Store!Current(c) \in Good BY BaseIs
<1> DEFINE s == Store!Current(c)
<1> HIDE DEF s
<1> QED BY <1>1, GoodParts DEF s

LEMMA RequestStep ==
  ASSUME IInv, NEW c \in Characters, NEW r \in Requests, Request(c, r)
  PROVE  IInv' /\ Store!Request(c, r)
<1> DEFINE s == Store!Current(c)
           reply == Apply(s, r)
<1>1. s \in Good /\ s \in Inventory BY CurrentIs
<1>2. reply.result = "Success" => Follows(s, reply.state) BY <1>1, ApplyFollows DEF Apply, Reply
<1>3. /\ Store!Readable(c) /\ Finish(Save(c, reply), c)
      /\ eaten' = IF r.operation # "Use" \/ reply.result # "Success" \/ ~Save(c, reply).ok THEN eaten
                  ELSE [eaten EXCEPT ![s.entries[1][r.source].item] = @ + 1]
      /\ UNCHANGED <<claims, recorded, receipts>> BY DEF Request
<1> HIDE DEF reply
<1>4. /\ IInv' /\ Save(c, reply).ok = TRUE
      /\ Inventories' = [Inventories EXCEPT ![c] = Outcome(c, reply)] /\ owner' = Store!Issued(c)
  BY <1>2, <1>3, CommitIs
<1>5. Store!Save(c, reply) BY <1>4, StoreSaves
<1>6. Store!Apply(s, r) = reply BY SameApply DEF reply
<1> QED BY <1>3, <1>4, <1>5, <1>6 DEF Store!Request, Store!records

LEMMA HitStep ==
  ASSUME IInv, NEW c \in Characters, NEW h \in DOMAIN Hits, Hit(c, h)
  PROVE  IInv' /\ Store!Hit(c, h)
<1> DEFINE s == Store!Current(c)
           m == [kind |-> "damage", damage |-> Hits[h]]
           reply == IF recorded[h] = c THEN Reply("Success", s) ELSE Mutate(s, m)
<1>1. s \in Good /\ s \in Inventory BY CurrentIs
<1>2. reply.result = "Success" => Follows(s, reply.state)
  BY <1>1, FollowsSame, RowsAssumption, MutateFollows DEF Reply, Mutations
<1>3. /\ Store!Readable(c) /\ recorded[h] \in {None, c} /\ Finish(Save(c, reply), c)
      /\ recorded' = IF Save(c, reply).ok THEN [recorded EXCEPT ![h] = c] ELSE recorded
      /\ UNCHANGED <<claims, receipts, eaten>> BY DEF Hit
<1>4. (IF recorded[h] = c THEN Store!Reply("Success", s) ELSE Store!Mutate(s, m)) = reply
  BY SameMutate DEF Store!Reply, Reply
<1> HIDE DEF reply
<1>5. /\ IInv' /\ Save(c, reply).ok = TRUE
      /\ Inventories' = [Inventories EXCEPT ![c] = Outcome(c, reply)] /\ owner' = Store!Issued(c)
  BY <1>2, <1>3, CommitIs
<1>6. Store!Save(c, reply) BY <1>5, StoreSaves
<1> QED BY <1>3, <1>4, <1>5, <1>6 DEF Store!Hit

LEMMA RevivalStep ==
  ASSUME IInv, NEW c \in Characters, Revival(c)
  PROVE  IInv' /\ Store!Revival(c)
<1> DEFINE s == Store!Current(c)
           m == [kind |-> "revive"]
           reply == Mutate(s, m)
<1>1. s \in Good /\ s \in Inventory BY CurrentIs
<1>2. m \in Mutations BY DEF Mutations
<1>3. reply.result = "Success" => Follows(s, reply.state) BY <1>1, <1>2, MutateFollows
<1>4. /\ Store!Readable(c) /\ Finish(Save(c, reply), c)
      /\ UNCHANGED <<claims, recorded, receipts, eaten>> BY DEF Revival
<1>5. Store!Mutate(s, m) = reply BY SameMutate
<1> HIDE DEF reply
<1>6. /\ IInv'
      /\ Inventories' = [Inventories EXCEPT ![c] = Outcome(c, reply)] /\ owner' = Store!Issued(c)
  BY <1>3, <1>4, CommitIs
<1>7. Store!Save(c, reply) BY <1>6, StoreSaves
<1> QED BY <1>4, <1>5, <1>6, <1>7 DEF Store!Revival, Store!records

LEMMA GrabStep ==
  ASSUME IInv, NEW c \in Characters, NEW d \in DOMAIN Drops, Grab(c, d)
  PROVE  IInv' /\ Store!Grab(c, d)
<1> DEFINE s == Store!Current(c)
           granted == Store!Granted(c, d)
           first == granted.result = "Success" /\ claims[d] = None
           reply == IF first THEN granted ELSE Reply("AlreadyTaken", s)
           m == [kind |-> "pickup", item |-> Drops[d].item, quantity |-> Drops[d].quantity]
<1>1. s \in Good /\ s \in Inventory BY CurrentIs
<1>2. granted = Mutate(s, m) BY SameMutate DEF Store!Granted
<1>3. m \in Mutations BY RowsAssumption DEF Mutations
<1>4. reply.result = "Success" => Follows(s, reply.state)
  BY <1>1, <1>2, <1>3, MutateFollows DEF Reply
<1>5. /\ Store!Readable(c) /\ Finish(Save(c, reply), c)
      /\ claims' = IF first /\ Save(c, reply).ok THEN [claims EXCEPT ![d] = c] ELSE claims
      /\ UNCHANGED <<recorded, receipts, eaten>> BY DEF Grab
<1>6. (IF first THEN granted ELSE Store!Reply("AlreadyTaken", s)) = reply BY DEF Store!Reply, Reply
<1> HIDE DEF reply
<1>7. /\ IInv' /\ Save(c, reply).ok = TRUE
      /\ Inventories' = [Inventories EXCEPT ![c] = Outcome(c, reply)] /\ owner' = Store!Issued(c)
  BY <1>4, <1>5, CommitIs
<1>8. Store!Save(c, reply) BY <1>7, StoreSaves
<1> QED BY <1>5, <1>6, <1>7, <1>8 DEF Store!Grab

LEMMA RequestsIn ==
  ASSUME IInv, NEW c \in Characters
  PROVE  Refresh \in Requests /\ Store!RequestsOf(c) \subseteq Requests
<1> DEFINE now == Store!Current(c).revision
<1>1. now \in Int BY CurrentIs
<1>2. Categories \subseteq Int /\ SlotIds \subseteq Int /\ 0 \in Int /\ 1 \in Int /\ Slots \in Int
      /\ now - 1 \in Int BY <1>1, RulesAssumption DEF SlotIds
<1>3. Store!SlotIds = SlotIds BY DEF Store!SlotIds, SlotIds
<1>4. \A r \in Store!RequestsOf(c) : \E op \in Operations, k, i, j, n \in Int :
        r = [operation |-> op, category |-> k, source |-> i, target |-> j, revision |-> n]
  <2> SUFFICES ASSUME NEW r \in Store!RequestsOf(c)
               PROVE  \E op \in Operations, k, i, j, n \in Int :
        r = [operation |-> op, category |-> k, source |-> i, target |-> j, revision |-> n] OBVIOUS
  <2> DEFINE Asked(op, k, i, j, n) ==
        [operation |-> op, category |-> k, source |-> i, target |-> j, revision |-> n]
  <2>1. \A op, k, i, j, n : Store!Ask(op, k, i, j, n) = Asked(op, k, i, j, n) BY DEF Store!Ask
  <2> HIDE DEF now
  <2>2. \/ \E op \in {"Equip", "Use"}, k \in Categories, i \in SlotIds : r = Asked(op, k, i, 0, now)
        \/ \E op \in {"Unequip", "Move"}, k \in Categories, i \in SlotIds, j \in SlotIds :
             r = Asked(op, k, i, j, now)
        \/ \E k \in Categories : r = Asked("Sort", k, 0, 0, now)
        \/ r = Asked("Use", 1, 0, 0, now - 1) \/ r = Asked("Use", 1, Slots, 0, now)
    <3> HIDE DEF Asked
    <3> QED BY <2>1, <1>3 DEF Store!RequestsOf, now
  <2>3. {"Equip", "Unequip", "Move", "Sort", "Use"} = Operations BY DEF Operations
  <2>4. \E op \in Operations, k, i, j, n \in Int : r = Asked(op, k, i, j, n)
    <3> HIDE DEF Asked
    <3>1. CASE \E op \in {"Equip", "Use"}, k \in Categories, i \in SlotIds : r = Asked(op, k, i, 0, now)
      BY <1>1, <1>2, <2>3, <3>1
    <3>2. CASE \E op \in {"Unequip", "Move"}, k \in Categories, i \in SlotIds, j \in SlotIds :
             r = Asked(op, k, i, j, now) BY <1>1, <1>2, <2>3, <3>2
    <3>3. CASE \E k \in Categories : r = Asked("Sort", k, 0, 0, now) BY <1>1, <1>2, <2>3, <3>3
    <3>4. CASE r = Asked("Use", 1, 0, 0, now - 1) \/ r = Asked("Use", 1, Slots, 0, now)
      BY <1>1, <1>2, <2>3, <3>4
    <3> QED BY <2>2, <3>1, <3>2, <3>3, <3>4
  <2> QED BY <2>4
<1> QED BY <1>4 DEF Requests

-----------------------------------------------------------------------------
(* A trade: both sides' gear is released, and both inventories are written.   *)

LEMMA PiecesIn ==
  ASSUME NEW s \in Good
  PROVE  Store!Pieces(s) \subseteq Offerable
<1> SUFFICES ASSUME NEW o \in Store!Pieces(s) PROVE o \in Offerable OBVIOUS
<1>1. Store!SlotIds = SlotIds BY DEF Store!SlotIds, SlotIds
<1>2. PICK p \in Categories \X SlotIds :
        \E q \in {1, s.entries[p[1]][p[2]].quantity} : o = Store!Offering(s, p[1], p[2], q)
  BY <1>1 DEF Store!Pieces
<1>3. p[1] \in Categories /\ p[2] \in SlotIds /\ s.entries[p[1]][p[2]] \in Entry BY GoodParts
<1>4. PICK q \in {1, s.entries[p[1]][p[2]].quantity} : o = Store!Offering(s, p[1], p[2], q) BY <1>2
<1> QED BY <1>3, <1>4 DEF Offerable, Entry, Store!Offering

LEMMA OffersIn ==
  ASSUME NEW c, Inventories[c] \in Good, NEW x \in Store!OffersOf(c)
  PROVE  x \in Offers
<1> DEFINE s == Inventories[c]
           P == Store!Pieces(s)
<1>1. P \subseteq Offerable BY PiecesIn
<1>2. s.revision \in Nat /\ s.mesos \in Nat BY GoodParts
<1> HIDE DEF P
<1>3. x \in [revision : {s.revision}, mesos : {0, s.mesos},
             items : UNION {[1..n -> P] : n \in 0..MaxItems}] BY DEF Store!OffersOf, P
<1> HIDE DEF s
<1>4. PICK n \in 0..MaxItems : x.items \in [1..n -> P] BY <1>3
<1>5. x.items \in Seq(Offerable) BY <1>1, <1>4, Numbers, IsASeq
<1> QED BY <1>5, <1>2, <1>3 DEF Offers

\* Offered gear lies in the bag of its owner, each piece once.
Givable(db, c, s, items) ==
  /\ s \in Good /\ s.entries = db.slots[c] /\ OwnRows(db.owner, db.slots, db.equipment, c)
  /\ items \in Seq(Offerable) /\ \A j \in 1..Len(items) : Fair(s, items[j])
  /\ \A j, l \in 1..Len(items) : Place(items[j]) = Place(items[l]) => j = l

LEMMA GivenReleasable ==
  ASSUME NEW db, NEW c, NEW s, NEW items, Givable(db, c, s, items)
  PROVE  /\ \A j \in 1..Len(items) : Releasable(db, c, items[j])
         /\ \A j, l \in 1..Len(items) :
              items[j].instance = items[l].instance => j = l \/ items[j].instance = 0
<1> s \in Good /\ s.entries = db.slots[c] /\ OwnRows(db.owner, db.slots, db.equipment, c)
    /\ items \in Seq(Offerable) /\ (\A j \in 1..Len(items) : Fair(s, items[j]))
    /\ \A j, l \in 1..Len(items) : Place(items[j]) = Place(items[l]) => j = l BY DEF Givable
<1>1. \A j \in 1..Len(items) : items[j] \in Offerable OBVIOUS
<1>2. ASSUME NEW j \in 1..Len(items), items[j].instance # 0
      PROVE  /\ items[j].category = 0 /\ items[j].slot \in SlotIds
             /\ s.entries[0][items[j].slot].item = items[j].item
             /\ s.entries[0][items[j].slot].instance = items[j].instance
             /\ Place(items[j]) = <<0, items[j].slot>> BY <1>1, <1>2 DEF Offerable, Fair, Place
<1>3. ASSUME NEW j \in 1..Len(items), items[j].instance # 0
      PROVE  Releasable(db, c, items[j]) BY <1>2, <1>3 DEF OwnRows, Owns, Releasable
<1>4. ASSUME NEW j \in 1..Len(items), NEW l \in 1..Len(items),
             items[j].instance = items[l].instance, items[j].instance # 0
      PROVE  j = l
  <2> DEFINE p == <<"bag", items[j].slot>>
             q == <<"bag", items[l].slot>>
  <2>1. /\ p \in Places /\ At(s, p) = s.entries[0][items[j].slot]
        /\ q \in Places /\ At(s, q) = s.entries[0][items[l].slot] BY <1>2, <1>4, PlacesAre
  <2>2. At(s, p).instance = items[j].instance /\ At(s, q).instance = items[j].instance
    BY <1>2, <1>4, <2>1
  <2> HIDE DEF p, q
  <2>3. p = q BY <1>4, <2>1, <2>2, GoodParts
  <2>4. items[j].slot = items[l].slot BY <2>3 DEF p, q
  <2> QED BY <1>2, <1>4, <2>4
<1> QED BY <1>3, <1>4 DEF Releasable

\* What is released was the one character's, in its bag.
Held(db, c, gear) ==
  \A n \in gear : /\ n \in DOMAIN db.owner /\ db.owner[n][1] = c /\ n # 0
                  /\ \E i \in SlotIds : db.slots[c][0][i].instance = n

LEMMA GearHeld ==
  ASSUME NEW db, NEW c, NEW items, \A j \in 1..Len(items) : Releasable(db, c, items[j])
  PROVE  Held(db, c, GearTo(items, Len(items)))
<1> SUFFICES ASSUME NEW j \in 1..Len(items), items[j].instance # 0
             PROVE  /\ items[j].instance \in DOMAIN db.owner /\ db.owner[items[j].instance][1] = c
                    /\ \E i \in SlotIds : db.slots[c][0][i].instance = items[j].instance
  BY DEF Held, GearTo
<1> QED BY DEF Releasable, Owns

LEMMA FreedTidy ==
  ASSUME NEW db0 \in Databases, Tidy(db0), NEW from \in Characters, NEW to, NEW gear,
         Held(db0, from, gear), NEW db, Freed(db0, db, from, to, gear)
  PROVE  Tidy(db)
<1>1. \A i \in SlotIds, d \in Characters :
        db.slots[d][0][i] = IF d = from /\ db0.slots[d][0][i].instance \in gear THEN Empty
                            ELSE db0.slots[d][0][i] BY DEF Freed
<1>2. db.equipment = db0.equipment BY DEF Freed
<1>3. ASSUME NEW d \in Characters, NEW e, Owns(db0.owner, d, e), e.instance \notin gear
      PROVE  Owns(db.owner, d, e) BY <1>3 DEF Owns, Freed
<1>4. ASSUME NEW d \in Characters, NEW e, Owns(db0.owner, d, e), e.instance \in gear
      PROVE  d = from BY <1>4 DEF Owns, Held
<1>5. ASSUME NEW d \in Characters, NEW i \in SlotIds, db.slots[d][0][i].instance # 0
      PROVE  Owns(db.owner, d, db.slots[d][0][i]) BY <1>1, <1>5, <1>3, <1>4 DEF Empty, Tidy, OwnRows
<1>6. ASSUME NEW d \in Characters, NEW w \in WornSlots, db.equipment[d][w].instance # 0
      PROVE  Owns(db.owner, d, db.equipment[d][w])
  <2>1. Owns(db0.owner, d, db0.equipment[d][w]) BY <1>2, <1>6 DEF Tidy, OwnRows
  <2>2. CASE db0.equipment[d][w].instance \notin gear BY <1>2, <1>3, <2>1, <2>2
  <2>3. CASE db0.equipment[d][w].instance \in gear
    <3>1. d = from BY <1>4, <2>1, <2>3
    <3>2. PICK i \in SlotIds : db0.slots[d][0][i].instance = db0.equipment[d][w].instance
      BY <2>3, <3>1 DEF Held
    <3>3. db0.slots[d][0][i].instance = 0 BY <3>2 DEF Tidy
    <3> QED BY <1>2, <1>6, <3>2, <3>3
  <2> QED BY <2>2, <2>3
<1>7. ASSUME NEW d \in Characters, NEW i \in SlotIds, NEW w \in WornSlots,
             db.slots[d][0][i].instance = db.equipment[d][w].instance
      PROVE  db.slots[d][0][i].instance = 0 BY <1>2, <1>7, <1>1 DEF Empty, Tidy
<1> QED BY <1>5, <1>6, <1>7 DEF Tidy, OwnRows

\* The owners after a trade, as one side sees them.
Regiven(before, after, c, lost, won) ==
  /\ \A n \in DOMAIN before : before[n][1] = c /\ n \notin lost => n \in DOMAIN after /\ after[n] = before[n]
  /\ \A n \in won : n \in DOMAIN after /\ after[n] = <<c, before[n][2]>>
  /\ \A n \in lost : after[n][1] # c

\* One side of a trade: its inventory before and after, and whose the gear is.
Trading(s, given, got, t, before, after, c) ==
  /\ s \in Good /\ given \in Seq(Offerable) /\ got \in Seq(Offerable) /\ Traded(s, given, got, t)
  /\ Regiven(before, after, c, GearTo(given, Len(given)), GearTo(got, Len(got)))
  /\ \A p \in Places : At(s, p).instance # 0 => Owns(before, c, At(s, p))
  /\ \A j \in 1..Len(got) : got[j].instance # 0 => \E d : Owns(before, d, got[j])

LEMMA SideOwns ==
  ASSUME NEW s, NEW given, NEW got, NEW t, NEW before, NEW after, NEW c,
         Trading(s, given, got, t, before, after, c)
  PROVE  /\ \A p \in Places : At(t, p).instance # 0 => Owns(after, c, At(t, p))
         /\ \A i \in SlotIds : s.entries[0][i].instance \in GearTo(given, Len(given))
                                 => t.entries[0][i] # s.entries[0][i]
<1> DEFINE lost == GearTo(given, Len(given))
           won == GearTo(got, Len(got))
<1> /\ s \in Good /\ given \in Seq(Offerable) /\ got \in Seq(Offerable) /\ Traded(s, given, got, t)
    /\ Regiven(before, after, c, GearTo(given, Len(given)), GearTo(got, Len(got)))
    /\ (\A p \in Places : At(s, p).instance # 0 => Owns(before, c, At(s, p)))
    /\ \A j \in 1..Len(got) : got[j].instance # 0 => \E d : Owns(before, d, got[j]) BY DEF Trading
<1>1. ASSUME NEW e, Owns(before, c, e), e.instance \notin lost
      PROVE  Owns(after, c, e)
  <2> HIDE DEF lost, won
  <2> QED BY <1>1 DEF Owns, Regiven, lost, won
<1>2. ASSUME NEW p \in Places, At(s, p).instance \in lost
      PROVE  \E j \in 1..Len(given), i \in SlotIds :
               p = <<"bag", i>> /\ Place(given[j]) = <<0, i>>
  <2>1. PICK j \in 1..Len(given) : given[j].instance = At(s, p).instance /\ given[j].instance # 0
    BY <1>2 DEF GearTo
  <2>2. given[j] \in Offerable /\ Fair(s, given[j]) BY DEF Traded
  <2>3. /\ given[j].category = 0 /\ given[j].slot \in SlotIds
        /\ s.entries[0][given[j].slot].instance = given[j].instance
        /\ Place(given[j]) = <<0, given[j].slot>> BY <2>1, <2>2 DEF Offerable, Fair, Place
  <2> DEFINE q == <<"bag", given[j].slot>>
  <2>4. q \in Places /\ At(s, q) = s.entries[0][given[j].slot] BY <2>3, PlacesAre
  <2> HIDE DEF q
  <2>5. p = q BY <2>1, <2>3, <2>4, GoodParts
  <2> QED BY <2>3, <2>5 DEF q
<1>3. ASSUME NEW w \in WornSlots, At(t, <<"worn", w>>).instance # 0
      PROVE  Owns(after, c, At(t, <<"worn", w>>))
  <2> DEFINE p == <<"worn", w>>
  <2>1. p \in Places /\ At(t, p) = At(s, p) /\ \A i : p # <<"bag", i>> BY PlacesAre DEF Traded
  <2> HIDE DEF p
  <2>2. At(s, p).instance \notin lost BY <1>2, <2>1
  <2>3. Owns(before, c, At(s, p)) BY <1>3, <2>1 DEF p
  <2>4. Owns(after, c, At(s, p)) BY <1>1, <2>2, <2>3
  <2> QED BY <2>1, <2>4 DEF p
<1>4. ASSUME NEW i \in SlotIds, t.entries[0][i].instance # 0
      PROVE  Owns(after, c, t.entries[0][i])
  <2> DEFINE p == <<"bag", i>>
             e == t.entries[0][i]
  <2>1. p \in Places /\ At(s, p) = s.entries[0][i] BY PlacesAre
  <2>2. CASE e = s.entries[0][i] /\ \A j \in 1..Len(given) : Place(given[j]) # <<0, i>>
    <3>1. At(s, p).instance \notin lost
      <4>1. \A l \in SlotIds : p = <<"bag", l>> => l = i OBVIOUS
      <4> HIDE DEF p
      <4> QED BY <1>2, <2>1, <2>2, <4>1
    <3> HIDE DEF p
    <3>2. Owns(before, c, At(s, p)) BY <1>4, <2>1, <2>2
    <3> QED BY <1>1, <2>1, <2>2, <3>1, <3>2
  <2>3. CASE \E j \in 1..Len(got) : e.item = got[j].item /\ e.instance = got[j].instance
    <3>1. PICK j \in 1..Len(got) : e.item = got[j].item /\ e.instance = got[j].instance BY <2>3
    <3>2. got[j].instance # 0 /\ got[j].instance \in won BY <1>4, <3>1 DEF GearTo
    <3>3. PICK d : Owns(before, d, got[j]) BY <3>2
    <3>4. before[got[j].instance][2] = got[j].item BY <3>3 DEF Owns
    <3> HIDE DEF won, lost
    <3> QED BY <3>1, <3>4, <3>2 DEF Owns, Regiven, won
  <2>4. e # Empty BY <1>4 DEF Empty
  <2> QED BY <2>2, <2>3, <2>4 DEF Traded
<1>5. \A p \in Places : At(t, p).instance # 0 => Owns(after, c, At(t, p))
  <2> SUFFICES ASSUME NEW p \in Places, At(t, p).instance # 0 PROVE Owns(after, c, At(t, p)) OBVIOUS
  <2>1. CASE \E i \in SlotIds : p = <<"bag", i>> BY <1>4, <2>1, PlacesAre
  <2>2. CASE \E w \in WornSlots : p = <<"worn", w>> BY <1>3, <2>2
  <2> QED BY <2>1, <2>2, PlacesAre
<1>6. ASSUME NEW i \in SlotIds, s.entries[0][i].instance \in lost
      PROVE  t.entries[0][i] # s.entries[0][i]
  <2>1. s.entries[0][i].instance # 0 BY <1>6 DEF GearTo
  <2>2. ~Owns(after, c, s.entries[0][i])
    <3> HIDE DEF lost, won
    <3> QED BY <1>6 DEF Owns, Regiven, lost, won
  <2> QED BY <1>4, <2>1, <2>2
<1> QED BY <1>5, <1>6

\* The tables after an exchange of these items.
Released(db, a, b, x, y) == ReleaseAll(ReleaseAll(db, x, a, b), y, b, a)
Swept(db, a, b, x, y, s, t, u, v) ==
  Write(Write(Released(db, a, b, x, y), a, s, u, FALSE), b, t, v, FALSE)

\* All the released gear has changed owners, and nothing else.
Regive(owner0, a, b, x, y) ==
  [n \in DOMAIN owner0 |->
     IF n \in GearTo(x, Len(x)) THEN <<b, owner0[n][2]>>
     ELSE IF n \in GearTo(y, Len(y)) THEN <<a, owner0[n][2]>> ELSE owner0[n]]

Surrendered(db, next, a, b, x, y, G, H) ==
  /\ next \in Databases /\ next.ok = TRUE /\ Tidy(next)
  /\ next.header = db.header /\ next.equipment = db.equipment
  /\ next.owner = Regive(db.owner, a, b, x, y)
  /\ Regiven(db.owner, next.owner, a, G, H) /\ Regiven(db.owner, next.owner, b, H, G)
  /\ \A d \in Characters \ {a, b} : next.slots[d] = db.slots[d]
  /\ \A k \in Categories, i \in SlotIds : next.slots[a][k][i] =
       IF k = 0 /\ db.slots[a][0][i].instance \in G THEN Empty ELSE db.slots[a][k][i]
  /\ \A k \in Categories, i \in SlotIds : next.slots[b][k][i] =
       IF k = 0 /\ db.slots[b][0][i].instance \in H THEN Empty ELSE db.slots[b][k][i]
  /\ \A j \in 1..Len(x) : x[j].instance # 0 => \E d : Owns(db.owner, d, x[j])
  /\ \A j \in 1..Len(y) : y[j].instance # 0 => \E d : Owns(db.owner, d, y[j])

LEMMA ReleasedIs ==
  ASSUME NEW db, Sound(db), NEW a \in Characters, NEW b \in Characters, a # b,
         NEW s, NEW t, NEW x, NEW y, Givable(db, a, s, x), Givable(db, b, t, y)
  PROVE  Surrendered(db, Released(db, a, b, x, y), a, b, x, y, GearTo(x, Len(x)), GearTo(y, Len(y)))
<1> DEFINE G == GearTo(x, Len(x))
           H == GearTo(y, Len(y))
           first == ReleaseAll(db, x, a, b)
           next == ReleaseAll(first, y, b, a)
<1>1. db \in Databases /\ db.ok = TRUE /\ Tidy(db)
      /\ \A d \in Characters : OwnRows(db.owner, db.slots, db.equipment, d)
  BY SoundTidy DEF Sound, SoundFor
<1>2. /\ \A j \in 1..Len(x) : Releasable(db, a, x[j])
      /\ \A j, l \in 1..Len(x) : x[j].instance = x[l].instance => j = l \/ x[j].instance = 0
  BY GivenReleasable
<1>3. /\ \A j \in 1..Len(y) : Releasable(db, b, y[j])
      /\ \A j, l \in 1..Len(y) : y[j].instance = y[l].instance => j = l \/ y[j].instance = 0
  BY GivenReleasable
<1>4. Held(db, a, G) /\ Held(db, b, H) BY <1>2, <1>3, GearHeld
<1>5. x \in Seq(Offerable) /\ y \in Seq(Offerable) BY DEF Givable
<1>6. Freed(db, first, a, b, G) BY <1>5, <1>1, <1>2, ReleaseAllFreed
<1>7. \A j \in 1..Len(y) : y[j].instance # 0 => y[j].instance \in H BY DEF GearTo
<1> HIDE DEF G, H, first
<1>8. G \cap H = {} /\ 0 \notin G /\ 0 \notin H BY <1>4 DEF Held
<1>9. first \in Databases /\ first.ok = TRUE /\ Tidy(first)
  <2>1. db \in Databases /\ Tidy(db) /\ a \in Characters /\ Held(db, a, G) /\ Freed(db, first, a, b, G)
    BY <1>1, <1>4, <1>6
  <2>2. Tidy(first) BY ONLY <2>1, FreedTidy
  <2>3. first \in Databases /\ first.ok = TRUE BY ONLY <2>1 DEF Freed
  <2> QED BY <2>2, <2>3
<1>10. /\ DOMAIN first.owner = DOMAIN db.owner
       /\ \A n \in DOMAIN db.owner :
            first.owner[n] = IF n \in G THEN <<b, db.owner[n][2]>> ELSE db.owner[n]
       /\ first.slots[b] = db.slots[b] /\ first.header = db.header /\ first.equipment = db.equipment
       /\ \A d \in Characters \ {a} : first.slots[d] = db.slots[d] BY <1>6 DEF Freed
<1>11. ASSUME NEW j \in 1..Len(y) PROVE Releasable(first, b, y[j])
  <2>1. SUFFICES ASSUME y[j].instance # 0
                 PROVE  /\ Owns(first.owner, b, y[j])
                        /\ \E i \in SlotIds : first.slots[b][0][i].instance = y[j].instance
    BY DEF Releasable
  <2>2. y[j].instance \notin G BY <1>7, <1>8, <2>1
  <2> QED BY <1>10, <1>3, <2>1, <2>2 DEF Owns, Releasable
<1>12. Held(first, b, H) BY <1>11, GearHeld DEF H
<1>13. Freed(first, next, b, a, H) BY <1>5, <1>3, <1>9, <1>11, ReleaseAllFreed DEF H
<1>14. next = Released(db, a, b, x, y) BY DEF Released, first
<1> HIDE DEF next
<1>15. next \in Databases /\ next.ok = TRUE /\ Tidy(next)
  <2>1. first \in Databases /\ Tidy(first) /\ b \in Characters /\ Held(first, b, H)
        /\ Freed(first, next, b, a, H) BY <1>9, <1>12, <1>13
  <2>2. Tidy(next) BY ONLY <2>1, FreedTidy
  <2>3. next \in Databases /\ next.ok = TRUE BY ONLY <2>1 DEF Freed
  <2> QED BY <2>2, <2>3
<1>16. next.owner = [n \in DOMAIN db.owner |->
         IF n \in G THEN <<b, db.owner[n][2]>>
         ELSE IF n \in H THEN <<a, db.owner[n][2]>> ELSE db.owner[n]] BY <1>13, <1>8, <1>10 DEF Freed
<1>17. /\ DOMAIN next.owner = DOMAIN db.owner
       /\ \A n \in DOMAIN db.owner : next.owner[n] =
            IF n \in G THEN <<b, db.owner[n][2]>>
            ELSE IF n \in H THEN <<a, db.owner[n][2]>> ELSE db.owner[n] BY <1>16
<1>18. G \subseteq DOMAIN db.owner /\ H \subseteq DOMAIN db.owner
       /\ (\A n \in G : db.owner[n][1] = a) /\ (\A n \in H : db.owner[n][1] = b) BY <1>4 DEF Held
<1>19. Regiven(db.owner, next.owner, a, G, H)
  <2>1. ASSUME NEW n \in DOMAIN db.owner, db.owner[n][1] = a, n \notin G
        PROVE  n \in DOMAIN next.owner /\ next.owner[n] = db.owner[n] BY <1>18, <2>1, <1>17
  <2>2. ASSUME NEW n \in H
        PROVE  n \in DOMAIN next.owner /\ next.owner[n] = <<a, db.owner[n][2]>>
    BY <1>8, <1>17, <1>18
  <2>3. ASSUME NEW n \in G PROVE next.owner[n][1] # a
    <3>1. next.owner[n] = <<b, db.owner[n][2]>> BY <1>8, <1>17, <1>18
    <3>2. next.owner[n][1] = b BY <3>1
    <3> QED BY <3>2
  <2> QED BY <2>1, <2>2, <2>3 DEF Regiven
<1>20. Regiven(db.owner, next.owner, b, H, G)
  <2>1. ASSUME NEW n \in DOMAIN db.owner, db.owner[n][1] = b, n \notin H
        PROVE  n \in DOMAIN next.owner /\ next.owner[n] = db.owner[n] BY <1>18, <2>1, <1>17
  <2>2. ASSUME NEW n \in G
        PROVE  n \in DOMAIN next.owner /\ next.owner[n] = <<b, db.owner[n][2]>>
    BY <1>8, <1>17, <1>18
  <2>3. ASSUME NEW n \in H PROVE next.owner[n][1] # b
    <3>1. next.owner[n] = <<a, db.owner[n][2]>> BY <1>8, <1>17, <1>18
    <3>2. next.owner[n][1] = a BY <3>1
    <3> QED BY <3>2
  <2> QED BY <2>1, <2>2, <2>3 DEF Regiven
<1>21. next.header = db.header /\ next.equipment = db.equipment
       /\ \A d \in Characters \ {a, b} : next.slots[d] = db.slots[d] BY <1>10, <1>13 DEF Freed
<1>22. \A k \in Categories, i \in SlotIds : next.slots[a][k][i] =
         IF k = 0 /\ db.slots[a][0][i].instance \in G THEN Empty ELSE db.slots[a][k][i]
  BY <1>13, <1>6 DEF Freed
<1>23. \A k \in Categories, i \in SlotIds : next.slots[b][k][i] =
         IF k = 0 /\ db.slots[b][0][i].instance \in H THEN Empty ELSE db.slots[b][k][i]
  BY <1>13, <1>10 DEF Freed
<1>24. /\ \A j \in 1..Len(x) : x[j].instance # 0 => \E d : Owns(db.owner, d, x[j])
       /\ \A j \in 1..Len(y) : y[j].instance # 0 => \E d : Owns(db.owner, d, y[j])
  BY <1>2, <1>3 DEF Releasable
<1> QED
  BY <1>14, <1>15, <1>19, <1>20, <1>21, <1>22, <1>23, <1>24, <1>16 DEF G, H, Surrendered, Regive

\* What Write needs of one side, once the gear has been released.
LEMMA ReadySide ==
  ASSUME NEW db \in Databases, db.ok = TRUE, NEW c \in Characters, NEW s \in Good, NEW u \in Good,
         \A d \in Characters : OwnRows(db.owner, db.slots, db.equipment, d),
         \A p \in Places : At(u, p).instance # 0 => Owns(db.owner, c, At(u, p)),
         db.equipment[c] = s.equipped, NEW lost,
         \A k \in Categories, i \in SlotIds : db.slots[c][k][i] =
           IF k = 0 /\ s.entries[0][i].instance \in lost THEN Empty ELSE s.entries[k][i],
         \A i \in SlotIds : s.entries[0][i].instance \in lost => u.entries[0][i] # s.entries[0][i]
  PROVE  Ready(db, c, s, u, FALSE)
BY DEF Ready

LEMMA SweptIs ==
  ASSUME NEW db, Sound(db), NEW a \in Characters, NEW b \in Characters, a # b,
         db.header[a] # None, db.header[b] # None,
         NEW x \in Seq(Offerable), NEW y \in Seq(Offerable), NEW u, NEW v,
         Traded(ReadOf(db, a), x, y, u), Traded(ReadOf(db, b), y, x, v)
  PROVE  LET next == Swept(db, a, b, x, y, ReadOf(db, a), ReadOf(db, b), u, v) IN
         /\ Sound(next) /\ next.owner = Regive(db.owner, a, b, x, y)
         /\ next.header[a] # None /\ ReadOf(next, a) = u
         /\ next.header[b] # None /\ ReadOf(next, b) = v
         /\ \A d \in Characters \ {a, b} :
              next.header[d] = db.header[d] /\ ReadOf(next, d) = ReadOf(db, d)
<1> DEFINE G == GearTo(x, Len(x))
           H == GearTo(y, Len(y))
           s == ReadOf(db, a)
           t == ReadOf(db, b)
           freed == Released(db, a, b, x, y)
           one == Write(freed, a, s, u, FALSE)
           next == Write(one, b, t, v, FALSE)
<1>1. db \in Databases /\ \A d \in Characters : SoundFor(db, d) BY DEF Sound
<1>2. /\ s \in Good /\ s.entries = db.slots[a] /\ s.equipped = db.equipment[a]
      /\ t \in Good /\ t.entries = db.slots[b] /\ t.equipped = db.equipment[b] BY <1>1, ReadGood
<1> HIDE DEF s, t
<1>3. Traded(s, x, y, u) /\ Traded(t, y, x, v) BY DEF s, t
<1>4. /\ u \in Good /\ v \in Good
      /\ (\A j \in 1..Len(x) : Fair(s, x[j]))
      /\ (\A j, l \in 1..Len(x) : Place(x[j]) = Place(x[l]) => j = l)
      /\ (\A j \in 1..Len(y) : Fair(t, y[j]))
      /\ \A j, l \in 1..Len(y) : Place(y[j]) = Place(y[l]) => j = l BY <1>3 DEF Traded
<1>5. Surrendered(db, freed, a, b, x, y, G, H) BY <1>1, <1>2, <1>4, ReleasedIs DEF Givable, SoundFor
<1> HIDE DEF freed
<1>6.  /\ freed \in Databases /\ freed.ok = TRUE /\ Tidy(freed)
       /\ freed.header = db.header /\ freed.equipment = db.equipment
       /\ freed.owner = Regive(db.owner, a, b, x, y)
       /\ \A d \in Characters \ {a, b} : freed.slots[d] = db.slots[d]
       /\ \A k \in Categories, i \in SlotIds : freed.slots[a][k][i] =
            IF k = 0 /\ db.slots[a][0][i].instance \in G THEN Empty ELSE db.slots[a][k][i]
       /\ \A k \in Categories, i \in SlotIds : freed.slots[b][k][i] =
            IF k = 0 /\ db.slots[b][0][i].instance \in H THEN Empty ELSE db.slots[b][k][i]
  BY <1>5 DEF Surrendered
<1>7. /\ \A p \in Places : At(s, p).instance # 0 => Owns(db.owner, a, At(s, p))
      /\ \A p \in Places : At(t, p).instance # 0 => Owns(db.owner, b, At(t, p))
  BY <1>1, <1>2, RowsOwned DEF SoundFor
<1>8. /\ \A p \in Places : At(u, p).instance # 0 => Owns(freed.owner, a, At(u, p))
      /\ \A i \in SlotIds : s.entries[0][i].instance \in G => u.entries[0][i] # s.entries[0][i]
  <2>1. Trading(s, x, y, u, db.owner, freed.owner, a)
    BY <1>2, <1>3, <1>5, <1>7 DEF Trading, Surrendered
  <2> QED BY <2>1, SideOwns
<1>9. /\ \A p \in Places : At(v, p).instance # 0 => Owns(freed.owner, b, At(v, p))
      /\ \A i \in SlotIds : t.entries[0][i].instance \in H => v.entries[0][i] # t.entries[0][i]
  <2>1. Trading(t, y, x, v, db.owner, freed.owner, b)
    BY <1>2, <1>3, <1>5, <1>7 DEF Trading, Surrendered
  <2> QED BY <2>1, SideOwns
<1> HIDE DEF G, H
<1>10. Ready(freed, a, s, u, FALSE)
  <2>1. \A d \in Characters : OwnRows(freed.owner, freed.slots, freed.equipment, d)
    BY <1>6 DEF Tidy
  <2>2. \A k \in Categories, i \in SlotIds : freed.slots[a][k][i] =
          IF k = 0 /\ s.entries[0][i].instance \in G THEN Empty ELSE s.entries[k][i] BY <1>2, <1>6
  <2> QED BY <1>2, <1>4, <1>6, <1>8, <2>1, <2>2, ReadySide
<1>11. Written(freed, one, a, u) BY <1>10, WriteIs
<1> HIDE DEF one
<1>12. /\ one \in Databases /\ one.ok = TRUE /\ one.owner = freed.owner
       /\ one.slots = [freed.slots EXCEPT ![a] = u.entries]
       /\ one.equipment = [freed.equipment EXCEPT ![a] = u.equipped] BY <1>11 DEF Written
<1>13. /\ SoundFor(one, a) /\ one.header[a] # None /\ ReadOf(one, a) = u
       /\ \A d \in Characters \ {a} :
            /\ one.header[d] = freed.header[d] /\ ReadOf(one, d) = ReadOf(freed, d)
            /\ SoundFor(freed, d) => SoundFor(one, d) BY <1>4, <1>6, <1>8, <1>11, WrittenSound
<1>14. /\ one.slots[b] = freed.slots[b] /\ one.equipment[b] = freed.equipment[b]
       /\ \A d \in Characters \ {a} : one.slots[d] = freed.slots[d] /\ one.equipment[d] = freed.equipment[d]
  BY <1>6, <1>12 DEF Databases, SlotTables, WornTables
<1>15. Ready(one, b, t, v, FALSE)
  <2>1. ASSUME NEW d \in Characters PROVE OwnRows(one.owner, one.slots, one.equipment, d)
    BY <1>13, <1>6, <1>14, <1>12 DEF SoundFor, Tidy, OwnRows
  <2>2. \A k \in Categories, i \in SlotIds : one.slots[b][k][i] =
          IF k = 0 /\ t.entries[0][i].instance \in H THEN Empty ELSE t.entries[k][i]
    BY <1>2, <1>6, <1>14
  <2>3. one.equipment[b] = t.equipped BY <1>2, <1>6, <1>14
  <2>4. \A p \in Places : At(v, p).instance # 0 => Owns(one.owner, b, At(v, p)) BY <1>9, <1>12
  <2> QED BY <1>2, <1>4, <1>9, <1>12, <2>1, <2>2, <2>3, <2>4, ReadySide
<1>16. Written(one, next, b, v) BY <1>15, WriteIs
<1>17. next = Swept(db, a, b, x, y, s, t, u, v) BY DEF Swept, one, freed
<1> HIDE DEF next
<1>18. next \in Databases /\ next.ok = TRUE /\ next.owner = one.owner BY <1>16 DEF Written
<1>19. /\ SoundFor(next, b) /\ next.header[b] # None /\ ReadOf(next, b) = v
       /\ \A d \in Characters \ {b} :
            /\ next.header[d] = one.header[d] /\ ReadOf(next, d) = ReadOf(one, d)
            /\ SoundFor(one, d) => SoundFor(next, d) BY <1>9, <1>12, <1>4, <1>16, WrittenSound
<1>20. ASSUME NEW d \in Characters \ {a, b}
       PROVE  /\ next.header[d] = db.header[d] /\ ReadOf(next, d) = ReadOf(db, d)
              /\ SoundFor(next, d)
  <2>1. freed.header[d] = db.header[d] /\ freed.slots[d] = db.slots[d]
        /\ freed.equipment[d] = db.equipment[d] BY <1>6
  <2>2. ReadOf(freed, d) = ReadOf(db, d) BY <2>1 DEF ReadOf
  <2>3. SoundFor(db, d) /\ OwnRows(freed.owner, freed.slots, freed.equipment, d)
    BY <1>1, <1>6 DEF Tidy
  <2>4. SoundFor(freed, d) BY <2>1, <2>2, <2>3 DEF SoundFor
  <2> QED BY <1>13, <1>19, <2>1, <2>2, <2>4
<1>21. Sound(next) BY <1>13, <1>19, <1>18, <1>20 DEF Sound
<1> QED BY <1>6, <1>12, <1>13, <1>17, <1>18, <1>19, <1>20, <1>21 DEF s, t

LEMMA ExchangeStep ==
  ASSUME IInv, NEW t \in Trades, NEW pair \in Pairs,
         NEW x \in Store!OffersOf(pair[1]), NEW y \in Store!OffersOf(pair[2]),
         Exchange(t, pair, <<x, y>>)
  PROVE  IInv' /\ Store!Exchange(t, pair, <<x, y>>)
<1> DEFINE a == pair[1]
           b == pair[2]
           offers == <<x, y>>
           old == [side \in 1..2 |-> Read(pair[side])]
           done == ApplyTrade(offers, old)
           db == Tables
           next == Swept(db, a, b, x.items, y.items, old[1], old[2], done.states[1], done.states[2])
<1>1. a \in Characters /\ b \in Characters /\ a # b BY RowsAssumption
<1>2. /\ None \notin {old[1], old[2]} /\ Validate(old[1]) /\ Validate(old[2])
      /\ receipts[t] = None /\ done.result = "Success" /\ Finish(next, pair)
      /\ receipts' = IF next.ok THEN [receipts EXCEPT ![t] = [pair |-> pair, offers |-> offers]]
                     ELSE receipts
      /\ UNCHANGED <<claims, recorded, eaten>>
  <2>1. offers[1] = x /\ offers[2] = y OBVIOUS
  <2> HIDE DEF offers, done, old
  <2> QED BY <2>1 DEF Exchange, Swept, Released, offers, done, old
<1>3. old[1] = Read(a) /\ old[2] = Read(b) OBVIOUS
<1>4. old[1] = Inventories[a] /\ old[2] = Inventories[b] BY <1>1, <1>3 DEF Inventories
<1>5. header[a] # None /\ header[b] # None BY <1>2, <1>3 DEF Read
<1>6. db \in Databases /\ Sound(db) /\ SoundFor(db, a) /\ SoundFor(db, b) BY <1>1 DEF IInv, Sound
<1>7. old[1] = ReadOf(db, a) /\ old[2] = ReadOf(db, b) BY <1>1, <1>4, <1>5, TablesAre
<1>8. old[1] \in Good /\ old[2] \in Good BY <1>1, <1>5, <1>6, <1>7, ReadGood, TablesAre
<1>9. x \in Offers /\ y \in Offers BY <1>4, <1>8, OffersIn
<1>10. old = [side \in 1..2 |-> old[side]] /\ offers[1] = x /\ offers[2] = y OBVIOUS
<1>11. old \in [1..2 -> Inventory] BY <1>8, <1>10 DEF Good
<1>12. (IF TRUE THEN [side \in 1..2 |-> Inventories[pair[side]]] ELSE old) = old BY <1>4
<1> HIDE DEF old, offers
<1>13. /\ Traded(old[1], x.items, y.items, done.states[1])
       /\ Traded(old[2], y.items, x.items, done.states[2]) BY <1>9, <1>10, <1>2, <1>11, TradeIs
<1>14. Store!ApplyTrade(offers, old) = done BY SameApplyTrade
<1> HIDE DEF done
<1>15. x.items \in Seq(Offerable) /\ y.items \in Seq(Offerable) BY <1>9 DEF Offers
<1>16. /\ Sound(next) /\ next.owner = Regive(db.owner, a, b, x.items, y.items)
       /\ next.header[a] # None /\ ReadOf(next, a) = done.states[1]
       /\ next.header[b] # None /\ ReadOf(next, b) = done.states[2]
       /\ \A d \in Characters \ {a, b} :
            next.header[d] = db.header[d] /\ ReadOf(next, d) = ReadOf(db, d)
  <2>1. db.header[a] # None /\ db.header[b] # None BY <1>5, TablesAre
  <2> HIDE DEF db, a, b
  <2> QED BY <1>1, <1>6, <1>7, <1>13, <1>15, <2>1, SweptIs
<1> HIDE DEF next
<1>17. next \in Databases /\ next.ok = TRUE BY <1>16 DEF Sound
<1>18. /\ Tables' = next /\ owner' = next.owner /\ refused' = refused
       /\ \A c \in Characters : Inventories'[c] = IF next.header[c] = None THEN None ELSE ReadOf(next, c)
       /\ Inventories' = [c \in Characters |-> Inventories'[c]] BY <1>2, <1>17, FinishIs
<1>19. IInv' BY <1>16, <1>18, SoundNext
<1>20. Inventories' = [c \in Characters |-> IF c = a THEN done.states[1]
                                            ELSE IF c = b THEN done.states[2] ELSE Inventories[c]]
  <2> DEFINE f == Inventories
             g == Inventories'
  <2>1. g[a] = done.states[1] /\ g[b] = done.states[2] BY <1>1, <1>16, <1>18
  <2>2. ASSUME NEW c \in Characters \ {a, b} PROVE g[c] = f[c] BY TablesAre, <1>16, <1>18
  <2>3. g = [c \in Characters |-> g[c]] BY <1>18
  <2> HIDE DEF f, g
  <2> QED BY <2>1, <2>2, <2>3 DEF f, g
<1>21. /\ Store!GearOf(offers[1]) = GearTo(x.items, Len(x.items))
       /\ Store!GearOf(offers[2]) = GearTo(y.items, Len(y.items))
  BY <1>15, <1>10 DEF Store!GearOf, Store!Offered, GearTo
<1>22. owner' = [n \in DOMAIN owner |->
         IF n \in Store!GearOf(offers[1]) THEN <<b, owner[n][2]>>
         ELSE IF n \in Store!GearOf(offers[2]) THEN <<a, owner[n][2]>> ELSE owner[n]]
  BY <1>16, <1>18, TablesAre, <1>21 DEF Regive
<1>23. \A side \in 1..2 : ~Store!IsNew(pair[side]) /\ Store!Readable(pair[side])
  BY <1>2, <1>4, SameValidate DEF Store!IsNew, Store!Readable
<1>24. receipts[t] = None
       /\ receipts' = [receipts EXCEPT ![t] = [pair |-> pair, offers |-> offers]]
       /\ UNCHANGED <<claims, recorded, eaten>> /\ done.result = "Success" BY <1>2, <1>17
<1>25. Store!Exchange(t, pair, offers)
  BY <1>20, <1>22, <1>23, <1>12, <1>14, <1>24 DEF Store!Exchange
<1> QED BY <1>19, <1>25 DEF offers

-----------------------------------------------------------------------------
(* The specification.                                                         *)

LEMMA InitIs ==
  ASSUME Init
  PROVE  IInv /\ Store!Init
<1>1. /\ header = [c \in Characters |-> None] /\ owner = <<>> /\ refused = {}
      /\ slots = [c \in Characters |-> [k \in Categories |-> [i \in SlotIds |-> Empty]]]
      /\ equipment = [c \in Characters |-> [w \in WornSlots |-> Empty]] BY DEF Init
<1>2. Tables \in Databases BY <1>1, EmptyFits DEF SlotTables, WornTables, Databases, Tables
<1>3. ASSUME NEW c \in Characters PROVE SoundFor(Tables, c)
  BY <1>1, TablesAre, EmptyFits, Numbers DEF OwnRows, SoundFor
<1>4. IInv BY <1>1, <1>2, <1>3, TablesAre DEF IInv, Sound
<1> QED
  BY <1>4, <1>1 DEF Init, Store!Init, Store!Items, Items, Store!ItemsOf, ItemsOf, Inventories, Read

LEMMA NextIs ==
  ASSUME IInv, Next
  PROVE  IInv' /\ Store!Next
<1>1. ASSUME NEW c \in Characters, Request(c, Refresh) PROVE IInv' /\ Store!Next
  BY <1>1, RequestsIn, RequestStep DEF Store!Refresh, Refresh, Store!Next
<1>2. ASSUME NEW c \in Players, NEW r \in Store!RequestsOf(c), Request(c, r)
      PROVE  IInv' /\ Store!Next BY RowsAssumption, RequestsIn, <1>2, RequestStep DEF Store!Next
<1>3. ASSUME NEW c \in Players, NEW h \in DOMAIN Hits, Hit(c, h) PROVE IInv' /\ Store!Next
  BY <1>3, HitStep, RowsAssumption DEF Store!Next
<1>4. ASSUME NEW c \in Players, Revival(c) PROVE IInv' /\ Store!Next
  BY <1>4, RevivalStep, RowsAssumption DEF Store!Next
<1>5. ASSUME NEW c \in Players, NEW d \in DOMAIN Drops, Grab(c, d) PROVE IInv' /\ Store!Next
  BY <1>5, GrabStep, RowsAssumption DEF Store!Next
<1>6. ASSUME NEW t \in Trades, NEW pair \in Pairs, receipts[t] = None,
             NEW x \in Store!OffersOf(pair[1]), NEW y \in Store!OffersOf(pair[2]),
             Exchange(t, pair, <<x, y>>)
      PROVE  IInv' /\ Store!Next
  <2>1. IInv' /\ Store!Exchange(t, pair, <<x, y>>) BY <1>6, ExchangeStep
  <2>2. None \notin {Inventories[pair[1]], Inventories[pair[2]]}
    BY <2>1 DEF Store!Exchange, Store!IsNew
  <2> QED BY <1>6, <2>1, <2>2 DEF Store!Next
<1> QED BY <1>1, <1>2, <1>3, <1>4, <1>5, <1>6 DEF Next

LEMMA StutterIs ==
  ASSUME IInv, UNCHANGED vars
  PROVE  IInv' /\ UNCHANGED Store!vars
BY SoundNext DEF vars, rows, Tables, Inventories, Read, IInv, Store!vars

\* No statement meets a key of the schema: gear that moves has left its old row, and
\* gear that is traded has changed owner, before it is inserted anywhere else.
THEOREM NoStatementRefused == Spec => []NothingRefused
<1>1. IInv => NothingRefused BY DEF IInv, NothingRefused
<1>2. Init => IInv BY InitIs
<1>3. IInv /\ [Next]_vars => IInv' BY NextIs, StutterIs
<1> QED BY <1>1, <1>2, <1>3, PTL DEF Spec

\* The rows implement the store: every transaction of InventoryRepository leaves,
\* for every character, exactly the inventory that the rules compute, and the gear
\* with the owner that the exchange gives it, though only rows that differ are written.
THEOREM RowsImplementStore == Spec => ImplementsStore
<1>1. Init => IInv /\ Store!Init BY InitIs
<1>2. IInv /\ [Next]_vars => IInv' /\ [Store!Next]_(Store!vars) BY NextIs, StutterIs
<1>3. Spec => Store!Spec BY <1>1, <1>2, PTL DEF Spec, Store!Spec
<1> QED BY <1>3 DEF ImplementsStore

-----------------------------------------------------------------------------
(* Sums over finite sets, as the library folds them: by an element that it    *)
(* chooses, and so by any.                                                    *)

LEMMA OneLess ==
  ASSUME NEW T, IsFiniteSet(T), NEW x \in T, NEW n \in Nat, Cardinality(T) = n + 1
  PROVE  IsFiniteSet(T \ {x}) /\ Cardinality(T \ {x}) = n
BY FS_RemoveElement

\* What holds of the empty set, and with every new element, holds of a finite set.
LEMMA SetInduction ==
  ASSUME NEW S, IsFiniteSet(S), NEW G, {} \in G,
         \A T \in SUBSET S, x \in S : T \in G => T \cup {x} \in G
  PROVE  \A T \in SUBSET S : T \in G
<1> DEFINE N == {n \in Nat : \A T \in SUBSET S : Cardinality(T) = n => T \in G}
<1>1. \A T \in SUBSET S : IsFiniteSet(T) /\ Cardinality(T) \in Nat BY FS_Subset, FS_CardinalityType
<1>2. 0 \in N BY <1>1, FS_EmptySet
<1>3. ASSUME NEW n \in N PROVE n + 1 \in N
  <2> SUFFICES ASSUME NEW T \in SUBSET S, Cardinality(T) = n + 1 PROVE T \in G OBVIOUS
  <2>1. PICK x : x \in T BY <1>1, FS_EmptySet
  <2>2. Cardinality(T \ {x}) = n BY <1>1, <2>1, OneLess
  <2>3. T \ {x} \in G BY <2>2
  <2>4. (T \ {x}) \cup {x} = T BY <2>1
  <2> QED BY <2>1, <2>3, <2>4
<1>4. N = Nat
  <2> HIDE DEF N
  <2>1. N \in SUBSET Nat BY DEF N
  <2> QED BY <1>2, <1>3, <2>1, Induction
<1> QED BY <1>1, <1>4

Chosen(T) == CHOOSE x \in T : TRUE
SumRule(h, f, S) ==
  h = [T \in SUBSET S |-> IF T = {} THEN 0 ELSE f[Chosen(T)] + h[T \ {Chosen(T)}]]

LEMMA SumIs ==
  ASSUME NEW f, NEW S
  PROVE  SumFunctionOnSet(f, S) = (CHOOSE h : SumRule(h, f, S))[S]
BY DEF SumFunctionOnSet, FoldFunctionOnSet, MapThenFoldSet, SumRule, Chosen

LEMMA ChosenIn ==
  ASSUME NEW T, T # {}
  PROVE  Chosen(T) \in T
BY DEF Chosen

\* Two such functions agree wherever both are defined.
LEMMA SumUnique ==
  ASSUME NEW f, NEW S, NEW R, NEW g, NEW h, IsFiniteSet(R), R \subseteq S,
         SumRule(g, f, S), SumRule(h, f, R)
  PROVE  g[R] = h[R]
<1> DEFINE N == {n \in Nat : \A T \in SUBSET R : Cardinality(T) = n => g[T] = h[T]}
<1>1. \A T \in SUBSET R : IsFiniteSet(T) /\ Cardinality(T) \in Nat BY FS_Subset, FS_CardinalityType
<1>2. \A T \in SUBSET R : /\ g[T] = IF T = {} THEN 0 ELSE f[Chosen(T)] + g[T \ {Chosen(T)}]
                          /\ h[T] = IF T = {} THEN 0 ELSE f[Chosen(T)] + h[T \ {Chosen(T)}]
  BY DEF SumRule
<1>3. 0 \in N BY <1>1, <1>2, FS_EmptySet
<1>4. ASSUME NEW n \in N PROVE n + 1 \in N
  <2> SUFFICES ASSUME NEW T \in SUBSET R, Cardinality(T) = n + 1 PROVE g[T] = h[T] OBVIOUS
  <2> DEFINE x == Chosen(T)
  <2>1. x \in T /\ T # {} BY <1>1, FS_EmptySet, ChosenIn
  <2>2. Cardinality(T \ {x}) = n BY <1>1, <2>1, OneLess
  <2>3. g[T \ {x}] = h[T \ {x}] BY <2>2
  <2> QED BY <1>2, <2>1, <2>3
<1>5. N = Nat
  <2> HIDE DEF N
  <2>1. N \in SUBSET Nat BY DEF N
  <2> QED BY <1>3, <1>4, <2>1, Induction
<1> QED BY <1>1, <1>5

LEMMA SumExists ==
  ASSUME NEW f, NEW S, IsFiniteSet(S), \A x \in S : f[x] \in Nat
  PROVE  \E h : SumRule(h, f, S)
<1> DEFINE Up(h, n) == /\ h \in [SUBSET S -> Nat]
                       /\ \A T \in SUBSET S : Cardinality(T) <= n =>
                            h[T] = IF T = {} THEN 0 ELSE f[Chosen(T)] + h[T \ {Chosen(T)}]
           N == {n \in Nat : \E h : Up(h, n)}
<1>1. \A T \in SUBSET S : IsFiniteSet(T) /\ Cardinality(T) \in Nat /\ Cardinality(T) <= Cardinality(S)
  BY FS_Subset, FS_CardinalityType
<1>2. 0 \in N
  <2> DEFINE h == [T \in SUBSET S |-> 0]
  <2>1. Up(h, 0) BY <1>1, FS_EmptySet
  <2> HIDE DEF Up
  <2> QED BY <2>1
<1>3. ASSUME NEW n \in N PROVE n + 1 \in N
  <2>1. PICK g : Up(g, n) OBVIOUS
  <2> DEFINE h == [T \in SUBSET S |-> IF T = {} THEN 0 ELSE f[Chosen(T)] + g[T \ {Chosen(T)}]]
  <2>2. h \in [SUBSET S -> Nat]
    <3> SUFFICES ASSUME NEW T \in SUBSET S, T # {} PROVE f[Chosen(T)] + g[T \ {Chosen(T)}] \in Nat
      OBVIOUS
    <3>1. f[Chosen(T)] \in Nat BY ChosenIn
    <3>2. g[T \ {Chosen(T)}] \in Nat BY <2>1
    <3> QED BY <3>1, <3>2
  <2>3. ASSUME NEW T \in SUBSET S, Cardinality(T) <= n PROVE h[T] = g[T] BY <2>1, <2>3
  <2>4. ASSUME NEW T \in SUBSET S, Cardinality(T) <= n + 1, T # {}
        PROVE  h[T] = f[Chosen(T)] + h[T \ {Chosen(T)}]
    <3>1. Cardinality(T \ {Chosen(T)}) <= n BY <1>1, <2>4, FS_RemoveElement, ChosenIn
    <3>2. h[T \ {Chosen(T)}] = g[T \ {Chosen(T)}] BY <2>3, <3>1
    <3> QED BY <2>4, <3>2
  <2>5. h[{}] = 0 OBVIOUS
  <2> HIDE DEF h
  <2>6. Up(h, n + 1) BY <2>2, <2>4, <2>5
  <2> HIDE DEF Up
  <2> QED BY <2>6
<1>4. N = Nat
  <2> HIDE DEF N
  <2>1. N \in SUBSET Nat BY DEF N
  <2> QED BY <1>2, <1>3, <2>1, Induction
<1>5. PICK h : Up(h, Cardinality(S)) BY <1>1, <1>4
<1>6. SumRule(h, f, S) BY <1>1, <1>5 DEF SumRule
<1> QED BY <1>6

LEMMA SumUnfolds ==
  ASSUME NEW f, NEW S, IsFiniteSet(S), \A x \in S : f[x] \in Nat
  PROVE  SumFunctionOnSet(f, S) = IF S = {} THEN 0
           ELSE f[Chosen(S)] + SumFunctionOnSet(f, S \ {Chosen(S)})
<1> DEFINE R == S \ {Chosen(S)}
           g == CHOOSE h : SumRule(h, f, S)
           h == CHOOSE h : SumRule(h, f, R)
<1>1. SumRule(g, f, S) BY SumExists
<1>2. IsFiniteSet(R) /\ R \subseteq S BY FS_Subset
<1>3. SumRule(h, f, R) BY <1>2, SumExists
<1>4. SumFunctionOnSet(f, S) = g[S] /\ SumFunctionOnSet(f, R) = h[R] BY SumIs
<1> HIDE DEF g, h
<1>5. g[R] = h[R] BY <1>1, <1>2, <1>3, SumUnique
<1> QED BY <1>4, <1>5, <1>1 DEF SumRule

LEMMA SumNone ==
  ASSUME NEW f
  PROVE  SumFunctionOnSet(f, {}) = 0
BY SumUnfolds, FS_EmptySet

LEMMA SumNat ==
  ASSUME NEW f, NEW S, IsFiniteSet(S), \A x \in S : f[x] \in Nat
  PROVE  SumFunctionOnSet(f, S) \in Nat
<1>1. PICK h : SumRule(h, f, S) BY SumExists
<1> DEFINE N == {n \in Nat : \A T \in SUBSET S : Cardinality(T) = n => SumFunctionOnSet(f, T) \in Nat}
<1>2. \A T \in SUBSET S : IsFiniteSet(T) /\ Cardinality(T) \in Nat BY FS_Subset, FS_CardinalityType
<1>3. 0 \in N BY <1>2, FS_EmptySet, SumNone
<1>4. ASSUME NEW n \in N PROVE n + 1 \in N
  <2> SUFFICES ASSUME NEW T \in SUBSET S, Cardinality(T) = n + 1 PROVE SumFunctionOnSet(f, T) \in Nat
    OBVIOUS
  <2> DEFINE x == Chosen(T)
  <2>1. x \in T /\ T # {} BY <1>2, FS_EmptySet, ChosenIn
  <2>2. Cardinality(T \ {x}) = n BY <1>2, <2>1, OneLess
  <2>3. SumFunctionOnSet(f, T \ {x}) \in Nat BY <2>2
  <2> QED BY <2>1, <2>3, <1>2, SumUnfolds
<1>5. N = Nat
  <2> HIDE DEF N
  <2>1. N \in SUBSET Nat BY DEF N
  <2> QED BY <1>3, <1>4, <2>1, Induction
<1> QED BY <1>2, <1>5

\* Any element may be taken out first.
LEMMA SumWithout ==
  ASSUME NEW f, NEW S, IsFiniteSet(S), \A x \in S : f[x] \in Nat, NEW e \in S
  PROVE  SumFunctionOnSet(f, S) = f[e] + SumFunctionOnSet(f, S \ {e})
<1> DEFINE Sum(T) == SumFunctionOnSet(f, T)
           N == {n \in Nat : \A T \in SUBSET S : Cardinality(T) = n =>
                               \A x \in T : Sum(T) = f[x] + Sum(T \ {x})}
<1> HIDE DEF Sum
<1>1. \A T \in SUBSET S : /\ IsFiniteSet(T) /\ Cardinality(T) \in Nat /\ Sum(T) \in Nat
                          /\ T # {} => Sum(T) = f[Chosen(T)] + Sum(T \ {Chosen(T)})
  <2> SUFFICES ASSUME NEW T \in SUBSET S
               PROVE  /\ IsFiniteSet(T) /\ Cardinality(T) \in Nat /\ Sum(T) \in Nat
                      /\ T # {} => Sum(T) = f[Chosen(T)] + Sum(T \ {Chosen(T)}) OBVIOUS
  <2> QED BY FS_Subset, FS_CardinalityType, SumNat, SumUnfolds DEF Sum
<1>2. 0 \in N BY <1>1, FS_EmptySet
<1>3. ASSUME NEW n \in N PROVE n + 1 \in N
  <2> SUFFICES ASSUME NEW T \in SUBSET S, Cardinality(T) = n + 1, NEW x \in T
               PROVE  Sum(T) = f[x] + Sum(T \ {x}) BY <1>3
  <2> DEFINE c == Chosen(T)
             R == T \ {c}
             Q == T \ {x}
  <2>1. c \in T /\ Sum(T) = f[c] + Sum(R) BY <1>1, ChosenIn
  <2>2. CASE x = c BY <2>1, <2>2
  <2>3. CASE x # c
    <3>1. Cardinality(R) = n /\ Cardinality(Q) = n BY <1>1, <2>1, <2>3, OneLess
    <3>2. Sum(R) = f[x] + Sum(R \ {x}) BY <2>3, <3>1
    <3>3. Sum(Q) = f[c] + Sum(Q \ {c}) BY <2>1, <2>3, <3>1
    <3>4. R \ {x} = Q \ {c} /\ R \ {x} \in SUBSET S OBVIOUS
    <3>5. Sum(Q) = f[c] + Sum(R \ {x}) BY <3>3, <3>4
    <3>6. f[x] \in Nat /\ f[c] \in Nat /\ Sum(R \ {x}) \in Nat BY <1>1, <2>1, <3>4
    <3> QED BY <2>1, <3>2, <3>5, <3>6
  <2> QED BY <2>2, <2>3
<1>4. N = Nat
  <2> HIDE DEF N
  <2>1. N \in SUBSET Nat BY DEF N
  <2> QED BY <1>2, <1>3, <2>1, Induction
<1>5. \A x \in S : Sum(S) = f[x] + Sum(S \ {x})
  <2>1. S \in SUBSET S /\ Cardinality(S) \in N BY <1>1, <1>4
  <2> QED BY <2>1
<1> QED BY <1>5 DEF Sum

LEMMA SumWith ==
  ASSUME NEW f, NEW S, IsFiniteSet(S), \A x \in S : f[x] \in Nat, NEW T \in SUBSET S,
         NEW e \in S \ T
  PROVE  SumFunctionOnSet(f, T \cup {e}) = f[e] + SumFunctionOnSet(f, T)
BY FS_Subset, SumWithout

LEMMA SumSame ==
  ASSUME NEW f, NEW g, NEW S, IsFiniteSet(S), \A x \in S : f[x] \in Nat /\ g[x] = f[x]
  PROVE  SumFunctionOnSet(f, S) = SumFunctionOnSet(g, S)
<1> DEFINE G == {T \in SUBSET S : SumFunctionOnSet(f, T) = SumFunctionOnSet(g, T)}
<1>1. {} \in G BY SumNone
<1>2. ASSUME NEW T \in G, NEW e \in S PROVE T \cup {e} \in G BY SumWith
<1> HIDE DEF G
<1>3. \A T \in SUBSET S : T \in G BY <1>1, <1>2, SetInduction
<1> QED BY <1>3 DEF G

LEMMA SumZero ==
  ASSUME NEW f, NEW S, IsFiniteSet(S), \A x \in S : f[x] = 0
  PROVE  SumFunctionOnSet(f, S) = 0
<1> DEFINE G == {T \in SUBSET S : SumFunctionOnSet(f, T) = 0}
<1>1. {} \in G BY SumNone
<1>2. ASSUME NEW T \in G, NEW e \in S PROVE T \cup {e} \in G BY SumWith
<1> HIDE DEF G
<1>3. \A T \in SUBSET S : T \in G BY <1>1, <1>2, SetInduction
<1> QED BY <1>3 DEF G

\* One place differs.
LEMMA SumChange ==
  ASSUME NEW f, NEW g, NEW S, IsFiniteSet(S), \A x \in S : f[x] \in Nat /\ g[x] \in Nat,
         NEW e \in S, \A x \in S \ {e} : g[x] = f[x]
  PROVE  SumFunctionOnSet(g, S) + f[e] = SumFunctionOnSet(f, S) + g[e]
<1> DEFINE R == S \ {e}
<1>1. IsFiniteSet(R) BY FS_Subset
<1>2. SumFunctionOnSet(f, R) = SumFunctionOnSet(g, R) /\ SumFunctionOnSet(f, R) \in Nat
  BY <1>1, SumSame, SumNat
<1>3. /\ SumFunctionOnSet(f, S) = f[e] + SumFunctionOnSet(f, R)
      /\ SumFunctionOnSet(g, S) = g[e] + SumFunctionOnSet(g, R) BY SumWithout
<1>4. f[e] \in Nat /\ g[e] \in Nat OBVIOUS
<1> HIDE DEF R
<1> QED BY <1>2, <1>3, <1>4

LEMMA SumPart ==
  ASSUME NEW f, NEW S, IsFiniteSet(S), \A x \in S : f[x] \in Nat, NEW e \in S
  PROVE  f[e] <= SumFunctionOnSet(f, S)
<1>1. SumFunctionOnSet(f, S \ {e}) \in Nat BY SumNat, FS_Subset
<1> QED BY <1>1, SumWithout

-----------------------------------------------------------------------------
(* Amounts.  Of what is in K, a set of items with their instances, so much    *)
(* is in a place, in a bag and in a whole inventory.                          *)

Part(K, e) == IF <<e.item, e.instance>> \in K THEN e.quantity ELSE 0
InBag(K, bag) == SumFunctionOnSet([i \in SlotIds |-> Part(K, bag[i])], SlotIds)
OnBody(K, s) == Part(K, s.equipped[0]) + Part(K, s.equipped[1])
InBags(K, s) == SumFunctionOnSet([k \in Categories |-> InBag(K, s.entries[k])], Categories)
Total(K, s) == InBags(K, s) + OnBody(K, s)

LEMMA Finite == IsFiniteSet(SlotIds) /\ IsFiniteSet(Categories)
<1>1. IsFiniteSet(0..4)
  <2>1. \A b \in Int : IsFiniteSet(0..b) BY FS_Interval
  <2>2. 4 \in Int OBVIOUS
  <2> QED BY ONLY <2>1, <2>2
<1>2. IsFiniteSet(Categories) BY <1>1, FS_Subset, RulesAssumption
<1> QED BY FS_Interval, RulesAssumption, <1>2 DEF SlotIds

LEMMA PartNat ==
  ASSUME NEW K, NEW e \in Entry
  PROVE  Part(K, e) \in Nat /\ Part(K, Empty) = 0
BY DEF Part, Entry, Empty

LEMMA BagNat ==
  ASSUME NEW K, NEW bag \in [SlotIds -> Entry]
  PROVE  InBag(K, bag) \in Nat
<1> DEFINE f == [i \in SlotIds |-> Part(K, bag[i])]
<1>1. \A i \in SlotIds : f[i] \in Nat BY PartNat
<1> HIDE DEF f
<1>2. SumFunctionOnSet(f, SlotIds) \in Nat BY <1>1, SumNat, Finite
<1> QED BY <1>2 DEF f, InBag

\* One place of a bag changes.
LEMMA BagChange ==
  ASSUME NEW K, NEW bag \in [SlotIds -> Entry], NEW new \in [SlotIds -> Entry], NEW i \in SlotIds,
         \A n \in SlotIds \ {i} : new[n] = bag[n]
  PROVE  InBag(K, new) + Part(K, bag[i]) = InBag(K, bag) + Part(K, new[i])
<1> DEFINE f == [n \in SlotIds |-> Part(K, bag[n])]
           g == [n \in SlotIds |-> Part(K, new[n])]
<1>1. /\ \A n \in SlotIds : f[n] \in Nat /\ g[n] \in Nat
      /\ \A n \in SlotIds \ {i} : g[n] = f[n]
      /\ f[i] = Part(K, bag[i]) /\ g[i] = Part(K, new[i]) BY PartNat
<1> HIDE DEF f, g
<1> QED BY <1>1, SumChange, Finite DEF f, g, InBag

\* Two places do.
LEMMA BagChanges ==
  ASSUME NEW K, NEW bag \in [SlotIds -> Entry], NEW new \in [SlotIds -> Entry],
         NEW i \in SlotIds, NEW j \in SlotIds, i # j, \A n \in SlotIds \ {i, j} : new[n] = bag[n]
  PROVE  InBag(K, new) + Part(K, bag[i]) + Part(K, bag[j])
           = InBag(K, bag) + Part(K, new[i]) + Part(K, new[j])
<1> DEFINE mid == [bag EXCEPT ![i] = new[i]]
<1>1. /\ mid \in [SlotIds -> Entry] /\ mid[i] = new[i] /\ mid[j] = bag[j]
      /\ \A n \in SlotIds \ {i} : mid[n] = bag[n]
      /\ \A n \in SlotIds \ {j} : new[n] = mid[n] OBVIOUS
<1> HIDE DEF mid
<1> QED
  BY <1>1, BagChange, BagNat, PartNat

LEMMA TotalNat ==
  ASSUME NEW K, NEW s \in Inventory
  PROVE  /\ Total(K, s) \in Nat /\ InBags(K, s) \in Nat /\ OnBody(K, s) \in Nat
         /\ \A k \in Categories : InBag(K, s.entries[k]) \in Nat
<1> DEFINE f == [k \in Categories |-> InBag(K, s.entries[k])]
<1>1. \A k \in Categories : InBag(K, s.entries[k]) \in Nat BY BagNat DEF Inventory
<1>2. \A k \in Categories : f[k] \in Nat BY <1>1
<1> HIDE DEF f
<1> QED BY <1>1, <1>2, SumNat, Finite, PartNat DEF f, InBags, Total, Inventory, WornSlots, OnBody

\* One bag changes, and the body.
LEMMA TotalChange ==
  ASSUME NEW K, NEW s \in Inventory, NEW t \in Inventory, NEW k \in Categories, OtherBags(s, t, k)
  PROVE  Total(K, t) + InBag(K, s.entries[k]) + OnBody(K, s)
           = Total(K, s) + InBag(K, t.entries[k]) + OnBody(K, t)
<1> DEFINE f == [n \in Categories |-> InBag(K, s.entries[n])]
           g == [n \in Categories |-> InBag(K, t.entries[n])]
<1>1. /\ \A n \in Categories : f[n] \in Nat /\ g[n] \in Nat
      /\ \A n \in Categories \ {k} : g[n] = f[n]
      /\ f[k] = InBag(K, s.entries[k]) /\ g[k] = InBag(K, t.entries[k]) BY TotalNat DEF OtherBags
<1> HIDE DEF f, g
<1> QED BY <1>1, SumChange, Finite, TotalNat DEF Total, f, g, InBags

\* What does not touch the entries does not touch the amounts.
LEMMA TotalSame ==
  ASSUME NEW K, NEW s, NEW t, s.entries = t.entries, s.equipped = t.equipped
  PROVE  Total(K, t) = Total(K, s)
BY DEF Total, InBags, OnBody

-----------------------------------------------------------------------------
(* What the operations make of the amounts.                                   *)

\* The bag of one category has lost so much, and won so much.
LEMMA BagReplaced ==
  ASSUME NEW K, NEW s \in Inventory, NEW t \in Inventory, NEW k \in Categories,
         OtherBags(s, t, k), t.equipped = s.equipped, NEW lost \in Nat, NEW won \in Nat,
         InBag(K, t.entries[k]) + lost = InBag(K, s.entries[k]) + won
  PROVE  Total(K, t) + lost = Total(K, s) + won
BY TotalChange, TotalNat DEF OnBody

\* One place of the equipment bag and one of the body are given new contents.
Dressed(s, t, i, w, a, b) == t = [s EXCEPT !.entries[0][i] = a, !.equipped[w] = b]

LEMMA DressedTotal ==
  ASSUME NEW K, NEW s \in Inventory, NEW i \in SlotIds, NEW w \in WornSlots, NEW a \in Entry,
         NEW b \in Entry, NEW t \in Inventory, Dressed(s, t, i, w, a, b)
  PROVE  Total(K, t) + Part(K, s.entries[0][i]) + Part(K, s.equipped[w])
           = Total(K, s) + Part(K, a) + Part(K, b)
<1> DEFINE bag == [s.entries[0] EXCEPT ![i] = a]
           body == [s.equipped EXCEPT ![w] = b]
<1>1. /\ s.entries \in [Categories -> [SlotIds -> Entry]] /\ s.equipped \in [WornSlots -> Entry]
      /\ 0 \in Categories BY Numbers DEF Inventory
<1>2. t.entries = [s.entries EXCEPT ![0] = bag] /\ t.equipped = body BY DEF Dressed, Inventory
<1>3. bag \in [SlotIds -> Entry] /\ bag[i] = a /\ \A n \in SlotIds \ {i} : bag[n] = s.entries[0][n]
  BY <1>1
<1>4. body[w] = b /\ \A x \in WornSlots \ {w} : body[x] = s.equipped[x] BY <1>1
<1> HIDE DEF bag, body
<1>5. t.entries[0] = bag /\ OtherBags(s, t, 0) BY <1>1, <1>2 DEF OtherBags
<1>6. InBag(K, bag) + Part(K, s.entries[0][i]) = InBag(K, s.entries[0]) + Part(K, a)
  BY <1>1, <1>3, BagChange
<1>7. Total(K, t) + InBag(K, s.entries[0]) + OnBody(K, s) = Total(K, s) + InBag(K, bag) + OnBody(K, t)
  BY <1>1, <1>5, TotalChange
<1>8. /\ Part(K, s.entries[0][i]) \in Nat /\ Part(K, s.equipped[0]) \in Nat
      /\ Part(K, s.equipped[1]) \in Nat /\ Part(K, a) \in Nat /\ Part(K, b) \in Nat
  BY <1>1, PartNat DEF WornSlots
<1>9.  /\ Total(K, s) \in Nat /\ Total(K, t) \in Nat /\ OnBody(K, s) \in Nat /\ OnBody(K, t) \in Nat
       /\ InBag(K, s.entries[0]) \in Nat /\ InBag(K, bag) \in Nat BY <1>1, <1>5, TotalNat
<1>10. Part(K, s.equipped[w]) \in Nat BY <1>8 DEF WornSlots
<1> QED BY <1>6, <1>7, <1>8, <1>2, <1>4, <1>9, <1>10 DEF WornSlots, OnBody

LEMMA EquipTotal ==
  ASSUME NEW K, NEW s \in Good, NEW r, r.category \in Categories, r.source \in SlotIds
  PROVE  Total(K, Equip(s, r).state) = Total(K, s)
<1> DEFINE t == Equip(s, r).state
           i == r.source
           e == s.entries[0][i]
           w == EquipmentSlot(e.item)
<1>1. CASE r.category # 0 \/ EquipmentSlot(s.entries[r.category][i].item) = -1 \/ s.hp = 0
  BY <1>1 DEF Equip, Reply
<1>2. CASE ~(r.category # 0 \/ EquipmentSlot(s.entries[r.category][i].item) = -1 \/ s.hp = 0)
  <2>1. w \in WornSlots /\ r.category = 0 BY <1>2 DEF EquipmentSlot, WornSlots
  <2>2. t \in Inventory /\ s \in Inventory BY EquipKeeps, GoodParts DEF Kept
  <2>3. e \in Entry /\ s.equipped[w] \in Entry
    <3> HIDE DEF w
    <3> QED BY <2>1, <2>2, Numbers DEF Inventory
  <2>4. Dressed(s, t, i, w, s.equipped[w], e) BY <1>2, <2>1 DEF Equip, Reply, Dressed
  <2> HIDE DEF t, e, w
  <2>5. s.entries[0][i] = e BY DEF e
  <2> QED BY <2>1, <2>2, <2>3, <2>4, DressedTotal, TotalNat, PartNat, <2>5 DEF t
<1> QED BY <1>1, <1>2

LEMMA UnequipTotal ==
  ASSUME NEW K, NEW s \in Good, NEW r, r.source \in SlotIds, r.target \in SlotIds
  PROVE  Total(K, Unequip(s, r).state) = Total(K, s)
<1> DEFINE t == Unequip(s, r).state
           i == r.target
           w == r.source
           e == s.equipped[w]
<1>1. CASE r.category # 0 \/ w \notin WornSlots \/ s.hp = 0 \/ e = Empty \/ s.entries[0][i] # Empty
  BY <1>1 DEF Unequip, Reply
<1>2. CASE ~(r.category # 0 \/ w \notin WornSlots \/ s.hp = 0 \/ e = Empty \/ s.entries[0][i] # Empty)
  <2>1. t \in Inventory /\ s \in Inventory BY UnequipKeeps, GoodParts DEF Kept
  <2>2. e \in Entry /\ Empty \in Entry BY <1>2, <2>1, EmptyFits DEF Inventory
  <2>3. Dressed(s, t, i, w, e, Empty) BY <1>2 DEF Unequip, Reply, Dressed
  <2> HIDE DEF t, e
  <2>4. s.entries[0][i] = Empty /\ s.equipped[w] = e BY <1>2 DEF e
  <2> QED BY <1>2, <2>1, <2>2, <2>3, DressedTotal, TotalNat, PartNat, <2>4 DEF t
<1> QED BY <1>1, <1>2

LEMMA MoveTotal ==
  ASSUME NEW K, NEW s \in Good, NEW r, r.category \in Categories, r.source \in SlotIds,
         r.target \in SlotIds
  PROVE  Total(K, Move(s, r).state) = Total(K, s)
<1> DEFINE k == r.category
           i == r.source
           j == r.target
           from == s.entries[k][i]
           to == s.entries[k][j]
           limit == StackLimit(from.item, k)
           moved == Min({from.quantity, limit - to.quantity})
           t == Move(s, r).state
<1>0. /\ from \in Entry /\ to \in Entry /\ FitsBag(from, k) /\ FitsBag(to, k) /\ limit \in Nat
      /\ s \in Inventory /\ t \in Inventory /\ s.entries[k] \in [SlotIds -> Entry]
  BY GoodParts, Catalog, MoveKeeps DEF Bags, Kept
\* Two places are given new contents of the same amount.
<1>1. ASSUME NEW a \in Entry, NEW b \in Entry, i # j,
             t = [s EXCEPT !.entries[k] = [s.entries[k] EXCEPT ![i] = a, ![j] = b]],
             Part(K, a) + Part(K, b) = Part(K, from) + Part(K, to)
      PROVE  Total(K, t) = Total(K, s)
  <2> DEFINE bag == [s.entries[k] EXCEPT ![i] = a, ![j] = b]
  <2>1. /\ bag \in [SlotIds -> Entry] /\ bag[i] = a /\ bag[j] = b
        /\ \A n \in SlotIds \ {i, j} : bag[n] = s.entries[k][n] BY <1>0, <1>1
  <2>2. t.entries[k] = bag /\ OtherBags(s, t, k) /\ t.equipped = s.equipped
    BY <1>0, <1>1 DEF Inventory, OtherBags
  <2> HIDE DEF bag, t, from, to
  <2>3. InBag(K, bag) + Part(K, s.entries[k][i]) + Part(K, s.entries[k][j])
          = InBag(K, s.entries[k]) + Part(K, bag[i]) + Part(K, bag[j])
    BY <1>0, <1>1, <2>1, BagChanges
  <2>4. InBag(K, bag) \in Nat /\ InBag(K, s.entries[k]) \in Nat /\ Part(K, a) \in Nat
        /\ Part(K, b) \in Nat /\ Part(K, from) \in Nat /\ Part(K, to) \in Nat
    BY <1>0, <1>1, <2>1, BagNat, PartNat
  <2>5. s.entries[k][i] = from /\ s.entries[k][j] = to BY DEF from, to
  <2>a. InBag(K, bag) + Part(K, from) + Part(K, to) = InBag(K, s.entries[k]) + Part(K, a) + Part(K, b)
    BY <2>1, <2>3, <2>5
  <2>6. InBag(K, bag) = InBag(K, s.entries[k]) BY <1>1, <2>4, <2>a
  <2>7. Total(K, t) + 0 = Total(K, s) + 0 BY <1>0, <2>2, <2>6, <2>4, BagReplaced
  <2> QED BY <1>0, <2>7, TotalNat
<1>2. CASE from = Empty \/ i = j BY <1>2 DEF Move, Reply
<1>3. CASE ~(from = Empty \/ i = j) /\ from.item = to.item /\ limit > 1
  <2> DEFINE a == IF moved = from.quantity THEN Empty ELSE Stack(from.item, from.quantity - moved)
             b == Stack(to.item, to.quantity + moved)
  <2>1. t = [s EXCEPT !.entries[k] = [s.entries[k] EXCEPT ![i] = a, ![j] = b]]
    BY <1>3 DEF Move, Reply
  <2>2. from.item \in ItemsOf(k) /\ from.quantity \in 1..limit /\ to.quantity \in 1..limit
        /\ limit = Limit[k] BY <1>0, <1>3, EntryFits, EmptyFits, Catalog
  <2>3. k # 0 BY <1>3, <2>2, Numbers
  <2>4. moved \in Nat /\ moved <= from.quantity
    <3>1. limit - to.quantity \in Nat BY <1>0, <2>2
    <3> HIDE DEF limit, from, to
    <3>2. moved = IF from.quantity <= limit - to.quantity THEN from.quantity
                  ELSE limit - to.quantity BY <2>2, <3>1 DEF Min
    <3> HIDE DEF moved
    <3> QED BY <1>0, <2>2, <3>1, <3>2
  <2> HIDE DEF moved
  <2>5. from.instance = 0 /\ to.instance = 0 BY <1>0, <2>3, EntryFits
  <2>6. a \in Entry /\ b \in Entry
    <3> HIDE DEF from, to
    <3> QED BY <1>0, <2>4, EmptyFits DEF Entry, Stack
  <2>7. Part(K, a) + Part(K, b) = Part(K, from) + Part(K, to)
    <3>1. from.quantity \in Nat /\ to.quantity \in Nat BY <1>0 DEF Entry
    <3>2. Part(K, a) = IF <<from.item, 0>> \in K THEN from.quantity - moved ELSE 0
      <4> HIDE DEF from
      <4> QED BY <2>4, <3>1, PartNat, EmptyFits DEF Part, Stack
    <3>3. Part(K, b) = IF <<from.item, 0>> \in K THEN to.quantity + moved ELSE 0
      BY <1>3 DEF Part, Stack
    <3>4. /\ Part(K, from) = IF <<from.item, 0>> \in K THEN from.quantity ELSE 0
          /\ Part(K, to) = IF <<from.item, 0>> \in K THEN to.quantity ELSE 0 BY <1>3, <2>5 DEF Part
    <3> HIDE DEF a, b, from, to
    <3> QED BY <2>4, <3>1, <3>2, <3>3, <3>4
  <2> HIDE DEF a, b, t, from, to, limit
  <2> QED BY <1>1, <1>3, <2>1, <2>6, <2>7 DEF t
<1>4. CASE ~(from = Empty \/ i = j) /\ ~(from.item = to.item /\ limit > 1)
  <2>1. t = [s EXCEPT !.entries[k] = [s.entries[k] EXCEPT ![i] = to, ![j] = from]]
    BY <1>4 DEF Move, Reply
  <2>2. Part(K, to) + Part(K, from) = Part(K, from) + Part(K, to) BY <1>0, PartNat
  <2> HIDE DEF t, from, to, limit
  <2> QED BY <1>0, <1>1, <1>4, <2>1, <2>2 DEF t
<1> QED BY <1>2, <1>3, <1>4

\* One piece of an item that stacks.
Piece(K, item) == IF <<item, 0>> \in K THEN 1 ELSE 0

LEMMA UseTotal ==
  ASSUME NEW K, NEW s \in Good, NEW r, r.category \in Categories, r.source \in SlotIds
  PROVE  LET reply == Use(s, r)
             item == s.entries[1][r.source].item
         IN IF reply.result = "Success"
            THEN item \in Items /\ Total(K, reply.state) + Piece(K, item) = Total(K, s)
            ELSE reply.state = s
<1> DEFINE i == r.source
           e == s.entries[1][i]
           t == Use(s, r).state
<1>1. CASE Use(s, r).result # "Success" BY <1>1 DEF Use, Reply
<1>2. CASE Use(s, r).result = "Success"
  <2> DEFINE left == IF e.quantity = 1 THEN Empty ELSE [e EXCEPT !.quantity = @ - 1]
             bag == [s.entries[1] EXCEPT ![i] = left]
  <2>1. r.category = 1 /\ e.item \in {101, 102} BY <1>2 DEF Use, Reply
  <2>2. t.entries = [s.entries EXCEPT ![1] = bag] /\ t.equipped = s.equipped
    <3>1. s \in Inventory BY GoodParts
    <3> QED BY <1>2, <2>1, <3>1 DEF Use, Reply, Inventory
  <2>3. /\ 1 \in Categories /\ s.entries[1] \in [SlotIds -> Entry] /\ e \in Entry /\ FitsBag(e, 1)
        /\ s.entries \in [Categories -> [SlotIds -> Entry]] /\ s \in Inventory /\ t \in Inventory
    BY <2>1, GoodParts, UseKeeps DEF Bags, Kept
  <2>4. e.quantity \in Nat \ {0} /\ e.instance = 0 /\ e.item \in ItemsOf(1)
    BY <2>1, <2>3, EntryFits, EmptyFits
  <2>5. left \in Entry /\ Part(K, left) + Piece(K, e.item) = Part(K, e)
    <3>1. CASE e.quantity = 1 BY <2>4, <3>1, EmptyFits, PartNat DEF Part, Piece
    <3>2. CASE e.quantity # 1
      <4> HIDE DEF e
      <4>1. left = [item |-> e.item, quantity |-> e.quantity - 1, instance |-> 0]
        BY <2>3, <2>4, <3>2 DEF Entry
      <4> HIDE DEF left
      <4>a. e.item \in Nat /\ e.quantity - 1 \in Nat BY <2>3, <2>4 DEF Entry
      <4>2. left \in Entry BY <4>1, <4>a DEF Entry
      <4> QED BY <2>4, <4>2, <4>1 DEF Piece, Part
    <3> QED BY <3>1, <3>2
  <2> HIDE DEF left
  <2>6. bag \in [SlotIds -> Entry] /\ bag[i] = left /\ \A n \in SlotIds \ {i} : bag[n] = s.entries[1][n]
    BY <2>3, <2>5
  <2> HIDE DEF bag, t
  <2>7. t.entries[1] = bag /\ OtherBags(s, t, 1) BY <2>2, <2>3 DEF OtherBags
  <2>8. InBag(K, bag) + Part(K, e) = InBag(K, s.entries[1]) + Part(K, left) BY <2>3, <2>6, BagChange
  <2> HIDE DEF e
  <2>9. /\ InBag(K, bag) \in Nat /\ InBag(K, s.entries[1]) \in Nat /\ Part(K, left) \in Nat
        /\ Piece(K, e.item) \in Nat BY <2>3, <2>5, <2>6, BagNat, PartNat DEF Piece
  <2>10. Total(K, t) + Piece(K, e.item) = Total(K, s) + 0
    BY <2>2, <2>3, <2>7, <2>9, <2>5, <2>8, BagReplaced
  <2> QED BY <1>2, <2>1, <2>3, <2>4, <2>10, TotalNat DEF Items, e, t
<1> QED BY <1>1, <1>2

-----------------------------------------------------------------------------
(* What a deposit makes of the amounts, and when it finds room.               *)

\* So many pieces, as far as they are in K.
Worth(K, item, instance, quantity) == IF <<item, instance>> \in K THEN quantity ELSE 0
\* The room for an item at one place, and in the whole bag.
RoomAt(bag, item, limit, p) == IF bag[p].item \in {0, item} THEN limit - bag[p].quantity ELSE 0
RoomIn(bag, item, limit) == SumFunctionOnSet([p \in SlotIds |-> RoomAt(bag, item, limit, p)], SlotIds)
Brim(bag, item, limit, p) == bag[p].item = item /\ bag[p].quantity = limit

LEMMA RoomNat ==
  ASSUME NEW k \in Categories, NEW bag \in Bags(k), NEW item \in ItemsOf(k)
  PROVE  /\ \A p \in SlotIds : RoomAt(bag, item, StackLimit(item, k), p) \in Nat
         /\ RoomIn(bag, item, StackLimit(item, k)) \in Nat
<1> DEFINE limit == StackLimit(item, k)
           f == [p \in SlotIds |-> RoomAt(bag, item, limit, p)]
<1>1. ASSUME NEW p \in SlotIds PROVE RoomAt(bag, item, limit, p) \in Nat
  <2>1. bag[p] \in Entry /\ FitsBag(bag[p], k) BY DEF Bags
  <2>2. limit = Limit[k] /\ limit \in Nat BY Catalog
  <2>3. bag[p].quantity \in Nat /\ (bag[p].item = 0 => bag[p].quantity = 0)
        /\ (bag[p].item # 0 => bag[p].quantity <= Limit[k]) BY <2>1, <2>2, EntryFits, EmptyFits
  <2> HIDE DEF limit
  <2>4. bag[p].quantity <= limit BY <2>2, <2>3
  <2> QED BY <2>2, <2>3, <2>4 DEF RoomAt
<1>2. \A p \in SlotIds : f[p] \in Nat BY <1>1
<1> HIDE DEF f
<1>3. SumFunctionOnSet(f, SlotIds) \in Nat BY <1>2, SumNat, Finite
<1> QED BY <1>1, <1>3 DEF f, RoomIn

LEMMA RoomChange ==
  ASSUME NEW k \in Categories, NEW bag \in Bags(k), NEW new \in Bags(k), NEW item \in ItemsOf(k),
         NEW i \in SlotIds, \A n \in SlotIds \ {i} : new[n] = bag[n]
  PROVE  LET limit == StackLimit(item, k) IN
         RoomIn(new, item, limit) + RoomAt(bag, item, limit, i)
           = RoomIn(bag, item, limit) + RoomAt(new, item, limit, i)
<1> DEFINE limit == StackLimit(item, k)
           f == [n \in SlotIds |-> RoomAt(bag, item, limit, n)]
           g == [n \in SlotIds |-> RoomAt(new, item, limit, n)]
<1>1. /\ \A n \in SlotIds : f[n] \in Nat /\ g[n] \in Nat
      /\ \A n \in SlotIds \ {i} : g[n] = f[n]
      /\ f[i] = RoomAt(bag, item, limit, i) /\ g[i] = RoomAt(new, item, limit, i)
  BY RoomNat DEF RoomAt
<1> HIDE DEF f, g
<1> QED BY <1>1, SumChange, Finite DEF f, g, RoomIn

\* One place is put into: it takes what is left, or is filled to the brim.
Putting(k, acc, i, item, instance, limit, next) ==
  /\ k \in Categories /\ acc \in Filling(k) /\ i \in SlotIds /\ item \in ItemsOf(k)
  /\ instance \in Nat /\ (instance # 0 <=> k = 0) /\ limit = StackLimit(item, k)
  /\ acc.bag[i].item \in {0, item} /\ acc.bag[i].instance \in {0, instance}
  /\ next = Put(acc, i, item, instance, limit)

PutWell(K, acc, i, item, instance, limit, next) ==
  /\ next.left <= acc.left
  /\ \A n \in SlotIds \ {i} : next.bag[n] = acc.bag[n]
  /\ next.left > 0 => Brim(next.bag, item, limit, i)
  /\ Brim(acc.bag, item, limit, i) => next = acc
  /\ InBag(K, next.bag) + Worth(K, item, instance, next.left)
       = InBag(K, acc.bag) + Worth(K, item, instance, acc.left)
  /\ RoomIn(next.bag, item, limit) + acc.left = RoomIn(acc.bag, item, limit) + next.left

LEMMA PutAmounts ==
  ASSUME NEW K, NEW k, NEW acc, NEW i, NEW item, NEW instance, NEW limit, NEW next,
         Putting(k, acc, i, item, instance, limit, next)
  PROVE  PutWell(K, acc, i, item, instance, limit, next)
<1> DEFINE old == acc.bag[i]
           room == limit - old.quantity
           amount == Min({acc.left, room})
           e == [item |-> item, instance |-> instance, quantity |-> old.quantity + amount]
<1>0. /\ k \in Categories /\ acc \in Filling(k) /\ i \in SlotIds /\ item \in ItemsOf(k)
      /\ instance \in Nat /\ (instance # 0 <=> k = 0) /\ limit = StackLimit(item, k)
      /\ acc.bag[i].item \in {0, item} /\ acc.bag[i].instance \in {0, instance}
      /\ next = Put(acc, i, item, instance, limit) BY DEF Putting
<1> USE <1>0
<1>1. acc.left \in Nat /\ acc.bag \in Bags(k) /\ old \in Entry /\ FitsBag(old, k)
      /\ acc.bag \in [SlotIds -> Entry] BY DEF Filling, Bags
<1>2. limit = Limit[k] /\ limit \in Nat \ {0} /\ item \in Nat \ {0} BY Catalog
<1>3. old.quantity \in Nat /\ room \in Nat /\ (old.item = 0 => old = Empty) /\ (old.quantity = 0 => old = Empty)
  BY <1>1, EntryFits, <1>2 DEF FitsBag
<1>i. old # Empty => old.item = item /\ old.instance = instance BY <1>1, <1>3 DEF FitsBag
<1>n. next \in Filling(k) BY PutIs
<1> HIDE DEF room, old
<1>4. amount \in Nat /\ amount <= room /\ amount <= acc.left /\ (amount = acc.left \/ amount = room)
  BY <1>1, <1>3 DEF Min
<1>5. next = IF amount = 0 THEN acc
             ELSE [left |-> acc.left - amount, bag |-> [acc.bag EXCEPT ![i] = e]]
  BY DEF Put, room, old
<1>b. Brim(acc.bag, item, limit, i) => next = acc
  <2>1. Brim(acc.bag, item, limit, i) => room = 0 BY <1>2 DEF Brim, room, old
  <2>2. room = 0 => amount = 0 BY <1>3, <1>4
  <2> HIDE DEF amount
  <2> QED BY <1>5, <2>1, <2>2
<1> HIDE DEF amount
<1>6. CASE amount = 0
  BY <1>5, <1>6, <1>1, <1>4, <1>2, <1>3, EmptyFits, <1>i, <1>b DEF room, Brim, old, PutWell
<1>7. CASE amount # 0
  <2>1. /\ next.left = acc.left - amount /\ next.bag[i] = e /\ next.left \in Nat
        /\ \A n \in SlotIds \ {i} : next.bag[n] = acc.bag[n]
        /\ next.bag \in Bags(k) /\ next.bag \in [SlotIds -> Entry]
    BY <1>1, <1>4, <1>5, <1>7, <1>n DEF Filling, Bags
  <2>2. e.item = item /\ e.instance = instance /\ e.quantity = old.quantity + amount OBVIOUS
  <2> HIDE DEF e
  <2>3. InBag(K, next.bag) + Part(K, acc.bag[i]) = InBag(K, acc.bag) + Part(K, e)
    BY <1>1, <2>1, BagChange
  <2>4. InBag(K, next.bag) \in Nat /\ InBag(K, acc.bag) \in Nat BY <1>1, <2>1, BagNat
  <2>5. Part(K, e) = Part(K, old) + Worth(K, item, instance, amount)
    BY PartNat, EmptyFits, <1>4, <2>2, <1>3, <1>i DEF Part, Worth
  <2>6. InBag(K, next.bag) + Worth(K, item, instance, next.left)
          = InBag(K, acc.bag) + Worth(K, item, instance, acc.left)
    BY <1>1, PartNat, <1>4, <2>1, <2>3, <2>4, <2>5 DEF old, Worth
  <2>7. RoomIn(next.bag, item, limit) + RoomAt(acc.bag, item, limit, i)
          = RoomIn(acc.bag, item, limit) + RoomAt(next.bag, item, limit, i)
    BY <1>1, <2>1, RoomChange
  <2>8. RoomAt(acc.bag, item, limit, i) = limit - old.quantity
        /\ RoomAt(next.bag, item, limit, i) = limit - (old.quantity + amount)
    BY <2>1, <2>2 DEF RoomAt, old
  <2>9. RoomIn(next.bag, item, limit) \in Nat /\ RoomIn(acc.bag, item, limit) \in Nat
    BY <1>1, <2>1, RoomNat
  <2>10. RoomIn(next.bag, item, limit) + acc.left = RoomIn(acc.bag, item, limit) + next.left
    BY <1>1, <1>2, <1>3, <1>4, <2>1, <2>7, <2>8, <2>9
  <2>11. next.left > 0 => Brim(next.bag, item, limit, i)
    BY <1>1, <1>4, <2>1, <1>2, <1>3, <2>2 DEF Brim, room
  <2>12. next.left <= acc.left BY <1>1, <1>4, <2>1
  <2> QED BY <1>b, <2>1, <2>6, <2>10, <2>11, <2>12 DEF PutWell
<1> QED BY <1>6, <1>7

\* What holds of a place when it has been visited, and stays so, holds of every
\* place at the end.
LEMMA FillVisits ==
  ASSUME NEW begun, NEW places, NEW item, NEW instance, NEW limit, NEW H, begun \in H, NEW D,
         \A acc \in H, i \in SlotIds : i \in places =>
           LET next == Put(acc, i, item, instance, limit) IN
           /\ next \in H /\ <<next, i>> \in D
           /\ \A j \in SlotIds : <<acc, j>> \in D => <<next, j>> \in D
  PROVE  LET end == Fill(begun, places, item, instance, limit) IN
         /\ end \in H
         /\ \A j \in SlotIds : j \in places \/ <<begun, j>> \in D => <<end, j>> \in D
<1> DEFINE step == [n \in 1..Slots |-> [acc \in H |->
             IF n - 1 \in places THEN Put(acc, n - 1, item, instance, limit) ELSE acc]]
<1>0. Slots \in Nat /\ \A n \in 1..Slots : n - 1 \in SlotIds /\ n - 1 \in 0..Slots
  BY RulesAssumption DEF SlotIds
<1>1. \A n \in 1..Slots : step[n] \in [H -> H] BY <1>0
<1> HIDE DEF step
<1>2. PICK f : Iterates(f, Slots, H, begun, step) BY <1>0, <1>1, Recursion
<1>3. f \in [0..Slots -> H] /\ f[0] = begun /\ \A n \in 1..Slots : f[n] = step[n][f[n - 1]]
  BY <1>2 DEF Iterates
<1>a. \A n \in 1..Slots : f[n] = IF n - 1 \in places THEN Put(f[n - 1], n - 1, item, instance, limit)
                                 ELSE f[n - 1] BY <1>0, <1>3 DEF step
<1>4. FillRule(f, begun, places, item, instance, limit) BY <1>3, <1>a DEF FillRule
<1>5. Fill(begun, places, item, instance, limit) = f[Slots] BY <1>4, FillIs
<1> DEFINE Seen(n, j) == (j \in places /\ j < n) \/ <<begun, j>> \in D
           G == {n \in Nat : n <= Slots => \A j \in SlotIds : Seen(n, j) => <<f[n], j>> \in D}
<1>6. 0 \in G BY <1>3 DEF SlotIds
<1>7. ASSUME NEW n \in G PROVE n + 1 \in G
  <2> SUFFICES ASSUME n + 1 <= Slots, NEW j \in SlotIds, Seen(n + 1, j)
               PROVE  <<f[n + 1], j>> \in D OBVIOUS
  <2>1. n \in Nat /\ n + 1 \in 1..Slots /\ n \in SlotIds /\ n <= Slots /\ n \in 0..Slots /\ j \in Nat
        /\ (n + 1) - 1 = n BY <1>0, <1>7, Numbers DEF SlotIds
  <2>2. f[n + 1] = IF n \in places THEN Put(f[n], n, item, instance, limit) ELSE f[n] BY <1>a, <2>1
  <2>3. f[n] \in H BY <1>3, <2>1
  <2>4. j = n \/ Seen(n, j) BY <2>1
  <2>5. CASE Seen(n, j) BY <1>7, <2>1, <2>5, <2>2, <2>3
  <2>6. CASE j = n /\ ~Seen(n, j) BY <2>6, <2>1, <2>2, <2>3
  <2> QED BY <2>4, <2>5, <2>6
<1>8. \A n \in Nat : n \in G
  <2> HIDE DEF G
  <2>1. G \in SUBSET Nat BY DEF G
  <2> QED BY <1>6, <1>7, <2>1, Induction
<1>9. \A j \in SlotIds : j < Slots BY <1>0 DEF SlotIds
<1> QED BY <1>5, <1>0, <1>3, <1>8, <1>9

\* A deposit keeps count, and leaves pieces over only if there is no room for all.
LEMMA DepositAmounts ==
  ASSUME NEW K, NEW k \in Categories, NEW bag \in Bags(k), NEW item \in ItemsOf(k),
         NEW instance \in Nat, instance # 0 <=> k = 0, NEW quantity \in Nat
  PROVE  LET limit == StackLimit(item, k)
             put == Deposit(bag, item, instance, quantity, limit)
         IN /\ InBag(K, put.bag) + Worth(K, item, instance, put.left)
                 = InBag(K, bag) + Worth(K, item, instance, quantity)
            /\ put.left = 0 <=> quantity <= RoomIn(bag, item, limit)
<1> DEFINE limit == StackLimit(item, k)
           Fresh(b, i) == b[i].item = item /\ b[i].instance = instance
           stacks == {i \in SlotIds : bag[i].item = item /\ bag[i].instance = 0 /\ instance = 0}
           empties == {i \in SlotIds : bag[i] = Empty}
           H == {acc \in Filling(k) :
                   /\ \A i \in SlotIds : acc.bag[i] = bag[i] \/ Fresh(acc.bag, i)
                   /\ \A i \in SlotIds \ (stacks \cup empties) : acc.bag[i] = bag[i]
                   /\ InBag(K, acc.bag) + Worth(K, item, instance, acc.left)
                        = InBag(K, bag) + Worth(K, item, instance, quantity)
                   /\ RoomIn(acc.bag, item, limit) + quantity = RoomIn(bag, item, limit) + acc.left}
           D == {x \in Filling(k) \X SlotIds : x[1].left > 0 => Brim(x[1].bag, item, limit, x[2])}
           begun == [left |-> quantity, bag |-> bag]
<1>1. begun \in H BY DEF Filling
<1> HIDE DEF H, D, begun
<1>2. ASSUME NEW acc \in H, NEW i \in SlotIds, i \in stacks \cup empties
      PROVE  LET next == Put(acc, i, item, instance, limit) IN
             /\ next \in H /\ <<next, i>> \in D
             /\ \A j \in SlotIds : <<acc, j>> \in D => <<next, j>> \in D
  <2> DEFINE next == Put(acc, i, item, instance, limit)
  <2>0. /\ acc \in Filling(k) /\ \A n \in SlotIds : acc.bag[n] = bag[n] \/ Fresh(acc.bag, n)
        /\ \A n \in SlotIds \ (stacks \cup empties) : acc.bag[n] = bag[n]
        /\ InBag(K, acc.bag) + Worth(K, item, instance, acc.left)
             = InBag(K, bag) + Worth(K, item, instance, quantity)
        /\ RoomIn(acc.bag, item, limit) + quantity = RoomIn(bag, item, limit) + acc.left
    BY <1>2 DEF H
  <2>a. acc \in Filling(k) BY <2>0
  <2>b. k \in Categories /\ i \in SlotIds /\ item \in ItemsOf(k) /\ instance \in Nat
        /\ (instance # 0 <=> k = 0) OBVIOUS
  <2>1. acc.bag[i].item \in {0, item} /\ acc.bag[i].instance \in {0, instance}
    BY <1>2, <2>0, EmptyFits
  <2>2. /\ next \in Filling(k)
        /\ next = acc \/ \E e \in Entry : /\ e.item = item /\ e.instance = instance
                                          /\ next.bag = [acc.bag EXCEPT ![i] = e]
    BY ONLY <2>a, <2>1, <2>b, PutIs
  <2>3. acc.bag \in Bags(k) /\ acc.bag \in [SlotIds -> Entry] /\ acc.left \in Nat
        /\ next.bag \in Bags(k) /\ next.left \in Nat BY <2>0, <2>2 DEF Filling, Bags
  <2>4. /\ next.left <= acc.left
        /\ \A n \in SlotIds \ {i} : next.bag[n] = acc.bag[n]
        /\ next.left > 0 => Brim(next.bag, item, limit, i)
        /\ Brim(acc.bag, item, limit, i) => next = acc
        /\ InBag(K, next.bag) + Worth(K, item, instance, next.left)
             = InBag(K, acc.bag) + Worth(K, item, instance, acc.left)
        /\ RoomIn(next.bag, item, limit) + acc.left = RoomIn(acc.bag, item, limit) + next.left
    <3> HIDE DEF next, limit
    <3>1. limit = StackLimit(item, k) /\ next = Put(acc, i, item, instance, limit)
      BY DEF next, limit
    <3>2. Putting(k, acc, i, item, instance, limit, next) BY ONLY <2>a, <2>1, <2>b, <3>1 DEF Putting
    <3>3. PutWell(K, acc, i, item, instance, limit, next) BY ONLY <3>2, PutAmounts
    <3> QED BY ONLY <3>3 DEF PutWell
  <2>5. /\ RoomIn(next.bag, item, limit) \in Nat /\ RoomIn(acc.bag, item, limit) \in Nat
        /\ RoomIn(bag, item, limit) \in Nat BY <2>3, RoomNat
  <2> HIDE DEF next, limit
  <2>6. next.bag[i] = acc.bag[i] \/ Fresh(next.bag, i) BY <2>2, <2>3
  <2>7. \A n \in SlotIds : next.bag[n] = bag[n] \/ Fresh(next.bag, n)
    <3> SUFFICES ASSUME NEW n \in SlotIds PROVE next.bag[n] = bag[n] \/ Fresh(next.bag, n) OBVIOUS
    <3>1. acc.bag[n] = bag[n] \/ Fresh(acc.bag, n) BY <2>0
    <3>2. n = i \/ next.bag[n] = acc.bag[n] BY <2>4
    <3> QED BY <2>6, <3>1, <3>2
  <2>8. InBag(K, next.bag) + Worth(K, item, instance, next.left)
           = InBag(K, bag) + Worth(K, item, instance, quantity) BY <2>0, <2>4
  <2>9. next \in H BY <2>2, <2>7, <1>2, <2>0, <2>4, <2>3, <2>5, <2>8 DEF H
  <2>10. <<next, i>> \in D BY <2>2, <2>4 DEF D
  <2>11. ASSUME NEW j \in SlotIds, <<acc, j>> \in D PROVE <<next, j>> \in D
    <3>1. CASE j = i BY <2>10, <3>1
    <3>2. CASE j # i
      <4>1. next.left > 0 => acc.left > 0 BY <2>3, <2>4
      <4>2. next.bag[j] = acc.bag[j] BY <2>4, <3>2
      <4> QED BY <2>2, <2>11, <4>1, <4>2 DEF Brim, D
    <3> QED BY <3>1, <3>2
  <2> QED BY <2>9, <2>10, <2>11 DEF next
<1> HIDE DEF limit
<1> DEFINE first == Fill(begun, stacks, item, instance, limit)
           end == Fill(first, empties, item, instance, limit)
<1>3. first \in H /\ \A j \in SlotIds : j \in stacks => <<first, j>> \in D
  <2>1. \A acc \in H, i \in SlotIds : i \in stacks =>
          LET next == Put(acc, i, item, instance, limit) IN
          /\ next \in H /\ <<next, i>> \in D
          /\ \A j \in SlotIds : <<acc, j>> \in D => <<next, j>> \in D BY <1>2
  <2> HIDE DEF stacks, empties
  <2> QED BY ONLY <1>1, <2>1, FillVisits DEF first
<1> HIDE DEF first
<1>4. end \in H /\ \A j \in SlotIds : j \in empties \/ <<first, j>> \in D => <<end, j>> \in D
  <2>1. \A acc \in H, i \in SlotIds : i \in empties =>
          LET next == Put(acc, i, item, instance, limit) IN
          /\ next \in H /\ <<next, i>> \in D
          /\ \A j \in SlotIds : <<acc, j>> \in D => <<next, j>> \in D BY <1>2
  <2> HIDE DEF stacks, empties
  <2> QED BY ONLY <1>3, <2>1, FillVisits
<1>5. Deposit(bag, item, instance, quantity, limit) = end BY DEF Deposit, FillStacks, begun, first
<1> HIDE DEF end
<1>6. /\ end \in Filling(k) /\ end.bag \in Bags(k) /\ end.left \in Nat
      /\ RoomIn(end.bag, item, limit) \in Nat /\ RoomIn(bag, item, limit) \in Nat
      /\ RoomIn(end.bag, item, limit) + quantity = RoomIn(bag, item, limit) + end.left
      /\ InBag(K, end.bag) + Worth(K, item, instance, end.left)
           = InBag(K, bag) + Worth(K, item, instance, quantity)
  <2> QED BY <1>4, RoomNat DEF H, limit, Filling
<1>7. ASSUME end.left > 0 PROVE RoomIn(end.bag, item, limit) = 0
  <2> DEFINE f == [p \in SlotIds |-> RoomAt(end.bag, item, limit, p)]
  <2>1. ASSUME NEW p \in SlotIds PROVE RoomAt(end.bag, item, limit, p) = 0
    <3>1. limit \in Nat /\ item # 0 /\ limit = Limit[k] BY Catalog DEF limit
    <3>2. CASE p \in stacks \cup empties
      <4>1. <<end, p>> \in D BY <1>3, <1>4, <3>2
      <4>2. Brim(end.bag, item, limit, p) BY <1>7, <4>1 DEF D
      <4> QED BY <3>1, <4>2 DEF Brim, RoomAt
    <3>3. CASE p \notin stacks \cup empties
      <4>1. end.bag[p] = bag[p] BY <1>4, <3>3 DEF H
      <4>2. bag[p] \in Entry /\ FitsBag(bag[p], k) /\ bag[p] # Empty BY <3>3 DEF Bags
      <4>3. bag[p].item # 0 BY <4>2, EntryFits
      <4>4. CASE bag[p].item # item BY <4>1, <4>3, <4>4 DEF RoomAt
      <4>5. CASE bag[p].item = item BY <3>3, <4>5, <4>2, EntryFits, <3>1, Numbers, <4>1 DEF RoomAt
      <4> QED BY <4>4, <4>5
    <3> QED BY <3>2, <3>3
  <2>2. \A p \in SlotIds : f[p] = 0 BY <2>1
  <2> HIDE DEF f
  <2>3. SumFunctionOnSet(f, SlotIds) = 0 BY <2>2, SumZero, Finite
  <2> QED BY <2>3 DEF f, RoomIn
<1> QED
  BY <1>5, <1>6, <1>7 DEF limit

-----------------------------------------------------------------------------
(* Sorting keeps the amounts.                                                 *)

InSeq(K, packed) == SumFunctionOnSet([n \in 1..Len(packed) |-> Part(K, packed[n])], 1..Len(packed))
InPlaces(K, bag, left) == SumFunctionOnSet([i \in SlotIds |-> Part(K, bag[i])], left)

LEMMA SeqNat ==
  ASSUME NEW K, NEW packed \in Seq(Entry)
  PROVE  /\ IsFiniteSet(1..Len(packed)) /\ InSeq(K, packed) \in Nat
         /\ \A n \in 1..Len(packed) : Part(K, packed[n]) \in Nat
<1> DEFINE f == [n \in 1..Len(packed) |-> Part(K, packed[n])]
<1>1. \A n \in 1..Len(packed) : Part(K, packed[n]) \in Nat BY PartNat
<1>2. IsFiniteSet(1..Len(packed)) BY FS_Interval
<1>3. \A n \in 1..Len(packed) : f[n] \in Nat BY <1>1
<1> HIDE DEF f
<1> QED BY <1>1, <1>2, <1>3, SumNat DEF InSeq, f

LEMMA SeqAppend ==
  ASSUME NEW K, NEW packed \in Seq(Entry), NEW e \in Entry
  PROVE  InSeq(K, Append(packed, e)) = InSeq(K, packed) + Part(K, e)
<1> DEFINE long == Append(packed, e)
           f == [n \in 1..Len(packed) |-> Part(K, packed[n])]
           g == [n \in 1..Len(long) |-> Part(K, long[n])]
           m == Len(packed) + 1
<1>1. /\ long \in Seq(Entry) /\ Len(long) = m /\ Len(packed) \in Nat /\ long[m] = e
      /\ \A n \in 1..Len(packed) : long[n] = packed[n] OBVIOUS
<1>2. /\ 1..Len(long) = 1..Len(packed) \cup {m} /\ m \notin 1..Len(packed)
      /\ m \in 1..Len(long) /\ (1..Len(long)) \ {m} = 1..Len(packed) BY <1>1
<1> HIDE DEF long, m
<1>3. IsFiniteSet(1..Len(long)) /\ IsFiniteSet(1..Len(packed))
      /\ \A n \in 1..Len(long) : Part(K, long[n]) \in Nat BY <1>1, SeqNat
<1>4. /\ \A n \in 1..Len(long) : g[n] \in Nat
      /\ g[m] = Part(K, e)
      /\ \A n \in 1..Len(packed) : g[n] \in Nat /\ f[n] = g[n] BY <1>1, <1>2, <1>3
<1> HIDE DEF f, g
<1> DEFINE S == 1..Len(long)
           R == 1..Len(packed)
<1>a. /\ IsFiniteSet(S) /\ IsFiniteSet(R) /\ m \in S /\ S \ {m} = R
      /\ \A n \in S : g[n] \in Nat
      /\ \A n \in R : g[n] \in Nat /\ f[n] = g[n] BY <1>2, <1>3, <1>4
<1> HIDE DEF S, R
<1>5. SumFunctionOnSet(g, S) = g[m] + SumFunctionOnSet(g, R) BY <1>a, SumWithout
<1>6. SumFunctionOnSet(g, R) = SumFunctionOnSet(f, R) BY <1>a, SumSame
<1>7. InSeq(K, long) = Part(K, e) + InSeq(K, packed) BY <1>4, <1>5, <1>6 DEF InSeq, f, g, S, R
<1> QED BY <1>7, SeqNat, PartNat DEF long

\* The last place of a sequence is given new contents.
LEMMA SeqLast ==
  ASSUME NEW K, NEW packed \in Seq(Entry), NEW full \in Seq(Entry), NEW m \in 1..Len(packed),
         Len(full) = Len(packed), \A n \in 1..Len(packed) : n # m => full[n] = packed[n]
  PROVE  InSeq(K, full) + Part(K, packed[m]) = InSeq(K, packed) + Part(K, full[m])
<1> DEFINE f == [n \in 1..Len(packed) |-> Part(K, packed[n])]
           g == [n \in 1..Len(full) |-> Part(K, full[n])]
<1>1. /\ IsFiniteSet(1..Len(packed))
      /\ \A n \in 1..Len(packed) : Part(K, packed[n]) \in Nat /\ Part(K, full[n]) \in Nat BY SeqNat
<1>2. /\ \A n \in 1..Len(packed) : f[n] \in Nat /\ g[n] \in Nat
      /\ \A n \in (1..Len(packed)) \ {m} : g[n] = f[n]
      /\ f[m] = Part(K, packed[m]) /\ g[m] = Part(K, full[m]) BY <1>1
<1> HIDE DEF f, g
<1> DEFINE S == 1..Len(packed)
           x == m
<1>a. /\ IsFiniteSet(S) /\ x \in S /\ \A n \in S : f[n] \in Nat /\ g[n] \in Nat
      /\ \A n \in S \ {x} : g[n] = f[n] BY <1>1, <1>2
<1> HIDE DEF S, x
<1>3. SumFunctionOnSet(g, S) + f[x] = SumFunctionOnSet(f, S) + g[x] BY ONLY <1>a, SumChange
<1> QED BY <1>2, <1>3 DEF f, g, InSeq, S, x

LEMMA PackAmounts ==
  ASSUME NEW K, NEW k \in Categories, NEW packed \in Seq(Stacks(k)), NEW e \in Stacks(k)
  PROVE  LET next == Pack(packed, e, StackLimit(e.item, k)) IN
         /\ InSeq(K, next) = InSeq(K, packed) + Part(K, e)
         /\ Len(next) <= Len(packed) + 1
<1> DEFINE limit == StackLimit(e.item, k)
           previous == Last(packed)
           moved == Min({e.quantity, limit - previous.quantity})
           p == [previous EXCEPT !.quantity = @ + moved]
           d == [e EXCEPT !.quantity = @ - moved]
           full == Front(packed) \o <<p>>
           next == Pack(packed, e, limit)
<1>0. /\ e \in Entry /\ FitsBag(e, k) /\ e.item # 0 /\ packed \in Seq(Entry)
      /\ \A f \in Stacks(k) : f \in Entry /\ FitsBag(f, k) /\ f.item # 0 BY DEF Stacks
<1>a. Len(Append(packed, e)) = Len(packed) + 1 /\ Len(packed) \in Nat OBVIOUS
<1>1. CASE next = Append(packed, e) BY <1>0, <1>1, <1>a, SeqAppend
<1>2. CASE next # Append(packed, e)
  <2>1. k # 0 BY <1>2, PackFits
  <2>2. packed # <<>> BY <1>2 DEF Pack
  <2>3. /\ Len(packed) \in Nat \ {0} /\ previous = packed[Len(packed)] /\ previous \in Stacks(k)
        /\ Front(packed) \in Seq(Stacks(k)) /\ Len(Front(packed)) = Len(packed) - 1
        /\ \A n \in 1..(Len(packed) - 1) : Front(packed)[n] = packed[n] BY <2>2, FrontIs
  <2>4. /\ previous.item = e.item
        /\ next = IF moved = e.quantity THEN full ELSE Append(full, d) BY <1>2, <2>2 DEF Pack
  <2>5. /\ previous \in Entry /\ FitsBag(previous, k) /\ previous.item # 0 BY <1>0, <2>3
  <2>6. /\ e.instance = 0 /\ previous.instance = 0 /\ e.item \in Nat /\ limit = Limit[k]
        /\ limit \in Nat \ {0} /\ e.quantity \in 1..limit /\ previous.quantity \in 1..limit
    BY <1>0, <2>1, <2>5, EntryFits, Catalog
  <2> HIDE DEF limit, previous, next
  <2>7. moved \in Nat /\ moved <= e.quantity
    <3>1. e.quantity \in Nat /\ limit - previous.quantity \in Nat BY <2>6
    <3>2. moved = IF e.quantity <= limit - previous.quantity THEN e.quantity
                  ELSE limit - previous.quantity BY <3>1 DEF Min
    <3> HIDE DEF moved
    <3> QED BY <3>1, <3>2
  <2> HIDE DEF moved
  <2>8. /\ p = [item |-> e.item, quantity |-> previous.quantity + moved, instance |-> 0]
        /\ d = [item |-> e.item, quantity |-> e.quantity - moved, instance |-> 0]
    BY <1>0, <2>4, <2>5, <2>6 DEF Entry
  <2> HIDE DEF p, d
  <2>a. previous.quantity + moved \in Nat /\ e.quantity - moved \in Nat BY <2>6, <2>7
  <2>9. p \in Entry /\ d \in Entry BY <2>6, <2>8, <2>a DEF Entry
  <2> DEFINE w == IF <<e.item, 0>> \in K THEN moved ELSE 0
             was == InSeq(K, packed)
             filled == InSeq(K, full)
             piece == Part(K, e)
             rest == Part(K, d)
             before == Part(K, previous)
             after == Part(K, p)
  <2>10. /\ after = before + w /\ rest + w = piece /\ w \in Nat /\ before \in Nat /\ after \in Nat
         /\ piece \in Nat /\ rest \in Nat /\ (moved = e.quantity => w = piece)
    <3>1. /\ after = IF <<e.item, 0>> \in K THEN previous.quantity + moved ELSE 0
          /\ rest = IF <<e.item, 0>> \in K THEN e.quantity - moved ELSE 0 BY <2>8 DEF Part
    <3>2. /\ before = IF <<e.item, 0>> \in K THEN previous.quantity ELSE 0
          /\ piece = IF <<e.item, 0>> \in K THEN e.quantity ELSE 0 BY <2>4, <2>6 DEF Part
    <3>3. e.quantity \in Nat /\ previous.quantity \in Nat BY <2>6
    <3> HIDE DEF after, rest, before, piece, p, d
    <3> QED BY <2>7, <2>a, <3>1, <3>2, <3>3
  <2>11. /\ full \in Seq(Entry) /\ Len(full) = Len(packed) /\ full[Len(packed)] = p
         /\ \A n \in 1..Len(packed) : n # Len(packed) => full[n] = packed[n]
    <3>1. Front(packed) \in Seq(Entry) BY <2>3 DEF Stacks
    <3> QED BY <2>3, <2>9, <3>1
  <2> HIDE DEF full
  <2>12. filled + before = was + after BY <1>0, <2>3, <2>11, SeqLast
  <2>13. filled \in Nat /\ was \in Nat BY <1>0, <2>11, SeqNat
  <2> HIDE DEF w, was, filled, piece, rest, before, after
  <2>c. filled = was + w BY <2>10, <2>12, <2>13
  <2>14. CASE moved = e.quantity
    BY <2>4, <2>10, <2>14, <2>c, <1>a, <2>11 DEF was, filled, next, limit, piece
  <2>15. CASE moved # e.quantity
    <3>1. next = Append(full, d) BY <2>4, <2>15
    <3>2. InSeq(K, next) = InSeq(K, full) + Part(K, d) /\ Len(next) = Len(packed) + 1
      BY <2>9, <2>11, <3>1, SeqAppend
    <3>a. InSeq(K, next) = filled + rest BY <3>2 DEF filled, rest
    <3>3. InSeq(K, next) = was + piece BY <2>10, <2>13, <2>c, <3>a
    <3> QED BY <1>a, <3>2, <3>3 DEF next, limit, was, piece
  <2> QED BY <2>14, <2>15
<1> QED BY <1>1, <1>2

\* Elements that count for nothing can be left out.
LEMMA SumRest ==
  ASSUME NEW f, NEW S, IsFiniteSet(S), NEW T \in SUBSET S, \A x \in S : f[x] \in Nat,
         \A x \in S \ T : f[x] = 0
  PROVE  SumFunctionOnSet(f, S) = SumFunctionOnSet(f, T)
<1> DEFINE G == {U \in SUBSET S : SumFunctionOnSet(f, U) = SumFunctionOnSet(f, U \cap T)}
<1>1. {} \in G OBVIOUS
<1>2. ASSUME NEW U \in SUBSET S, NEW e \in S, U \in G PROVE U \cup {e} \in G
  <2>0. SumFunctionOnSet(f, U) = SumFunctionOnSet(f, U \cap T) BY <1>2
  <2>1. CASE e \in U BY <2>1, <1>2
  <2>2. CASE e \notin U
    <3>1. SumFunctionOnSet(f, U \cup {e}) = f[e] + SumFunctionOnSet(f, U) BY <2>2, SumWith
    <3>2. SumFunctionOnSet(f, U) \in Nat BY SumNat, FS_Subset
    <3>3. CASE e \in T BY <2>2, <3>3, SumWith, <2>0, <3>1
    <3>4. CASE e \notin T
      <4>1. (U \cup {e}) \cap T = U \cap T /\ f[e] = 0 BY <3>4
      <4> DEFINE less == SumFunctionOnSet(f, U)
      <4>2. less \in Nat /\ SumFunctionOnSet(f, U \cup {e}) = 0 + less BY <3>1, <3>2, <4>1
      <4> HIDE DEF less
      <4>3. 0 + less = less BY ONLY <4>2
      <4>4. U \cup {e} \in SUBSET S OBVIOUS
      <4> QED BY <4>1, <2>0, <4>2, <4>3, <4>4 DEF less
    <3> QED BY <3>3, <3>4
  <2> QED BY <2>1, <2>2
<1>3. S \in G
  <2> HIDE DEF G
  <2> QED BY <1>1, <1>2, SetInduction
<1>4. S \cap T = T OBVIOUS
<1> QED BY <1>3, <1>4

\* Counting from zero or from one.
LEMMA SumShift ==
  ASSUME NEW f, NEW g, NEW L \in Nat, \A n \in 1..L : f[n] \in Nat /\ g[n - 1] = f[n]
  PROVE  SumFunctionOnSet(g, 0..(L - 1)) = SumFunctionOnSet(f, 1..L)
<1> DEFINE G == {m \in Nat : m <= L => SumFunctionOnSet(g, 0..(m - 1)) = SumFunctionOnSet(f, 1..m)}
<1>1. 0 \in G BY SumNone
<1>2. ASSUME NEW m \in G PROVE m + 1 \in G
  <2> SUFFICES ASSUME m + 1 <= L
               PROVE  SumFunctionOnSet(g, 0..((m + 1) - 1)) = SumFunctionOnSet(f, 1..(m + 1))
    OBVIOUS
  <2> DEFINE x == m
             y == m + 1
             A == 0..(m - 1)
             B == 1..m
             A1 == 0..((m + 1) - 1)
             B1 == 1..(m + 1)
  <2>1. /\ x \in A1 /\ A1 \ {x} = A /\ y \in B1 /\ B1 \ {y} = B
        /\ IsFiniteSet(A1) /\ IsFiniteSet(B1)
    <3>1. \A a, b \in Int : IsFiniteSet(a..b) BY FS_Interval
    <3>2. (m + 1) - 1 \in Int /\ 0 \in Int /\ 1 \in Int /\ m + 1 \in Int OBVIOUS
    <3>3. IsFiniteSet(A1) /\ IsFiniteSet(B1) BY ONLY <3>1, <3>2
    <3> QED BY <3>3
  <2>2. /\ \A a \in A1 : g[a] \in Nat
        /\ \A b \in B1 : f[b] \in Nat
        /\ g[x] = f[y]
    <3>1. \A a \in A1 : a + 1 \in 1..L /\ (a + 1) - 1 = a OBVIOUS
    <3>2. \A b \in B1 : b \in 1..L OBVIOUS
    <3>3. y \in 1..L /\ y - 1 = x OBVIOUS
    <3> QED BY <3>1, <3>2, <3>3
  <2>3. SumFunctionOnSet(g, A) = SumFunctionOnSet(f, B) BY <1>2
  <2> HIDE DEF x, y, A, B, A1, B1
  <2>4. SumFunctionOnSet(g, A1) = g[x] + SumFunctionOnSet(g, A)
    <3>1. SumFunctionOnSet(g, A1) = g[x] + SumFunctionOnSet(g, A1 \ {x})
      BY ONLY <2>1, <2>2, SumWithout
    <3> QED BY <2>1, <3>1
  <2>5. SumFunctionOnSet(f, B1) = f[y] + SumFunctionOnSet(f, B)
    <3>1. SumFunctionOnSet(f, B1) = f[y] + SumFunctionOnSet(f, B1 \ {y})
      BY ONLY <2>1, <2>2, SumWithout
    <3> QED BY <2>1, <3>1
  <2> QED BY <2>2, <2>3, <2>4, <2>5 DEF A1, B1
<1>3. L \in G
  <2> HIDE DEF G
  <2>1. G \in SUBSET Nat BY DEF G
  <2> QED BY <1>1, <1>2, <2>1, Induction
<1> QED BY <1>3

LEMMA PlacesNat ==
  ASSUME NEW K, NEW bag \in [SlotIds -> Entry], NEW left \in SUBSET SlotIds
  PROVE  /\ IsFiniteSet(left) /\ InPlaces(K, bag, left) \in Nat
         /\ InPlaces(K, bag, {}) = 0
         /\ \A i \in left : InPlaces(K, bag, left) = Part(K, bag[i]) + InPlaces(K, bag, left \ {i})
         /\ (\A i \in SlotIds \ left : bag[i] = Empty) => InPlaces(K, bag, left) = InBag(K, bag)
<1> DEFINE f == [i \in SlotIds |-> Part(K, bag[i])]
<1>1. /\ IsFiniteSet(SlotIds) /\ IsFiniteSet(left)
      /\ \A i \in SlotIds : f[i] \in Nat /\ f[i] = Part(K, bag[i])
      /\ \A i \in SlotIds : bag[i] = Empty => f[i] = 0 BY Finite, FS_Subset, PartNat
<1> HIDE DEF f
<1>2. SumFunctionOnSet(f, left) \in Nat BY <1>1, SumNat
<1> QED BY <1>1, <1>2, SumWithout, SumRest, SumNone DEF InPlaces, InBag, f

LEMMA PackedAmounts ==
  ASSUME NEW K, NEW k \in Categories, NEW bag \in Bags(k)
  PROVE  LET packed == Packed(bag, k) IN
         /\ packed \in Seq(Stacks(k)) /\ Len(packed) <= Slots
         /\ InSeq(K, packed) = InBag(K, bag)
<1> DEFINE H == {acc \in [left : SUBSET SlotIds, packed : Seq(Stacks(k))] :
                   /\ \A i \in acc.left : bag[i] \in Stacks(k)
                   /\ InSeq(K, acc.packed) + InPlaces(K, bag, acc.left) = InBag(K, bag)
                   /\ Len(acc.packed) + Cardinality(acc.left) <= Slots}
           begun == [left |-> {i \in SlotIds : bag[i] # Empty}, packed |-> <<>>]
<1>0. /\ bag \in [SlotIds -> Entry] /\ InBag(K, bag) \in Nat /\ Slots \in Nat
      /\ \A i \in SlotIds : bag[i] # Empty => bag[i] \in Stacks(k)
      /\ \A packed \in Seq(Stacks(k)) : packed \in Seq(Entry)
  BY EntryFits, BagNat, Numbers DEF Bags, Stacks
<1>a. \A T \in SUBSET SlotIds : IsFiniteSet(T) /\ Cardinality(T) \in Nat /\ Cardinality(T) <= Slots
  <2>1. Cardinality(SlotIds) = Slots
    <3>1. Slots - 1 \in Int /\ 0 \in Int /\ ~(0 > Slots - 1) /\ (Slots - 1) - 0 + 1 = Slots
      BY <1>0, RulesAssumption
    <3>2. Cardinality(0..(Slots - 1)) = IF 0 > Slots - 1 THEN 0 ELSE (Slots - 1) - 0 + 1
      <4> DEFINE a == 0
                 b == Slots - 1
      <4>1. a \in Int /\ b \in Int BY <3>1
      <4> HIDE DEF a, b
      <4> QED BY <4>1, FS_Interval DEF a, b
    <3> QED BY <3>1, <3>2 DEF SlotIds
  <2> QED BY <2>1, Finite, FS_Subset, FS_CardinalityType
<1>1. begun \in H
  <2>1. begun.left \in SUBSET SlotIds /\ begun.packed = <<>> /\ \A i \in SlotIds \ begun.left : bag[i] = Empty
    OBVIOUS
  <2>2. \A i \in begun.left : bag[i] \in Stacks(k) BY <1>0
  <2>3. InPlaces(K, bag, begun.left) = InBag(K, bag) BY <1>0, <2>1, PlacesNat
  <2>4. InSeq(K, <<>>) = 0 BY SumNone DEF InSeq
  <2> DEFINE none == <<>>
             packedNone == InSeq(K, none)
             taken == begun.left
             old == InPlaces(K, bag, taken)
             whole == InBag(K, bag)
             many == Cardinality(taken)
             long == Len(none)
  <2>5. begun = [left |-> taken, packed |-> none] /\ none \in Seq(Stacks(k)) /\ taken \in SUBSET SlotIds
        /\ \A i \in taken : bag[i] \in Stacks(k) BY <2>1, <2>2
  <2>6. packedNone = 0 /\ old = whole /\ whole \in Nat /\ many \in Nat /\ many <= Slots /\ long = 0
    BY <1>0, <2>3, <2>4, <1>a, <2>1
  <2> HIDE DEF begun, packedNone, taken, old, whole, many, long, none
  <2> QED BY <2>5, <1>0, <2>6 DEF packedNone, old, whole, many, long
<1>2. ASSUME NEW acc \in H
      PROVE  LET next == PackNext(bag, k, acc) IN
             /\ next \in H
             /\ acc.left # {} => Cardinality(next.left) + 1 = Cardinality(acc.left)
             /\ acc.left = {} => next = acc
  <2> DEFINE i == NextOf(bag, acc.left)
             e == bag[i]
             packed == Pack(acc.packed, e, StackLimit(e.item, k))
             left == acc.left \ {i}
  <2>0. /\ acc.left \in SUBSET SlotIds /\ acc.packed \in Seq(Stacks(k))
        /\ \A j \in acc.left : bag[j] \in Stacks(k)
        /\ InSeq(K, acc.packed) + InPlaces(K, bag, acc.left) = InBag(K, bag)
        /\ Len(acc.packed) + Cardinality(acc.left) <= Slots OBVIOUS
  <2>1. CASE acc.left = {} BY <1>2, <2>1 DEF PackNext
  <2>2. CASE acc.left # {}
    <3>1. PackNext(bag, k, acc) = [left |-> left, packed |-> packed] BY <2>2 DEF PackNext
    <3>2. i \in acc.left BY <2>0, <2>2, NextIn
    <3> HIDE DEF i
    <3>3. e \in Stacks(k) /\ e \in Entry BY <2>0, <3>2 DEF Stacks
    <3> HIDE DEF e, H
    <3>4. /\ packed \in Seq(Stacks(k)) /\ InSeq(K, packed) = InSeq(K, acc.packed) + Part(K, e)
          /\ Len(packed) <= Len(acc.packed) + 1 BY <2>0, <3>3, PackFits, PackAmounts
    <3> HIDE DEF packed
    <3>5. Cardinality(left) + 1 = Cardinality(acc.left) /\ left \in SUBSET SlotIds
      <4>1. IsFiniteSet(acc.left) /\ Cardinality(acc.left) \in Nat BY <1>a, <2>0
      <4>2. Cardinality(left) = Cardinality(acc.left) - 1 BY <3>2, <4>1, FS_RemoveElement
      <4> QED BY <2>0, <4>1, <4>2
    <3>6. InPlaces(K, bag, acc.left) = Part(K, e) + InPlaces(K, bag, left)
      BY <1>0, <2>0, <3>2, PlacesNat DEF e
    <3> HIDE DEF left
    <3>7. /\ InPlaces(K, bag, left) \in Nat /\ Part(K, e) \in Nat /\ InSeq(K, acc.packed) \in Nat
      BY <1>0, <2>0, <3>3, <3>5, PlacesNat, PartNat, SeqNat
    <3> DEFINE was == InSeq(K, acc.packed)
               now == InSeq(K, packed)
               rest == InPlaces(K, bag, left)
               old == InPlaces(K, bag, acc.left)
               piece == Part(K, e)
    <3>8. now + rest = InBag(K, bag)
      <4>1. was + old = InBag(K, bag) /\ now = was + piece /\ old = piece + rest
            /\ rest \in Nat /\ piece \in Nat /\ was \in Nat BY <2>0, <3>4, <3>6, <3>7
      <4> HIDE DEF was, now, rest, old, piece
      <4> QED BY <4>1
    <3>9. \A j \in left : bag[j] \in Stacks(k) BY <2>0 DEF left
    <3> QED BY <2>2, <3>1, <3>5, <3>4, <3>8, <1>a, <2>0, <1>0, <3>9 DEF H
  <2> QED BY <2>1, <2>2
<1> HIDE DEF H
<1>3. PICK f \in [0..Slots -> H] : PackRule(f, bag, k) /\ Packed(bag, k) = f[Slots].packed
  BY <1>2, <1>1, PackedRuns
<1>4. \A n \in 0..Slots : f[n].left \in SUBSET SlotIds BY <1>3 DEF H
<1> DEFINE G == {n \in Nat : n <= Slots => Cardinality(f[n].left) <= Slots - n}
<1>5. 0 \in G BY <1>0, <1>4, <1>a
<1>6. ASSUME NEW n \in G PROVE n + 1 \in G
  <2> SUFFICES ASSUME n + 1 <= Slots PROVE Cardinality(f[n + 1].left) <= Slots - (n + 1) OBVIOUS
  <2>1. n \in Nat /\ n \in 0..Slots /\ n + 1 \in 0..Slots /\ n + 1 \in 1..Slots /\ (n + 1) - 1 = n
    BY <1>0
  <2>2. f[n + 1] = PackNext(bag, k, f[n]) BY <1>3, <2>1 DEF PackRule
  <2> DEFINE acc == f[n]
             next == f[n + 1]
  <2>3. acc \in H /\ next = PackNext(bag, k, acc) /\ Cardinality(acc.left) <= Slots - n
        /\ Cardinality(acc.left) \in Nat /\ Cardinality(next.left) \in Nat
    BY <1>3, <1>4, <1>6, <1>a, <2>1, <2>2
  <2> HIDE DEF acc
  <2>4. CASE acc.left = {} BY <1>2, <2>3, <2>4, FS_EmptySet, <1>0, <2>1
  <2>5. CASE acc.left # {} BY <1>2, <2>3, <2>5, <1>0, <2>1
  <2> QED BY <2>4, <2>5
<1>7. Slots \in G
  <2> HIDE DEF G
  <2>1. G \in SUBSET Nat BY DEF G
  <2> QED BY <1>0, <1>5, <1>6, <2>1, Induction
<1> DEFINE end == f[Slots]
<1>8. end \in H /\ end.left = {} BY <1>0, <1>4, <1>7, <1>a, <1>3, FS_EmptySet
<1> HIDE DEF end
<1>9. /\ end.packed \in Seq(Stacks(k)) /\ InSeq(K, end.packed) + InPlaces(K, bag, {}) = InBag(K, bag)
      /\ Len(end.packed) + Cardinality({}) <= Slots BY <1>8 DEF H
<1>10. Packed(bag, k) = end.packed BY <1>3 DEF end
<1> QED BY <1>9, <1>0, SeqNat, PlacesNat, FS_EmptySet, <1>10

LEMMA SortTotal ==
  ASSUME NEW K, NEW s \in Good, NEW r, r.category \in Categories
  PROVE  Total(K, Sort(s, r).state) = Total(K, s)
<1> DEFINE k == r.category
           packed == Packed(s.entries[k], k)
           bag == [i \in SlotIds |-> IF i < Len(packed) THEN packed[i + 1] ELSE Empty]
           t == Sort(s, r).state
<1>1. s \in Inventory /\ t \in Inventory /\ s.entries[k] \in Bags(k) /\ s.entries[k] \in [SlotIds -> Entry]
  BY GoodParts, SortKeeps DEF Kept, Bags
<1>2. t = [s EXCEPT !.entries[k] = bag] BY DEF Sort, Reply
<1>3. /\ packed \in Seq(Stacks(k)) /\ Len(packed) <= Slots /\ InSeq(K, packed) = InBag(K, s.entries[k])
  BY <1>1, PackedAmounts
<1> HIDE DEF packed, t
<1>4. /\ Len(packed) \in Nat /\ packed \in Seq(Entry)
      /\ \A i \in SlotIds : i < Len(packed) => i + 1 \in 1..Len(packed) /\ packed[i + 1] \in Entry
  BY <1>3, Numbers DEF Stacks
<1>5. bag \in [SlotIds -> Entry] BY <1>4, EmptyFits
<1>6. t.entries[k] = bag /\ OtherBags(s, t, k) /\ t.equipped = s.equipped
  <2> HIDE DEF bag
  <2> QED BY <1>1, <1>2 DEF Inventory, OtherBags
<1>7. InBag(K, bag) = InSeq(K, packed)
  <2> DEFINE L == Len(packed)
             T == 0..(L - 1)
             f == [n \in 1..L |-> Part(K, packed[n])]
             g == [i \in SlotIds |-> Part(K, bag[i])]
  <2>1. L \in Nat /\ L <= Slots /\ T \in SUBSET SlotIds /\ \A n \in 1..L : n - 1 \in T /\ (n - 1) + 1 = n
    BY <1>3, <1>4, Numbers DEF SlotIds
  <2>2. \A i \in SlotIds : g[i] \in Nat BY <1>5, PartNat
  <2>3. \A i \in SlotIds \ T : g[i] = 0
    <3>1. \A i \in SlotIds \ T : bag[i] = Empty BY <2>1, Numbers
    <3> HIDE DEF bag
    <3> QED BY <3>1, PartNat, EmptyFits
  <2>4. \A n \in 1..L : f[n] \in Nat /\ g[n - 1] = f[n]
    <3> SUFFICES ASSUME NEW n \in 1..L PROVE f[n] \in Nat /\ g[n - 1] = f[n] OBVIOUS
    <3>1. g[n - 1] = Part(K, packed[n]) /\ f[n] = Part(K, packed[n]) BY <2>1, Numbers
    <3> QED BY <1>4, <3>1, SeqNat
  <2> HIDE DEF T, f, g, bag
  <2>5. SumFunctionOnSet(g, SlotIds) = SumFunctionOnSet(g, T) BY <2>1, <2>2, <2>3, Finite, SumRest
  <2> HIDE DEF L
  <2> QED BY <2>5, <2>1, <2>4, SumShift DEF InBag, InSeq, f, g, L, T
<1> HIDE DEF bag
<1> QED BY <1>1, <1>3, <1>7, <1>6, BagReplaced, TotalNat DEF t

-----------------------------------------------------------------------------
(* The amounts after a request, a hit, a revival and a pickup.                *)

\* The mesos stay, the revision moves on at most by one and not from the last, and
\* of what is in K so much has gone and so much has come.
Turned(K, s, t, lost, won) ==
  /\ t.mesos = s.mesos /\ t.revision \in {s.revision, s.revision + 1}
  /\ t.revision # s.revision => s.revision < MaxRevision
  /\ Total(K, t) + lost = Total(K, s) + won

\* What a successful request takes: the potion that is used.
Eats(K, s, r) == IF r.operation = "Use" THEN Piece(K, s.entries[1][r.source].item) ELSE 0

LEMMA ApplyTurned ==
  ASSUME NEW K, NEW s \in Inventory, NEW r \in Requests, Validate(s), Apply(s, r).result = "Success"
  PROVE  /\ Turned(K, s, Apply(s, r).state, Eats(K, s, r), 0)
         /\ r.operation = "Use" => s.entries[1][r.source].item \in Items
<1>1. s \in Good BY DEF Good, Validate
<1>2. CASE r.operation = "Refresh" BY <1>2 DEF Apply, Reply, Turned, Eats
<1>3. CASE r.operation # "Refresh"
  <2> DEFINE reply == Operate(s, r)
             t == reply.state
             item == s.entries[1][r.source].item
  <2>1. r.operation \in Operations BY <1>3 DEF Requests, Refresh
  <2>2. r.category \in Categories /\ r.source \in SlotIds /\ r.target \in SlotIds
        /\ Apply(s, r) = IF Changed(s, t) THEN [reply EXCEPT !.state.revision = @ + 1] ELSE reply
    BY <1>3 DEF Apply, Reply
  <2>3. Kept(s, t) BY <1>1, <2>1, <2>2, OperateKeeps
  <2>4. reply = [result |-> reply.result, state |-> t] /\ reply.result = "Success"
    <3>1. reply = [result |-> reply.result, state |-> t]
      BY <2>1 DEF Reply, Operations, Operate, Equip, Unequip, Move, Sort, Use
    <3> HIDE DEF reply, t
    <3>2. Apply(s, r).result = reply.result BY <2>2, <3>1
    <3> QED BY <3>1, <3>2
  <2>5. /\ Total(K, t) + Eats(K, s, r) = Total(K, s)
        /\ r.operation = "Use" => item \in Items
    <3>0. Total(K, s) + 0 = Total(K, s) BY <1>1, GoodParts, TotalNat
    <3>1. CASE r.operation = "Equip" BY <1>1, <2>2, <3>0, <3>1, EquipTotal DEF Operate, Eats
    <3>2. CASE r.operation = "Unequip" BY <1>1, <2>2, <3>0, <3>2, UnequipTotal DEF Operate, Eats
    <3>3. CASE r.operation = "Move" BY <1>1, <2>2, <3>0, <3>3, MoveTotal DEF Operate, Eats
    <3>4. CASE r.operation = "Sort" BY <1>1, <2>2, <3>0, <3>4, SortTotal DEF Operate, Eats
    <3>5. CASE r.operation = "Use"
      <4>1. reply = Use(s, r) BY <3>5 DEF Operate
      <4> HIDE DEF reply
      <4> QED BY <1>1, <2>2, <2>4, <3>5, <4>1, UseTotal DEF Eats
    <3> QED BY <2>1, <3>1, <3>2, <3>3, <3>4, <3>5 DEF Operations
  <2> HIDE DEF reply, t
  <2> DEFINE u == Apply(s, r).state
  <2>6. u.mesos = t.mesos /\ u.revision \in {t.revision, t.revision + 1} /\ u.entries = t.entries
        /\ u.equipped = t.equipped
    <3>1. t \in Inventory BY <2>3, GoodParts DEF Kept
    <3>2. CASE Changed(s, t)
      <4>1. u = [t EXCEPT !.revision = t.revision + 1] BY <2>2, <2>4, <3>2
      <4> HIDE DEF u
      <4> QED BY <3>1, <4>1 DEF Inventory
    <3>3. CASE ~Changed(s, t) BY <2>2, <2>4, <3>3
    <3> QED BY <3>2, <3>3
  <2> HIDE DEF u
  <2>7. Total(K, u) = Total(K, t) BY <2>6, TotalSame
  <2>8. Total(K, s) + 0 = Total(K, s) BY <1>1, GoodParts, TotalNat
  <2>9. s.revision < MaxRevision
    <3>1. s.revision \in 1..(MaxRevision - 1) BY DEF Validate
    <3> QED BY <3>1, Numbers
  <2> QED BY <2>3, <2>5, <2>6, <2>7, <2>8, <2>9 DEF Turned, Kept, u
<1> QED BY <1>2, <1>3

LEMMA HealthTurned ==
  ASSUME NEW K, NEW s \in Good, NEW t, NEW h, NEW n \in {s.revision, s.revision + 1},
         Health(s, t, h, n), s.revision < MaxRevision
  PROVE  Turned(K, s, t, 0, 0)
BY GoodParts, TotalSame DEF Health, Inventory, Turned

LEMMA PickupTurned ==
  ASSUME NEW K, NEW s \in Good, NEW item \in Items, NEW quantity \in Nat,
         Pickup(s, item, quantity).result = "Success", s.revision < MaxRevision
  PROVE  Turned(K, s, Pickup(s, item, quantity).state, 0, Worth(K, item, 0, quantity))
<1> DEFINE k == CategoryOf(item)
           put == Filled(s, k, item, quantity)
           t == Pickup(s, item, quantity).state
<1>1. k \in {1, 3} /\ item \in ItemsOf(k) /\ k \in Categories
  <2>1. k # -1 BY DEF Pickup, Reply
  <2>2. k \in {1, 3} /\ item \in ItemsOf(k) BY <2>1 DEF CategoryOf, ItemsOf
  <2>3. PICK c \in Categories : item \in ItemsOf(c) BY DEF Items
  <2>4. c = k
    <3>1. c \in 0..4 BY <2>3, Catalog
    <3>2. item \in ItemsOf(c) BY <2>3
    <3> HIDE DEF k
    <3> QED BY <2>2, <3>1, <3>2 DEF ItemsOf
  <2> QED BY <2>2, <2>3, <2>4
<1>2. put.left = 0 /\ put \in Filling(k) /\ s.entries[k] \in Bags(k)
  <2>1. s.entries[k] \in Bags(k) BY <1>1, GoodParts
  <2>2. put \in Filling(k) BY <1>1, <2>1, DepositFits DEF Filled
  <2>3. ~(put.left > 0) BY DEF Pickup, Reply
  <2> QED BY <2>1, <2>2, <2>3 DEF Filling
<1> DEFINE limit == StackLimit(item, k)
           bag == put.bag
<1>3. InBag(K, bag) + Worth(K, item, 0, 0) = InBag(K, s.entries[k]) + Worth(K, item, 0, quantity)
  <2>1. put = Deposit(s.entries[k], item, 0, quantity, limit) BY DEF Filled
  <2> HIDE DEF put, limit
  <2> QED BY <1>1, <1>2, <2>1, DepositAmounts DEF limit
<1>4. t = [s EXCEPT !.entries[k] = bag, !.revision = @ + 1] BY DEF Pickup, Reply
<1>5. bag \in Bags(k) /\ s \in Inventory BY <1>2, GoodParts DEF Filling
<1> HIDE DEF k, put, t
<1>6. /\ t.mesos = s.mesos /\ t.revision = s.revision + 1 /\ t.equipped = s.equipped
      /\ t.entries[k] = bag /\ OtherBags(s, t, k) /\ t \in Inventory
  <2> HIDE DEF bag
  <2>1. t \in Inventory BY PickupFollows, GoodParts DEF Follows, t
  <2> QED BY <1>4, <1>5, <1>1, <2>1 DEF Inventory, OtherBags
<1>7. Total(K, t) + 0 = Total(K, s) + Worth(K, item, 0, quantity)
  <2> DEFINE w == Worth(K, item, 0, quantity)
  <2>1. Worth(K, item, 0, 0) = 0 /\ w \in Nat BY DEF Worth
  <2>2. InBag(K, t.entries[k]) + 0 = InBag(K, s.entries[k]) + w BY <1>3, <1>6, <2>1
  <2> HIDE DEF w
  <2> QED BY <1>1, <1>5, <1>6, <2>1, <2>2, BagReplaced DEF w
<1> QED BY <1>6, <1>7 DEF Turned, t

\* What a mutation gives.
Brings(K, m) == IF m.kind = "pickup" THEN Worth(K, m.item, 0, m.quantity) ELSE 0

LEMMA MutateTurned ==
  ASSUME NEW K, NEW s \in Inventory, NEW m \in Mutations, Mutate(s, m).result = "Success"
  PROVE  Turned(K, s, Mutate(s, m).state, 0, Brings(K, m))
<1>0. s \in Good /\ Validate(s) BY DEF Good, Validate, Mutate, Reply
<1>1. s \in Good /\ Validate(s) /\ s.revision < MaxRevision
  <2>1. s.revision \in 1..(MaxRevision - 1) BY <1>0 DEF Validate
  <2> QED BY <1>0, <2>1, Numbers
<1>2. CASE m.kind = "damage"
  <2> DEFINE left == IF s.hp > m.damage THEN s.hp - m.damage ELSE 0
             n == IF left = s.hp THEN s.revision ELSE s.revision + 1
             t == Damage(s, m.damage).state
  <2>1. Health(s, t, left, n) /\ n \in {s.revision, s.revision + 1}
    BY <1>1, GoodParts DEF Damage, Reply, Inventory, Health
  <2> HIDE DEF left, n, t
  <2>2. Turned(K, s, t, 0, 0) BY <1>1, <2>1, HealthTurned
  <2> QED BY <1>1, <1>2, <2>2 DEF Mutate, Brings, t
<1>3. CASE m.kind = "revive"
  <2> DEFINE n == s.revision + 1
             t == Revive(s).state
  <2>1. Revive(s).result = "Success" BY <1>1, <1>3 DEF Mutate
  <2>2. Health(s, t, MaxHp, n) /\ n \in {s.revision, s.revision + 1}
    BY <1>1, <2>1, GoodParts DEF Revive, Reply, Inventory, Health
  <2> HIDE DEF n, t
  <2>3. Turned(K, s, t, 0, 0) BY <1>1, <2>2, HealthTurned
  <2> QED BY <1>1, <1>3, <2>3 DEF Mutate, Brings, t
<1>4. CASE m.kind = "pickup" BY <1>4, <1>1, PickupTurned DEF Mutations, Mutate, Brings
<1> QED BY <1>2, <1>3, <1>4 DEF Mutations

-----------------------------------------------------------------------------
(* The amounts in a trade.                                                    *)

\* A sum over the first places of a sequence grows by one term at a time.
LEMMA SumUpTo ==
  ASSUME NEW f, NEW L \in Nat, \A m \in 1..L : f[m] \in Nat
  PROVE  /\ SumFunctionOnSet(f, 1..0) = 0
         /\ \A n \in 0..L : SumFunctionOnSet(f, 1..n) \in Nat
         /\ \A n \in Nat : n + 1 <= L =>
              SumFunctionOnSet(f, 1..(n + 1)) = f[n + 1] + SumFunctionOnSet(f, 1..n)
<1>1. IsFiniteSet(1..L) /\ \A n \in 0..L : IsFiniteSet(1..n)
  <2>1. \A a, b \in Int : IsFiniteSet(a..b) BY FS_Interval
  <2>2. 1 \in Int /\ L \in Int /\ \A n \in 0..L : n \in Int OBVIOUS
  <2> QED BY ONLY <2>1, <2>2
<1>2. SumFunctionOnSet(f, 1..0) = 0 BY SumNone
<1>3. ASSUME NEW n \in 0..L PROVE SumFunctionOnSet(f, 1..n) \in Nat
  <2> DEFINE S == 1..n
  <2>1. IsFiniteSet(S) /\ \A m \in S : f[m] \in Nat BY <1>1
  <2> HIDE DEF S
  <2>2. SumFunctionOnSet(f, S) \in Nat BY <2>1, SumNat
  <2> QED BY <2>2 DEF S
<1>4. ASSUME NEW n \in Nat, n + 1 <= L
      PROVE  SumFunctionOnSet(f, 1..(n + 1)) = f[n + 1] + SumFunctionOnSet(f, 1..n)
  <2> DEFINE S == 1..L
             T == 1..n
             e == n + 1
  <2>1. IsFiniteSet(S) /\ (\A m \in S : f[m] \in Nat) /\ T \in SUBSET S /\ e \in S \ T
        /\ 1..(n + 1) = T \cup {e} BY <1>1, <1>4
  <2> HIDE DEF S, T, e
  <2>2. SumFunctionOnSet(f, T \cup {e}) = f[e] + SumFunctionOnSet(f, T) BY <2>1, SumWith
  <2> QED BY <2>1, <2>2 DEF T, e
<1> QED BY <1>2, <1>3, <1>4

\* The first n of the offered items.
Worths(K, items) == [m \in 1..Len(items) |-> Part(K, items[m])]
LEMMA OfferSums ==
  ASSUME NEW K, NEW items \in Seq(Offerable)
  PROVE  /\ Len(items) \in Nat /\ InSeq(K, items) = SumFunctionOnSet(Worths(K, items), 1..Len(items))
         /\ \A m \in 1..Len(items) : Part(K, items[m]) \in Nat
         /\ SumFunctionOnSet(Worths(K, items), 1..0) = 0
         /\ \A n \in 0..Len(items) : SumFunctionOnSet(Worths(K, items), 1..n) \in Nat
         /\ \A n \in Nat : n + 1 <= Len(items) =>
              SumFunctionOnSet(Worths(K, items), 1..(n + 1))
                = Part(K, items[n + 1]) + SumFunctionOnSet(Worths(K, items), 1..n)
<1> DEFINE L == Len(items)
           f == Worths(K, items)
<1>1. L \in Nat /\ \A m \in 1..L : f[m] = Part(K, items[m]) /\ f[m] \in Nat
  <2>1. L \in Nat /\ \A m \in 1..L : items[m] \in Offerable OBVIOUS
  <2> QED BY <2>1 DEF Worths, Part, Offerable
<1>2. InSeq(K, items) = SumFunctionOnSet(f, 1..L) BY DEF InSeq, Worths
<1>3. \A n \in Nat : n + 1 <= L => f[n + 1] = Part(K, items[n + 1]) BY <1>1
<1> HIDE DEF f, L
<1> QED BY <1>1, <1>2, <1>3, SumUpTo DEF f, L

LEMMA TakenTotal ==
  ASSUME NEW K, NEW acc \in Taking, NEW o \in Offerable, NEW next \in Taking, TakenFrom(acc, o, next)
  PROVE  Total(K, next.state) + Part(K, o) = Total(K, acc.state)
<1> DEFINE k == o.category
           i == o.slot
           s == acc.state
           t == next.state
           e == s.entries[k][i]
           d == t.entries[k][i]
<1>1. /\ k \in Categories /\ i \in SlotIds /\ s \in Inventory /\ t \in Inventory
      /\ s.entries[k] \in [SlotIds -> Entry] /\ t.entries[k] \in [SlotIds -> Entry]
      /\ s.entries \in [Categories -> [SlotIds -> Entry]]
      /\ t.entries \in [Categories -> [SlotIds -> Entry]]
      /\ e \in Entry /\ d \in Entry /\ o.quantity \in Nat BY DEF Taking, Offerable, Inventory
<1>2. /\ o.quantity \in 1..e.quantity /\ e.item = o.item /\ e.instance = o.instance
      /\ t.equipped = s.equipped
      /\ \A c \in Categories, n \in SlotIds :
           <<c, n>> # <<k, i>> => t.entries[c][n] = s.entries[c][n]
      /\ \/ o.quantity = e.quantity /\ d = Empty
         \/ /\ o.quantity < e.quantity
            /\ d.item = e.item /\ d.instance = e.instance /\ d.quantity = e.quantity - o.quantity
  BY DEF TakenFrom, Place, SameButEntries
<1>3. Part(K, d) + Part(K, o) = Part(K, e)
  <2>0. e.quantity \in Nat BY <1>1 DEF Entry
  <2>1. CASE o.quantity = e.quantity /\ d = Empty
    <3>1. Part(K, d) = 0 BY <2>1, EmptyFits, PartNat
    <3> HIDE DEF d, e
    <3> QED BY <3>1, <1>1, <1>2, <2>1, PartNat DEF Part
  <2>2. CASE /\ o.quantity < e.quantity /\ d.item = e.item /\ d.instance = e.instance
             /\ d.quantity = e.quantity - o.quantity
    <3> HIDE DEF d, e
    <3> QED BY <1>1, <1>2, <2>0, <2>2 DEF Part
  <2> QED BY <1>2, <2>1, <2>2
<1>4. OtherBags(s, t, k)
  <2> SUFFICES ASSUME NEW c \in Categories, c # k PROVE t.entries[c] = s.entries[c] BY DEF OtherBags
  <2>1. \A n \in SlotIds : t.entries[c][n] = s.entries[c][n] BY <1>2
  <2> QED BY <2>1, <1>1
<1>5. \A n \in SlotIds \ {i} : t.entries[k][n] = s.entries[k][n] BY <1>1, <1>2
<1> HIDE DEF k, i, s, t
<1>6. InBag(K, t.entries[k]) + Part(K, e) = InBag(K, s.entries[k]) + Part(K, d)
  <2> DEFINE old == s.entries[k]
             new == t.entries[k]
  <2>1. /\ old \in [SlotIds -> Entry] /\ new \in [SlotIds -> Entry] /\ i \in SlotIds
        /\ \A n \in SlotIds \ {i} : new[n] = old[n] BY <1>1, <1>5
  <2> HIDE DEF old, new
  <2> QED BY <2>1, BagChange DEF old, new
<1> HIDE DEF d, e
<1>7. /\ InBag(K, t.entries[k]) \in Nat /\ InBag(K, s.entries[k]) \in Nat /\ Part(K, d) \in Nat
      /\ Part(K, e) \in Nat /\ Part(K, o) \in Nat BY <1>1, BagNat, PartNat DEF Part
<1>8. InBag(K, t.entries[k]) + Part(K, o) = InBag(K, s.entries[k]) + 0 BY <1>3, <1>6, <1>7
<1> QED BY <1>1, <1>2, <1>4, <1>7, <1>8, BagReplaced, TotalNat DEF s, t

LEMMA TakeAllTotal ==
  ASSUME NEW K, NEW s \in Inventory, NEW items \in Seq(Offerable),
         TakeAll(s, items).result = "Success"
  PROVE  Total(K, TakeAll(s, items).state) + InSeq(K, items) = Total(K, s)
<1>1. PICK f \in [0..Len(items) -> Taking] :
        TakeRule(f, s, items) /\ TakeAll(s, items) = f[Len(items)] BY TakeAllRuns
<1> DEFINE L == Len(items)
           Upto(n) == SumFunctionOnSet(Worths(K, items), 1..n)
           G == {n \in Nat : n <= L /\ f[n].result = "Success" =>
                               Total(K, f[n].state) + Upto(n) = Total(K, s)}
<1>2. L \in Nat /\ \A n \in 1..L : items[n] \in Offerable OBVIOUS
<1>3. /\ InSeq(K, items) = Upto(L) /\ Upto(0) = 0 /\ \A n \in 0..L : Upto(n) \in Nat
      /\ \A m \in 1..L : Part(K, items[m]) \in Nat
      /\ \A n \in Nat : n + 1 <= L => Upto(n + 1) = Part(K, items[n + 1]) + Upto(n) BY OfferSums
<1> HIDE DEF Upto
<1>4. 0 \in G BY <1>1, TotalNat, <1>3 DEF TakeRule
<1>5. ASSUME NEW n \in G PROVE n + 1 \in G
  <2> SUFFICES ASSUME n + 1 <= L, f[n + 1].result = "Success"
               PROVE  Total(K, f[n + 1].state) + Upto(n + 1) = Total(K, s) BY <1>5
  <2> DEFINE acc == f[n]
             next == f[n + 1]
             o == items[n + 1]
  <2>1. n \in Nat /\ n <= L /\ n \in 0..L /\ n + 1 \in 0..L /\ n + 1 \in 1..L /\ (n + 1) - 1 = n
    BY <1>2, <1>5
  <2>2. next = Take(acc, o) /\ acc \in Taking /\ next \in Taking /\ o \in Offerable
    BY <1>1, <1>2, <2>1 DEF TakeRule
  <2>3. TakenFrom(acc, o, next) BY <2>2, TakeIs
  <2>4. acc.result = "Success" BY <2>3 DEF TakenFrom
  <2> DEFINE a == Total(K, acc.state)
             b == Total(K, next.state)
             p == Part(K, o)
             u == Upto(n)
             v == Upto(n + 1)
             w == Total(K, s)
  <2>5. a + u = w BY <1>5, <2>1, <2>4
  <2>6. v = p + u /\ u \in Nat /\ p \in Nat BY <1>3, <2>1
  <2>7. a \in Nat /\ b \in Nat /\ w \in Nat
    <3>1. acc.state \in Inventory /\ next.state \in Inventory BY <2>2 DEF Taking
    <3> HIDE DEF acc, next
    <3> QED BY <3>1, TotalNat
  <2>8. b + p = a BY <2>2, <2>3, TakenTotal
  <2> HIDE DEF a, b, p, u, v, w
  <2>9. b + v = w BY <2>5, <2>6, <2>7, <2>8
  <2> QED BY <2>9 DEF b, v, w
<1>6. L \in G
  <2> HIDE DEF G
  <2>1. G \in SUBSET Nat BY DEF G
  <2> QED BY <1>2, <1>4, <1>5, <2>1, Induction
<1> QED BY <1>1, <1>2, <1>3, <1>6

LEMMA ReceivedTotal ==
  ASSUME NEW K, NEW s \in Inventory, NEW items \in Seq(Offerable), NEW acc \in Receiving,
         Got(s, items, acc), NEW n \in 1..Len(items),
         items[n].instance # 0 <=> items[n].category = 0,
         Receive(acc, items[n]).result = "Success"
  PROVE  /\ acc.result = "Success"
         /\ Total(K, Receive(acc, items[n]).state) = Total(K, acc.state) + Part(K, items[n])
<1> DEFINE o == items[n]
           k == o.category
           limit == StackLimit(o.item, k)
           put == Deposit(acc.state.entries[k], o.item, o.instance, o.quantity, limit)
           next == Receive(acc, o)
<1>1. o \in Offerable /\ k \in Categories /\ o.quantity \in Nat /\ o.instance \in Nat
  <2>1. items[n] \in Offerable OBVIOUS
  <2> QED BY <2>1 DEF Offerable
<1>2. acc = [result |-> acc.result, state |-> acc.state] /\ acc.state \in Inventory BY DEF Receiving
<1>3. acc.result = "Success" BY DEF Receive
<1>4. limit # 0 /\ ~(put.left > 0)
  <2>1. next.result = "Success" OBVIOUS
  <2>2. limit = 0 => next = [acc EXCEPT !.result = "Invalid"] BY <1>3 DEF Receive
  <2>3. limit # 0 /\ put.left > 0 => next = [acc EXCEPT !.result = "Full"] BY <1>3 DEF Receive
  <2> HIDE DEF next, limit, put
  <2> QED BY <1>2, <2>1, <2>2, <2>3
<1>5. next = [acc EXCEPT !.state.entries[k] = put.bag] BY <1>3, <1>4 DEF Receive
<1>6. o.item \in ItemsOf(k) /\ acc.state.entries[k] \in Bags(k) BY <1>1, <1>4 DEF StackLimit, Got
<1>7. put \in Filling(k) BY <1>1, <1>6, DepositFits
<1>8. InBag(K, put.bag) + Worth(K, o.item, o.instance, put.left)
        = InBag(K, acc.state.entries[k]) + Worth(K, o.item, o.instance, o.quantity)
  <2>1. o.instance # 0 <=> k = 0 OBVIOUS
  <2> HIDE DEF k, o
  <2> QED BY <1>1, <1>6, <2>1, DepositAmounts
<1> DEFINE bag == put.bag
           t == [acc.state EXCEPT !.entries[k] = bag]
           w == Part(K, o)
<1>9. bag \in Bags(k) /\ put.left = 0 BY <1>4, <1>7 DEF Filling
<1>10. InBag(K, bag) + 0 = InBag(K, acc.state.entries[k]) + w BY <1>9, <1>8 DEF Worth, Part
<1>11. w \in Nat BY <1>1 DEF Part
<1> HIDE DEF put, bag, next, k, o
<1>12. next.state = t BY <1>2, <1>5 DEF bag
<1>13. Rebag(acc.state, t, k, bag) BY DEF Rebag
<1> HIDE DEF t, w
<1>14. t \in Inventory /\ t.equipped = acc.state.equipped /\ t.entries[k] = bag /\ OtherBags(acc.state, t, k)
  BY <1>1, <1>2, <1>9, <1>13, RebagIs DEF SameButEntries
<1>15. Total(K, t) \in Nat BY <1>14, TotalNat
<1> QED BY <1>3, <1>12, <1>1, <1>2, <1>10, <1>11, <1>14, BagReplaced, <1>15 DEF next, o, w

LEMMA ReceiveAllTotal ==
  ASSUME NEW K, NEW s \in Inventory, \A k \in Categories : s.entries[k] \in Bags(k),
         NEW items \in Seq(Offerable),
         \A n \in 1..Len(items) : items[n].instance # 0 <=> items[n].category = 0,
         ReceiveAll(s, items).result = "Success"
  PROVE  Total(K, ReceiveAll(s, items).state) = Total(K, s) + InSeq(K, items)
<1> DEFINE H == {acc \in Receiving : Got(s, items, acc)}
           L == Len(items)
           Upto(n) == SumFunctionOnSet(Worths(K, items), 1..n)
<1>1. Reply("Success", s) \in H BY DEF Reply, Receiving, Got, SameButEntries
<1>2. \A acc \in H, n \in 1..L : Receive(acc, items[n]) \in H BY ReceiveGot
<1>3. \A acc \in H : acc \in Receiving /\ Got(s, items, acc) /\ acc.state \in Inventory
  BY DEF Receiving
<1> HIDE DEF H
<1>4. PICK f \in [0..L -> H] : ReceiveRule(f, s, items) /\ ReceiveAll(s, items) = f[L]
  BY <1>1, <1>2, ReceiveAllRuns
<1> DEFINE G == {n \in Nat : n <= L /\ f[n].result = "Success" =>
                               Total(K, f[n].state) = Total(K, s) + Upto(n)}
<1>5. L \in Nat OBVIOUS
<1>6. /\ InSeq(K, items) = Upto(L) /\ Upto(0) = 0 /\ \A n \in 0..L : Upto(n) \in Nat
      /\ \A m \in 1..L : Part(K, items[m]) \in Nat
      /\ \A n \in Nat : n + 1 <= L => Upto(n + 1) = Part(K, items[n + 1]) + Upto(n) BY OfferSums
<1> HIDE DEF Upto
<1>7. 0 \in G BY <1>4, TotalNat, <1>6 DEF ReceiveRule, Reply
<1>8. ASSUME NEW n \in G PROVE n + 1 \in G
  <2> SUFFICES ASSUME n + 1 <= L, f[n + 1].result = "Success"
               PROVE  Total(K, f[n + 1].state) = Total(K, s) + Upto(n + 1) BY <1>8
  <2> DEFINE acc == f[n]
             next == f[n + 1]
             m == n + 1
  <2>1. n \in Nat /\ n <= L /\ n \in 0..L /\ m \in 0..L /\ m \in 1..L /\ m - 1 = n BY <1>5, <1>8
  <2>2. next = Receive(acc, items[m]) /\ acc \in H /\ next \in H BY <1>4, <2>1 DEF ReceiveRule
  <2>3. acc.result = "Success" /\ Total(K, next.state) = Total(K, acc.state) + Part(K, items[m])
    <3>1. items[m].instance # 0 <=> items[m].category = 0 BY <2>1
    <3>2. acc \in Receiving /\ Got(s, items, acc) /\ next.result = "Success" BY <1>3, <2>2
    <3> HIDE DEF acc, next, m
    <3> QED BY <2>1, <2>2, <3>1, <3>2, ReceivedTotal
  <2> DEFINE a == Total(K, acc.state)
             b == Total(K, next.state)
             p == Part(K, items[m])
             u == Upto(n)
             v == Upto(m)
             w == Total(K, s)
  <2>4. a = w + u BY <1>8, <2>1, <2>3
  <2>5. v = p + u /\ u \in Nat /\ p \in Nat BY <1>6, <2>1
  <2>6. w \in Nat /\ b = a + p BY <2>3, TotalNat
  <2> HIDE DEF a, b, p, u, v, w
  <2>7. b = w + v BY <2>4, <2>5, <2>6
  <2> QED BY <2>7 DEF b, v, w
<1>9. L \in G
  <2> HIDE DEF G
  <2>1. G \in SUBSET Nat BY DEF G
  <2> QED BY <1>5, <1>7, <1>8, <2>1, Induction
<1> QED BY <1>4, <1>5, <1>6, <1>9

\* Body, hp and mp stay; mesos and pieces are less what is given, and as much
\* more as is got.
Paid(s, t, mesos) == t = [s EXCEPT !.mesos = mesos]
LEMMA PaidIs ==
  ASSUME NEW s \in Inventory, NEW mesos \in Nat, NEW t, Paid(s, t, mesos)
  PROVE  /\ t \in Inventory /\ t.entries = s.entries /\ t.equipped = s.equipped
         /\ t.mesos = mesos /\ t.revision = s.revision /\ t.hp = s.hp /\ t.mp = s.mp
BY DEF Inventory, Paid

SameBody(s, t) == t.hp = s.hp /\ t.mp = s.mp /\ t.equipped = s.equipped

LEMMA WithdrawTotal ==
  ASSUME NEW K, NEW s \in Inventory, NEW offer \in Offers, Withdraw(s, offer).result = "Success"
  PROVE  LET t == Withdraw(s, offer).state IN
         /\ t.mesos + offer.mesos = s.mesos /\ t.revision = s.revision /\ SameBody(s, t)
         /\ Total(K, t) + InSeq(K, offer.items) = Total(K, s)
<1> DEFINE paid == [s EXCEPT !.mesos = @ - offer.mesos]
           items == offer.items
           taken == TakeAll(paid, items)
           left == s.mesos - offer.mesos
<1>1. /\ Validate(s) /\ ~(offer.mesos > s.mesos)
      /\ Withdraw(s, offer) = Reply(taken.result, taken.state) BY DEF Withdraw, Reply
<1>2. items \in Seq(Offerable) /\ offer.mesos \in Nat /\ s.mesos \in Nat BY DEF Offers, Inventory
<1>3. s \in Good BY <1>1 DEF Good, Validate
<1>4. Paid(s, paid, left) /\ left \in Nat /\ left + offer.mesos = s.mesos BY <1>1, <1>2 DEF Paid
<1>5. taken.result = "Success" /\ Withdraw(s, offer).state = taken.state BY <1>1 DEF Reply
<1> HIDE DEF paid, items, left
<1>6. /\ paid \in Inventory /\ paid.entries = s.entries /\ paid.equipped = s.equipped
      /\ paid.mesos = left /\ paid.revision = s.revision /\ paid.hp = s.hp /\ paid.mp = s.mp
  BY <1>4, PaidIs
<1>7. Took(paid, items, Len(items), taken) BY <1>2, <1>3, <1>5, <1>6, GoodParts, TakeAllTook
<1>8. Total(K, taken.state) + InSeq(K, items) = Total(K, paid) BY <1>2, <1>5, <1>6, TakeAllTotal
<1>9. Total(K, paid) = Total(K, s) BY <1>6, TotalSame
<1> DEFINE t == taken.state
<1>10. SameButEntries(paid, t) BY <1>7 DEF Took
<1> HIDE DEF taken
<1> QED BY <1>5, <1>8, <1>9, <1>4, <1>6, <1>10 DEF items, SameButEntries, SameBody

LEMMA DeliverTotal ==
  ASSUME NEW K, NEW t \in Inventory, \A k \in Categories : t.entries[k] \in Bags(k),
         NEW offer \in Offers,
         \A n \in 1..Len(offer.items) : offer.items[n].instance # 0 <=> offer.items[n].category = 0,
         Deliver(t, offer).result = "Success"
  PROVE  LET u == Deliver(t, offer).state IN
         /\ u.mesos = t.mesos + offer.mesos /\ u.mesos <= MaxMesos
         /\ u.revision = t.revision + 1 /\ u.revision < MaxRevision /\ SameBody(t, u)
         /\ Total(K, u) = Total(K, t) + InSeq(K, offer.items)
<1> DEFINE items == offer.items
           sum == t.mesos + offer.mesos
           paid == [t EXCEPT !.mesos = @ + offer.mesos]
           got == ReceiveAll(paid, items)
           next == [got EXCEPT !.state.revision = @ + 1]
           u == Deliver(t, offer).state
<1>1. got.result = "Success" /\ u = next.state /\ ~(t.mesos > MaxMesos - offer.mesos)
  BY DEF Deliver, Reply
<1>0. u.revision < MaxRevision
  <2>1. u.revision \in 1..(MaxRevision - 1)
    <3>1. u = next.state /\ Validate(next.state) BY DEF Deliver, Reply
    <3> QED BY <3>1 DEF Validate
  <2> HIDE DEF u
  <2> QED BY <2>1, Numbers
<1>2. items \in Seq(Offerable) /\ offer.mesos \in Nat /\ t.mesos \in Nat BY DEF Offers, Inventory
<1>3. Paid(t, paid, sum) /\ sum \in Nat /\ sum <= MaxMesos BY <1>1, <1>2, Numbers DEF Paid
<1>4. \A n \in 1..Len(items) : items[n].instance # 0 <=> items[n].category = 0 OBVIOUS
<1> HIDE DEF paid, items, sum
<1>5. /\ paid \in Inventory /\ paid.entries = t.entries /\ paid.equipped = t.equipped
      /\ paid.mesos = sum /\ paid.revision = t.revision /\ paid.hp = t.hp /\ paid.mp = t.mp
  BY <1>3, PaidIs
<1>6. got \in Receiving /\ Got(paid, items, got) BY <1>2, <1>4, <1>5, ReceiveAllGot
<1>7. Total(K, got.state) = Total(K, paid) + InSeq(K, items)
  BY <1>1, <1>2, <1>4, <1>5, ReceiveAllTotal
<1>8. Total(K, paid) = Total(K, t) BY <1>5, TotalSame
<1> DEFINE v == got.state
<1> HIDE DEF got
<1>9. SameButEntries(paid, v) BY <1>6 DEF Got
<1>10. /\ u.mesos = sum /\ u.revision = t.revision + 1 /\ SameBody(t, u)
       /\ u.entries = v.entries /\ u.equipped = v.equipped
  BY <1>1, <1>5, <1>6, <1>9 DEF SameButEntries, SameBody, Inventory, Receiving
<1> HIDE DEF u, v, next
<1>11. Total(K, u) = Total(K, v) BY <1>10, TotalSame
<1> QED BY <1>0, <1>3, <1>7, <1>8, <1>10, <1>11 DEF items, sum, u, v

\* What a trade makes of one side's amounts.
Settled(K, s, given, got, t) ==
  /\ t.mesos + given.mesos = s.mesos + got.mesos /\ t.mesos <= MaxMesos
  /\ t.revision = s.revision + 1 /\ t.revision < MaxRevision /\ SameBody(s, t)
  /\ Total(K, t) + InSeq(K, given.items) = Total(K, s) + InSeq(K, got.items)

LEMMA TradeTotal ==
  ASSUME NEW K, NEW offers, offers[1] \in Offers, offers[2] \in Offers,
         NEW old \in [1..2 -> Inventory], ApplyTrade(offers, old).result = "Success"
  PROVE  \A side \in 1..2 : Settled(K, old[side], offers[side], offers[3 - side],
                                    ApplyTrade(offers, old).states[side])
<1> DEFINE given == [side \in 1..2 |-> Withdraw(old[side], offers[side])]
           got == [side \in 1..2 |-> Deliver(given[side].state, offers[3 - side])]
           done == ApplyTrade(offers, old)
<1>1. /\ FirstFailure(given).result = "Success" /\ FirstFailure(got).result = "Success"
      /\ done.states = [side \in 1..2 |-> got[side].state] BY DEF ApplyTrade
<1>2. \A side \in 1..2 : given[side].result = "Success" /\ got[side].result = "Success"
  <2>1. \A side \in 1..2 : side = 1 \/ side = 2 OBVIOUS
  <2> HIDE DEF given, got
  <2> QED BY <1>1, <2>1 DEF FirstFailure
<1>3. \A side \in 1..2 : given[side] = Withdraw(old[side], offers[side])
                         /\ got[side] = Deliver(given[side].state, offers[3 - side])
                         /\ old[side] \in Inventory
                         /\ 3 - side \in 1..2 /\ offers[side] \in Offers /\ offers[3 - side] \in Offers
  <2>1. \A side \in 1..2 : side = 1 \/ side = 2 OBVIOUS
  <2> QED BY <2>1
<1> HIDE DEF given, got, done
<1>4. \A side \in 1..2 : Gave(old[side], offers[side].items, given[side].state)
  BY <1>2, <1>3, WithdrawIs
<1> SUFFICES ASSUME NEW side \in 1..2
             PROVE  Settled(K, old[side], offers[side], offers[3 - side], done.states[side])
  BY DEF done
<1> DEFINE other == 3 - side
           s == old[side]
           t == given[side].state
           u == got[side].state
           x == offers[side]
           y == offers[other]
<1>5. done.states[side] = u BY <1>1
<1>6. \A n \in 1..Len(y.items) : y.items[n].instance # 0 <=> y.items[n].category = 0
  BY <1>3, <1>4 DEF Gave, Fair
<1>7. /\ s \in Inventory /\ x \in Offers /\ y \in Offers /\ t \in Inventory
      /\ \A k \in Categories : t.entries[k] \in Bags(k)
      /\ Withdraw(s, x).result = "Success" /\ Deliver(t, y).result = "Success"
      /\ t = Withdraw(s, x).state /\ u = Deliver(t, y).state BY <1>2, <1>3, <1>4 DEF Gave
<1> HIDE DEF s, t, u, x, y, other
<1> DEFINE a == Total(K, s)
           b == Total(K, t)
           c == Total(K, u)
           p == InSeq(K, x.items)
           q == InSeq(K, y.items)
<1>8. t.mesos + x.mesos = s.mesos /\ t.revision = s.revision /\ SameBody(s, t) /\ b + p = a
  BY <1>7, WithdrawTotal
<1>9. /\ u.mesos = t.mesos + y.mesos /\ u.mesos <= MaxMesos /\ u.revision = t.revision + 1
      /\ u.revision < MaxRevision /\ SameBody(t, u) /\ c = b + q BY <1>6, <1>7, DeliverTotal
<1>10. b \in Nat /\ p \in Nat /\ q \in Nat BY <1>7, OfferSums, TotalNat DEF Offers
<1>11. t.mesos \in Nat /\ x.mesos \in Nat /\ y.mesos \in Nat BY <1>7 DEF Inventory, Offers
<1> HIDE DEF a, b, c, p, q
<1>12. c + p = a + q BY <1>8, <1>9, <1>10
<1>13. u.mesos + x.mesos = s.mesos + y.mesos BY <1>8, <1>9, <1>11
<1>14. SameBody(s, u) BY <1>8, <1>9 DEF SameBody
<1>15. Settled(K, s, x, y, u) BY <1>8, <1>9, <1>12, <1>13, <1>14 DEF Settled, a, c, p, q
<1> QED BY <1>5, <1>15 DEF s, u, x, y, other

-----------------------------------------------------------------------------
(* All that there is, over all characters: who has no inventory yet counts    *)
(* for the starter that the first request creates.                            *)

All(i) == {i} \X Nat
Has(inv, c) == IF inv[c] = None THEN Starter(1) ELSE inv[c]
Owned(inv, K) == SumFunctionOnSet([c \in Characters |-> Total(K, Has(inv, c))], Characters)
Purse(inv) == SumFunctionOnSet([c \in Characters |-> Has(inv, c).mesos], Characters)
Stored == [Characters -> Good \cup {None}]

LEMMA HasGood ==
  ASSUME NEW inv \in Stored, NEW c \in Characters
  PROVE  /\ IsFiniteSet(Characters)
         /\ Has(inv, c) \in Good /\ Has(inv, c) \in Inventory /\ Has(inv, c).mesos \in Nat
         /\ \A K : Total(K, Has(inv, c)) \in Nat
BY RowsAssumption, StarterGood, GoodParts, TotalNat DEF Stored, Has

\* One character's inventory is replaced.
LEMMA OneOwned ==
  ASSUME NEW K, NEW inv \in Stored, NEW next \in Stored, NEW c \in Characters,
         \A d \in Characters \ {c} : next[d] = inv[d]
  PROVE  /\ Owned(next, K) + Total(K, Has(inv, c)) = Owned(inv, K) + Total(K, Has(next, c))
         /\ Purse(next) + Has(inv, c).mesos = Purse(inv) + Has(next, c).mesos
         /\ Owned(inv, K) \in Nat /\ Owned(next, K) \in Nat /\ Purse(inv) \in Nat /\ Purse(next) \in Nat
<1> DEFINE f == [d \in Characters |-> Total(K, Has(inv, d))]
           g == [d \in Characters |-> Total(K, Has(next, d))]
           p == [d \in Characters |-> Has(inv, d).mesos]
           q == [d \in Characters |-> Has(next, d).mesos]
<1>1. /\ IsFiniteSet(Characters)
      /\ \A d \in Characters : f[d] \in Nat /\ g[d] \in Nat /\ p[d] \in Nat /\ q[d] \in Nat
  BY HasGood
<1>2. \A d \in Characters \ {c} : g[d] = f[d] /\ q[d] = p[d] BY DEF Has
<1> DEFINE F == SumFunctionOnSet(f, Characters)
           H == SumFunctionOnSet(g, Characters)
           P == SumFunctionOnSet(p, Characters)
           Q == SumFunctionOnSet(q, Characters)
<1>a. F = Owned(inv, K) /\ H = Owned(next, K) /\ P = Purse(inv) /\ Q = Purse(next)
      /\ f[c] = Total(K, Has(inv, c)) /\ g[c] = Total(K, Has(next, c))
      /\ p[c] = Has(inv, c).mesos /\ q[c] = Has(next, c).mesos BY DEF Owned, Purse
<1> HIDE DEF f, g, p, q
<1>3. H + f[c] = F + g[c] BY <1>1, <1>2, SumChange
<1>4. Q + p[c] = P + q[c] BY <1>1, <1>2, SumChange
<1> QED BY <1>3, <1>4, <1>1, SumNat, <1>a

\* The starters differ in their gear's instances only.
LEMMA StarterAmounts ==
  ASSUME NEW n \in Nat \ {0}, NEW i
  PROVE  Total(All(i), Starter(n)) = Total(All(i), Starter(1)) /\ Starter(n).mesos = StarterPack.mesos
         /\ Starter(n).revision = 1
<1> DEFINE K == All(i)
           s == Starter(n)
           t == Starter(1)
<1>1. s \in Good /\ t \in Good /\ s.equipped = t.equipped BY StarterGood
<1>2. s.mesos = StarterPack.mesos /\ s.revision = 1 BY DEF Starter
<1>3. \A k \in Categories, j \in SlotIds :
        /\ s.entries[k][j].item = t.entries[k][j].item
        /\ s.entries[k][j].quantity = t.entries[k][j].quantity
  <2>1. \A k \in Categories, j \in SlotIds : s.entries[k][j] =
          IF k = 0 THEN IF j < 2 THEN Gear(j + 1, n + j) ELSE Empty ELSE StarterPack.entries[k][j]
    BY DEF Starter
  <2>2. \A k \in Categories, j \in SlotIds : t.entries[k][j] =
          IF k = 0 THEN IF j < 2 THEN Gear(j + 1, 1 + j) ELSE Empty ELSE StarterPack.entries[k][j]
    BY DEF Starter
  <2> HIDE DEF s, t
  <2> SUFFICES ASSUME NEW k \in Categories, NEW j \in SlotIds
               PROVE  /\ s.entries[k][j].item = t.entries[k][j].item
                      /\ s.entries[k][j].quantity = t.entries[k][j].quantity OBVIOUS
  <2>3. CASE k = 0 /\ j < 2
    <3>1. s.entries[k][j] = Gear(j + 1, n + j) /\ t.entries[k][j] = Gear(j + 1, 1 + j)
      BY <2>1, <2>2, <2>3
    <3> QED BY <3>1 DEF Gear
  <2>4. CASE ~(k = 0 /\ j < 2) BY <2>1, <2>2, <2>4
  <2> QED BY <2>3, <2>4
<1> HIDE DEF s, t
<1>4. s.entries \in [Categories -> [SlotIds -> Entry]] /\ t.entries \in [Categories -> [SlotIds -> Entry]]
  BY <1>1, GoodParts
<1>5. ASSUME NEW k \in Categories, NEW j \in SlotIds
      PROVE  /\ Part(K, s.entries[k][j]) \in Nat
             /\ Part(K, s.entries[k][j]) = Part(K, t.entries[k][j])
  <2> DEFINE e == s.entries[k][j]
             d == t.entries[k][j]
  <2>1. e \in Entry /\ d \in Entry /\ e.item = d.item /\ e.quantity = d.quantity BY <1>3, <1>4
  <2> HIDE DEF e, d
  <2>2. e.instance \in Nat /\ d.instance \in Nat BY <2>1 DEF Entry
  <2>3. Part(K, e) = Part(K, d) BY <2>1, <2>2 DEF Part, All
  <2>4. Part(K, e) \in Nat BY <2>1, PartNat
  <2> QED BY <2>3, <2>4 DEF e, d
<1>6. ASSUME NEW k \in Categories
      PROVE  InBag(K, s.entries[k]) \in Nat /\ InBag(K, s.entries[k]) = InBag(K, t.entries[k])
  <2> DEFINE f == [j \in SlotIds |-> Part(K, s.entries[k][j])]
             g == [j \in SlotIds |-> Part(K, t.entries[k][j])]
  <2>1. \A j \in SlotIds : f[j] \in Nat /\ g[j] = f[j] BY <1>5
  <2> HIDE DEF f, g
  <2> QED BY <2>1, Finite, SumSame, SumNat DEF InBag, f, g
<1>7. InBags(K, s) = InBags(K, t)
  <2> DEFINE f == [k \in Categories |-> InBag(K, s.entries[k])]
             g == [k \in Categories |-> InBag(K, t.entries[k])]
  <2>1. \A k \in Categories : f[k] \in Nat /\ g[k] = f[k] BY <1>6
  <2> HIDE DEF f, g
  <2> QED BY <2>1, Finite, SumSame DEF InBags, f, g
<1>8. OnBody(K, s) = OnBody(K, t) BY <1>1 DEF OnBody
<1> QED BY <1>2, <1>7, <1>8 DEF Total, s, t

\* What is in a place counts.
LEMMA InPlace ==
  ASSUME NEW K, NEW s \in Inventory, NEW k \in Categories, NEW i \in SlotIds
  PROVE  Part(K, s.entries[k][i]) <= Total(K, s)
<1> DEFINE bag == s.entries[k]
           f == [j \in SlotIds |-> Part(K, bag[j])]
           g == [c \in Categories |-> InBag(K, s.entries[c])]
<1>1. bag \in [SlotIds -> Entry] /\ \A c \in Categories : g[c] \in Nat BY TotalNat DEF Inventory
<1>2. \A j \in SlotIds : f[j] \in Nat BY <1>1, PartNat
<1>3. f[i] = Part(K, bag[i]) /\ g[k] = InBag(K, bag) OBVIOUS
<1> HIDE DEF f, g, bag
<1>4. f[i] <= SumFunctionOnSet(f, SlotIds) BY <1>2, Finite, SumPart
<1>5. g[k] <= SumFunctionOnSet(g, Categories) BY <1>1, Finite, SumPart
<1>6. SumFunctionOnSet(f, SlotIds) = InBag(K, bag) /\ SumFunctionOnSet(g, Categories) = InBags(K, s)
  BY DEF InBag, InBags, f, g
<1>7. InBags(K, s) \in Nat /\ OnBody(K, s) \in Nat /\ Total(K, s) = InBags(K, s) + OnBody(K, s)
  BY TotalNat DEF Total
<1>8. f[i] \in Nat /\ g[k] \in Nat BY <1>1, <1>2
<1> DEFINE x == f[i]
           y == g[k]
           z == InBags(K, s)
           b == OnBody(K, s)
           w == Total(K, s)
<1>9. x <= y /\ y <= z /\ w = z + b /\ x \in Nat /\ y \in Nat /\ z \in Nat /\ b \in Nat
  BY <1>3, <1>4, <1>5, <1>6, <1>7, <1>8
<1> HIDE DEF x, y, z, b, w
<1>10. x <= w BY <1>9
<1> QED BY <1>3, <1>10 DEF x, w, bag

\* What counts is in a place.
LEMMA Somewhere ==
  ASSUME NEW s \in Good, NEW m, NEW n \in Nat \ {0}, NEW K, K = {<<m, n>>}, Total(K, s) > 0
  PROVE  \E p \in Places : At(s, p).instance = n /\ At(s, p).item = m
<1> SUFFICES ASSUME \A p \in Places : ~(At(s, p).instance = n /\ At(s, p).item = m)
             PROVE  FALSE OBVIOUS
<1>1. /\ s \in Inventory /\ s.entries \in [Categories -> [SlotIds -> Entry]]
      /\ \A k \in Categories, i \in SlotIds : FitsBag(s.entries[k][i], k)
  BY GoodParts DEF WellFormed
<1>2. \A w \in WornSlots : Part(K, s.equipped[w]) = 0
  <2>1. \A w \in WornSlots : <<"worn", w>> \in Places /\ At(s, <<"worn", w>>) = s.equipped[w]
    BY DEF Places, At
  <2> QED BY <2>1 DEF Part
<1>3. \A k \in Categories, i \in SlotIds : Part(K, s.entries[k][i]) = 0
  <2>1. \A i \in SlotIds : <<"bag", i>> \in Places /\ At(s, <<"bag", i>>) = s.entries[0][i]
    BY DEF Places, At
  <2>2. \A k \in Categories, i \in SlotIds : s.entries[k][i].instance = n => k = 0
    BY <1>1 DEF FitsBag
  <2> QED BY <2>1, <2>2 DEF Part
<1>4. \A k \in Categories : InBag(K, s.entries[k]) = 0
  <2> SUFFICES ASSUME NEW k \in Categories PROVE InBag(K, s.entries[k]) = 0 OBVIOUS
  <2> DEFINE f == [i \in SlotIds |-> Part(K, s.entries[k][i])]
  <2>1. \A i \in SlotIds : f[i] = 0 BY <1>3
  <2> HIDE DEF f
  <2>2. SumFunctionOnSet(f, SlotIds) = 0 BY <2>1, Finite, SumZero
  <2> QED BY <2>2 DEF InBag, f
<1>5. InBags(K, s) = 0
  <2> DEFINE f == [k \in Categories |-> InBag(K, s.entries[k])]
  <2>1. \A k \in Categories : f[k] = 0 BY <1>4
  <2> HIDE DEF f
  <2>2. SumFunctionOnSet(f, Categories) = 0 BY <2>1, Finite, SumZero
  <2> QED BY <2>2 DEF InBags, f
<1>6. OnBody(K, s) = 0 BY <1>2 DEF OnBody, WornSlots
<1> QED BY <1>5, <1>6 DEF Total

-----------------------------------------------------------------------------
(* A transaction about one character, and the amounts of them all.            *)

\* The inventory that is there, or the starter, is replaced.
Served(inv, next, owners, after, c, s, new) ==
  /\ inv \in Stored /\ owners \in Seq(Characters \X Nat) /\ c \in Characters
  /\ s = IF inv[c] = None THEN Starter(Len(owners) + 1) ELSE inv[c]
  /\ new \in Good /\ next = [inv EXCEPT ![c] = new]
  /\ after = IF inv[c] = None THEN owners \o <<<<c, 1>>, <<c, 2>>>> ELSE owners

LEMMA ServedIs ==
  ASSUME NEW inv, NEW next, NEW owners, NEW after, NEW c, NEW s, NEW new,
         Served(inv, next, owners, after, c, s, new)
  PROVE  /\ inv \in Stored /\ next \in Stored /\ c \in Characters /\ s \in Good /\ new \in Good
         /\ next[c] = new /\ new # None /\ Has(next, c) = new
         /\ \A d \in Characters \ {c} : next[d] = inv[d]
         /\ s.mesos = Has(inv, c).mesos /\ \A i : Total(All(i), s) = Total(All(i), Has(inv, c))
<1>0. inv \in Stored /\ c \in Characters /\ new \in Good /\ next = [inv EXCEPT ![c] = new]
  BY DEF Served
<1>1. None \notin Good BY RowsAssumption DEF Good
<1>2. /\ next \in Stored /\ next[c] = new /\ new # None /\ Has(next, c) = new
      /\ \A d \in Characters \ {c} : next[d] = inv[d] BY <1>0, <1>1 DEF Stored, Has
<1>3. CASE inv[c] = None
  <2>1. Len(owners) + 1 \in Nat \ {0} BY DEF Served
  <2> DEFINE n == Len(owners) + 1
  <2>2. s = Starter(n) /\ Has(inv, c) = Starter(1) /\ n \in Nat \ {0} /\ 1 \in Nat \ {0}
    BY <1>3, <2>1 DEF Served, Has
  <2> HIDE DEF n
  <2>3. s \in Good BY <2>2, StarterGood
  <2> QED BY <1>0, <1>2, <2>2, <2>3, StarterAmounts
<1>4. CASE inv[c] # None BY <1>0, <1>4, <1>2 DEF Served, Has, Stored
<1> QED BY <1>3, <1>4

LEMMA ServedOwned ==
  ASSUME NEW inv, NEW next, NEW owners, NEW after, NEW c, NEW s, NEW new,
         Served(inv, next, owners, after, c, s, new), NEW i, NEW lost \in Nat, NEW won \in Nat,
         Turned(All(i), s, new, lost, won)
  PROVE  Owned(next, All(i)) + lost = Owned(inv, All(i)) + won /\ Purse(next) = Purse(inv)
<1> DEFINE K == All(i)
           f == Total(K, s)
           g == Total(K, new)
           F == Owned(inv, K)
           G == Owned(next, K)
<1>1. /\ inv \in Stored /\ next \in Stored /\ c \in Characters /\ s \in Good /\ new \in Good
      /\ Has(next, c) = new /\ \A d \in Characters \ {c} : next[d] = inv[d]
      /\ s.mesos = Has(inv, c).mesos /\ f = Total(K, Has(inv, c)) BY ServedIs
<1>2. new.mesos = s.mesos /\ g + lost = f + won BY DEF Turned
<1>3. f \in Nat /\ g \in Nat /\ s.mesos \in Nat BY <1>1, GoodParts, TotalNat
<1> HIDE DEF K
<1>4. /\ G + Total(K, Has(inv, c)) = F + Total(K, Has(next, c))
      /\ Purse(next) + Has(inv, c).mesos = Purse(inv) + Has(next, c).mesos
      /\ F \in Nat /\ G \in Nat /\ Purse(inv) \in Nat /\ Purse(next) \in Nat BY <1>1, OneOwned
<1>5. G + f = F + g BY <1>1, <1>4
<1>6. Purse(next) + s.mesos = Purse(inv) + s.mesos BY <1>1, <1>2, <1>4
<1>a. F \in Nat /\ G \in Nat BY <1>4
<1>7. Purse(next) = Purse(inv)
  <2> DEFINE p == Purse(inv)
             q == Purse(next)
             m == s.mesos
  <2>1. q + m = p + m /\ q \in Nat /\ p \in Nat /\ m \in Nat BY <1>3, <1>4, <1>6
  <2> HIDE DEF p, q, m
  <2>2. q = p BY <2>1
  <2> QED BY <2>2 DEF p, q
<1> HIDE DEF f, g, F, G
<1>8. G + lost = F + won BY <1>2, <1>3, <1>5, <1>a
<1> QED BY <1>7, <1>8 DEF F, G, K

\* Each piece of gear is somewhere in the inventory of its owner.
GearKept(inv, owners) ==
  \A n \in DOMAIN owners :
    inv[owners[n][1]] # None /\ Total({<<owners[n][2], n>>}, inv[owners[n][1]]) > 0

LEMMA ServedGear ==
  ASSUME NEW inv, NEW next, NEW owners, NEW after, NEW c, NEW s, NEW new,
         Served(inv, next, owners, after, c, s, new), GearKept(inv, owners),
         \A m, n \in Nat : n # 0 => Total({<<m, n>>}, new) = Total({<<m, n>>}, s)
  PROVE  GearKept(next, after)
<1> DEFINE first == Len(owners) + 1
<1>1. /\ inv \in Stored /\ next \in Stored /\ c \in Characters /\ s \in Good /\ new \in Good
      /\ next[c] = new /\ new # None /\ \A d \in Characters \ {c} : next[d] = inv[d] BY ServedIs
<1>2. owners \in Seq(Characters \X Nat) /\ Len(owners) \in Nat /\ first \in Nat \ {0}
      /\ first + 1 \in Nat \ {0} /\ DOMAIN owners = 1..Len(owners) BY DEF Served
<1>3. ASSUME NEW n \in DOMAIN owners
      PROVE  n \in Nat \ {0} /\ owners[n][1] \in Characters /\ owners[n][2] \in Nat BY <1>2
<1>4. ASSUME NEW n \in DOMAIN owners
      PROVE  next[owners[n][1]] # None /\ Total({<<owners[n][2], n>>}, next[owners[n][1]]) > 0
  <2> DEFINE d == owners[n][1]
             m == owners[n][2]
  <2>1. n \in Nat /\ n # 0 /\ d \in Characters /\ m \in Nat /\ inv[d] # None /\ Total({<<m, n>>}, inv[d]) > 0
    BY <1>3 DEF GearKept
  <2> HIDE DEF d, m
  <2>2. CASE d = c BY <2>1, <2>2, <1>1 DEF Served, d, m
  <2>3. CASE d # c BY <1>1, <2>1, <2>3 DEF d, m
  <2> QED BY <2>2, <2>3
<1>5. CASE inv[c] # None BY <1>5, <1>4 DEF Served, GearKept
<1>6. CASE inv[c] = None
  <2>1. s = Starter(first) /\ after = owners \o <<<<c, 1>>, <<c, 2>>>> BY <1>6 DEF Served
  <2>2. /\ DOMAIN after = (DOMAIN owners) \cup {first, first + 1}
        /\ \A n \in DOMAIN owners : after[n] = owners[n]
        /\ after[first] = <<c, 1>> /\ after[first + 1] = <<c, 2>>
    <3> DEFINE two == <<<<c, 1>>, <<c, 2>>>>
    <3>1. two \in Seq(Characters \X Nat) /\ Len(two) = 2 /\ two[1] = <<c, 1>> /\ two[2] = <<c, 2>>
      BY <1>1
    <3>2. after = owners \o two BY <2>1
    <3> DEFINE T == Characters \X Nat
               l == Len(owners)
    <3>a. owners \in Seq(T) /\ two \in Seq(T) /\ l \in Nat /\ Len(two) = 2 BY <1>2, <3>1
    <3> HIDE DEF two, T
    <3>b. /\ after \in Seq(T) /\ Len(after) = Len(owners) + Len(two)
          /\ \A n \in 1..(Len(owners) + Len(two)) :
               after[n] = IF n <= Len(owners) THEN owners[n] ELSE two[n - Len(owners)]
      BY <3>2, <3>a, ConcatProperties
    <3>c. /\ DOMAIN after = 1..(l + 2)
          /\ \A n \in 1..(l + 2) : after[n] = IF n <= l THEN owners[n] ELSE two[n - l] BY <3>a, <3>b
    <3>d. l + 1 \in 1..(l + 2) /\ l + 2 \in 1..(l + 2) /\ ~(l + 1 <= l) /\ ~(l + 2 <= l)
          /\ (l + 1) - l = 1 /\ (l + 2) - l = 2 /\ \A n \in 1..l : n \in 1..(l + 2) /\ n <= l
      BY <3>a
    <3>3. first + 1 = Len(owners) + 2 /\ 1..(Len(owners) + 2) = (1..Len(owners)) \cup {first, first + 1}
      BY <1>2
    <3> QED BY <1>2, <3>1, <3>c, <3>d, <3>3
  <2>3. Total({<<1, first>>}, s) > 0 /\ Total({<<2, first + 1>>}, s) > 0
    <3>0. s \in Inventory /\ 0 \in Categories /\ 0 \in SlotIds /\ 1 \in SlotIds
      BY <1>1, GoodParts, Numbers
    <3>1. s.entries[0][0] = Gear(1, first) /\ s.entries[0][1] = Gear(2, first + 1)
      <4>1. first + 0 = first /\ 0 + 1 = 1 /\ 1 + 1 = 2 /\ 0 < 2 /\ 1 < 2 BY <1>2
      <4> HIDE DEF first
      <4> QED BY <3>0, <4>1, <2>1 DEF Starter
    <3> DEFINE second == first + 1
               K == {<<1, first>>}
               L == {<<2, second>>}
    <3>2. Part(K, Gear(1, first)) = 1 /\ Part(L, Gear(2, second)) = 1 BY DEF Part, Gear
    <3>3. s.entries[0][0] = Gear(1, first) /\ s.entries[0][1] = Gear(2, second) BY <3>1
    <3> HIDE DEF first, second, K, L
    <3> QED BY <3>2, <3>3, <3>0, InPlace, TotalNat DEF K, L, second
  <2>4. Total({<<1, first>>}, new) > 0 /\ Total({<<2, first + 1>>}, new) > 0 BY <1>2, <2>3
  <2> DEFINE second == first + 1
  <2>5. /\ DOMAIN after = (DOMAIN owners) \cup {first, second}
        /\ \A n \in DOMAIN owners : after[n] = owners[n]
        /\ after[first][1] = c /\ after[first][2] = 1 /\ after[second][1] = c /\ after[second][2] = 2
        /\ Total({<<1, first>>}, new) > 0 /\ Total({<<2, second>>}, new) > 0 BY <2>2, <2>4
  <2> HIDE DEF first, second
  <2>6. ASSUME NEW n \in DOMAIN after
        PROVE  next[after[n][1]] # None /\ Total({<<after[n][2], n>>}, next[after[n][1]]) > 0
    BY <1>4, <2>5, <1>1
  <2> QED BY <2>6 DEF GearKept
<1> QED BY <1>5, <1>6

\* Revisions are not zero, and they and mesos stay in their range.
Bounded(inv) ==
  \A c \in Characters : inv[c] # None =>
    inv[c].revision > 0 /\ inv[c].revision <= MaxRevision /\ inv[c].mesos <= MaxMesos

LEMMA ServedBounded ==
  ASSUME NEW inv, NEW next, NEW owners, NEW after, NEW c, NEW s, NEW new,
         Served(inv, next, owners, after, c, s, new), Bounded(inv),
         new.mesos = s.mesos, new.revision \in {s.revision, s.revision + 1},
         new.revision # s.revision => s.revision < MaxRevision
  PROVE  Bounded(next)
<1>1. /\ s \in Good /\ next[c] = new /\ \A d \in Characters \ {c} : next[d] = inv[d]
      /\ c \in Characters BY ServedIs
<1>2. s.revision > 0 /\ s.revision <= MaxRevision /\ s.mesos <= MaxMesos
  <2>1. CASE inv[c] = None
    <3>1. Len(owners) + 1 \in Nat \ {0} /\ s = Starter(Len(owners) + 1) BY <2>1 DEF Served
    <3> DEFINE n == Len(owners) + 1
    <3> HIDE DEF n
    <3>2. StarterPack.mesos <= MaxMesos /\ 1 <= MaxRevision BY StarterAssumption, RulesAssumption
    <3> QED BY <3>1, StarterAmounts, <3>2 DEF n
  <2>2. CASE inv[c] # None BY <1>1, <2>2 DEF Served, Bounded
  <2> QED BY <2>1, <2>2
<1>3. s.revision \in Nat /\ MaxRevision \in Nat BY <1>1, GoodParts, Numbers
<1>4. new.revision > 0 /\ new.revision <= MaxRevision /\ new.mesos <= MaxMesos BY <1>2, <1>3
<1> QED BY <1>1, <1>4 DEF Bounded

-----------------------------------------------------------------------------
(* A trade, and the amounts of them all.                                      *)

\* What is offered is there, and gear the giver's own.
Possessed(owners, c, items) ==
  /\ items \in Seq(Offerable)
  /\ \A j \in 1..Len(items) :
       items[j].quantity > 0 /\ (items[j].instance # 0 => Owns(owners, c, items[j]))

Swapping(inv, next, owners, after, a, b, x, y) ==
  /\ inv \in Stored /\ next \in Stored /\ owners \in Seq(Characters \X Nat)
  /\ a \in Characters /\ b \in Characters /\ a # b
  /\ None \notin {inv[a], inv[b], next[a], next[b]}
  /\ \A d \in Characters \ {a, b} : next[d] = inv[d]
  /\ \A K : Settled(K, inv[a], x, y, next[a]) /\ Settled(K, inv[b], y, x, next[b])
  /\ Possessed(owners, a, x.items) /\ Possessed(owners, b, y.items)
  /\ after = Regive(owners, a, b, x.items, y.items)

LEMMA SwappingIs ==
  ASSUME NEW inv, NEW next, NEW owners, NEW after, NEW a, NEW b, NEW x, NEW y,
         Swapping(inv, next, owners, after, a, b, x, y), NEW K
  PROVE  /\ inv[a] \in Good /\ inv[b] \in Good /\ next[a] \in Good /\ next[b] \in Good
         /\ Has(inv, a) = inv[a] /\ Has(inv, b) = inv[b] /\ Has(next, a) = next[a] /\ Has(next, b) = next[b]
         /\ Total(K, inv[a]) \in Nat /\ Total(K, inv[b]) \in Nat
         /\ Total(K, next[a]) \in Nat /\ Total(K, next[b]) \in Nat
         /\ InSeq(K, x.items) \in Nat /\ InSeq(K, y.items) \in Nat
         /\ Total(K, next[a]) + InSeq(K, x.items) = Total(K, inv[a]) + InSeq(K, y.items)
         /\ Total(K, next[b]) + InSeq(K, y.items) = Total(K, inv[b]) + InSeq(K, x.items)
<1>1. \A items \in Seq(Offerable) : InSeq(K, items) \in Nat
  <2> SUFFICES ASSUME NEW items \in Seq(Offerable) PROVE InSeq(K, items) \in Nat OBVIOUS
  <2>1. Len(items) \in 0..Len(items) OBVIOUS
  <2> QED BY <2>1, OfferSums
<1>2. /\ Total(K, next[a]) + InSeq(K, x.items) = Total(K, inv[a]) + InSeq(K, y.items)
      /\ Total(K, next[b]) + InSeq(K, y.items) = Total(K, inv[b]) + InSeq(K, x.items)
  BY DEF Swapping, Settled
<1> QED BY GoodParts, TotalNat, <1>1, <1>2 DEF Swapping, Stored, Has, Possessed

\* Together they have what they had.
LEMMA SwappedOwned ==
  ASSUME NEW inv, NEW next, NEW owners, NEW after, NEW a, NEW b, NEW x \in Offers, NEW y \in Offers,
         Swapping(inv, next, owners, after, a, b, x, y), NEW K
  PROVE  Owned(next, K) = Owned(inv, K) /\ Purse(next) = Purse(inv)
<1> DEFINE mid == [inv EXCEPT ![a] = next[a]]
<1>1. /\ inv \in Stored /\ next \in Stored /\ a \in Characters /\ b \in Characters /\ a # b
      /\ \A d \in Characters \ {a, b} : next[d] = inv[d] BY DEF Swapping
<1>2. /\ mid \in Stored /\ mid[a] = next[a] /\ mid[b] = inv[b]
      /\ \A d \in Characters \ {a} : mid[d] = inv[d]
      /\ \A d \in Characters \ {b} : next[d] = mid[d] BY <1>1 DEF Stored
<1> HIDE DEF mid
<1> DEFINE s == inv[a]
           t == inv[b]
           u == next[a]
           v == next[b]
<1>3. /\ s \in Good /\ t \in Good /\ u \in Good /\ v \in Good
      /\ Has(inv, a) = s /\ Has(inv, b) = t /\ Has(next, a) = u /\ Has(next, b) = v BY SwappingIs
<1>4. Has(mid, a) = u /\ Has(mid, b) = t BY <1>2, <1>3 DEF Has
<1> DEFINE F == Owned(inv, K)
           M == Owned(mid, K)
           N == Owned(next, K)
           P == Purse(inv)
           Q == Purse(mid)
           R == Purse(next)
           ts == Total(K, s)
           tt == Total(K, t)
           tu == Total(K, u)
           tv == Total(K, v)
           p == InSeq(K, x.items)
           q == InSeq(K, y.items)
<1>5. /\ M + ts = F + tu /\ Q + s.mesos = P + u.mesos
      /\ F \in Nat /\ M \in Nat /\ P \in Nat /\ Q \in Nat BY <1>1, <1>2, <1>3, <1>4, OneOwned
<1>6. /\ N + tt = M + tv /\ R + t.mesos = Q + v.mesos /\ N \in Nat /\ R \in Nat
  BY <1>1, <1>2, <1>3, <1>4, OneOwned
<1>7. /\ tu + p = ts + q /\ tv + q = tt + p
      /\ ts \in Nat /\ tt \in Nat /\ tu \in Nat /\ tv \in Nat /\ p \in Nat /\ q \in Nat
  BY SwappingIs
<1>8. /\ u.mesos + x.mesos = s.mesos + y.mesos /\ v.mesos + y.mesos = t.mesos + x.mesos
      /\ x.mesos \in Nat /\ y.mesos \in Nat
      /\ u.mesos \in Nat /\ v.mesos \in Nat /\ s.mesos \in Nat /\ t.mesos \in Nat
  BY <1>3, GoodParts DEF Swapping, Settled, Offers
<1> HIDE DEF F, M, N, ts, tt, tu, tv, p, q, P, Q, R, s, t, u, v
<1>9. N = F BY <1>5, <1>6, <1>7
<1>10. R = P BY <1>5, <1>6, <1>8
<1> QED BY <1>9, <1>10 DEF N, F, R, P

\* Of gear that is not offered an offer has nothing.
LEMMA NotOffered ==
  ASSUME NEW items \in Seq(Offerable), NEW m, NEW n,
         \A j \in 1..Len(items) : items[j].instance # n
  PROVE  InSeq({<<m, n>>}, items) = 0
<1> DEFINE K == {<<m, n>>}
           L == Len(items)
           f == [j \in 1..L |-> Part(K, items[j])]
           S == 1..L
<1>1. IsFiniteSet(S)
  <2>1. \A a, b \in Int : IsFiniteSet(a..b) BY FS_Interval
  <2>2. 1 \in Int /\ L \in Int OBVIOUS
  <2> HIDE DEF L
  <2> QED BY ONLY <2>1, <2>2
<1>2. \A j \in S : f[j] = 0 BY DEF Part
<1> HIDE DEF S, f
<1>3. SumFunctionOnSet(f, S) = 0 BY <1>1, <1>2, SumZero
<1> QED BY <1>3 DEF InSeq, f, S

LEMMA IsOffered ==
  ASSUME NEW items \in Seq(Offerable), NEW j \in 1..Len(items), items[j].quantity > 0, NEW m, NEW n,
         items[j].item = m, items[j].instance = n
  PROVE  InSeq({<<m, n>>}, items) > 0
<1> DEFINE K == {<<m, n>>}
           L == Len(items)
           f == [l \in 1..L |-> Part(K, items[l])]
           S == 1..L
<1>1. IsFiniteSet(S)
  <2>1. \A a, b \in Int : IsFiniteSet(a..b) BY FS_Interval
  <2>2. 1 \in Int /\ L \in Int OBVIOUS
  <2> HIDE DEF L
  <2> QED BY ONLY <2>1, <2>2
<1>2. \A l \in S : f[l] \in Nat BY OfferSums
<1>3. j \in S /\ f[j] = items[j].quantity BY DEF Part
<1> DEFINE q == f[j]
           sum == SumFunctionOnSet(f, S)
<1>4. q > 0 /\ q \in Nat BY <1>2, <1>3
<1> HIDE DEF S, f
<1>5. q <= sum BY <1>1, <1>2, <1>3, SumPart
<1>6. sum \in Nat BY <1>1, <1>2, SumNat
<1> HIDE DEF q, sum
<1>7. sum > 0 BY <1>4, <1>5, <1>6
<1> QED BY <1>7 DEF InSeq, f, S, sum

\* Gear that a gives comes to b.
LEMMA GearArrives ==
  ASSUME NEW owners, NEW a, NEW b, a # b, NEW x, NEW y, Possessed(owners, a, x), Possessed(owners, b, y),
         NEW n \in GearTo(x, Len(x))
  PROVE  InSeq({<<owners[n][2], n>>}, x) > 0 /\ InSeq({<<owners[n][2], n>>}, y) = 0
<1>1. PICK j \in 1..Len(x) : x[j].instance = n /\ n # 0 BY DEF GearTo
<1>2. owners[n] = <<a, x[j].item>> /\ x[j].quantity > 0 /\ x \in Seq(Offerable) /\ y \in Seq(Offerable)
  BY <1>1 DEF Possessed, Owns
<1>3. \A l \in 1..Len(y) : y[l].instance # n
  <2> SUFFICES ASSUME NEW l \in 1..Len(y), y[l].instance = n PROVE FALSE OBVIOUS
  <2>1. owners[n] = <<b, y[l].item>> BY <1>1 DEF Possessed, Owns
  <2> QED BY <1>2, <2>1
<1>4. owners[n][2] = x[j].item BY <1>2
<1> QED BY <1>1, <1>2, <1>3, <1>4, IsOffered, NotOffered

LEMMA GearStays ==
  ASSUME NEW x \in Seq(Offerable), NEW m, NEW n, n # 0, n \notin GearTo(x, Len(x))
  PROVE  InSeq({<<m, n>>}, x) = 0
BY NotOffered DEF GearTo

LEMMA SwappedGear ==
  ASSUME NEW inv, NEW next, NEW owners, NEW after, NEW a, NEW b, NEW x, NEW y,
         Swapping(inv, next, owners, after, a, b, x, y), GearKept(inv, owners)
  PROVE  GearKept(next, after)
<1> DEFINE xs == x.items
           ys == y.items
<1>1. /\ owners \in Seq(Characters \X Nat) /\ a # b
      /\ Possessed(owners, a, xs) /\ Possessed(owners, b, ys)
      /\ None \notin {inv[a], inv[b], next[a], next[b]}
      /\ \A d \in Characters \ {a, b} : next[d] = inv[d]
      /\ xs \in Seq(Offerable) /\ ys \in Seq(Offerable) BY DEF Swapping, Possessed
<1>2. after = Regive(owners, a, b, xs, ys) BY DEF Swapping
<1>k. ASSUME NEW K
      PROVE  /\ Total(K, inv[a]) \in Nat /\ Total(K, inv[b]) \in Nat
             /\ Total(K, next[a]) \in Nat /\ Total(K, next[b]) \in Nat
             /\ InSeq(K, xs) \in Nat /\ InSeq(K, ys) \in Nat
             /\ Total(K, next[a]) + InSeq(K, xs) = Total(K, inv[a]) + InSeq(K, ys)
             /\ Total(K, next[b]) + InSeq(K, ys) = Total(K, inv[b]) + InSeq(K, xs) BY SwappingIs
<1>p. Possessed(owners, a, xs) /\ Possessed(owners, b, ys) /\ a # b /\ b # a BY DEF Swapping
<1> HIDE DEF xs, ys
<1> DEFINE G == GearTo(xs, Len(xs))
           H == GearTo(ys, Len(ys))
<1>3. after = [n \in DOMAIN owners |-> IF n \in G THEN <<b, owners[n][2]>>
                                       ELSE IF n \in H THEN <<a, owners[n][2]>> ELSE owners[n]]
  BY <1>2 DEF Regive
<1>4. ASSUME NEW n \in DOMAIN owners
      PROVE  /\ next[after[n][1]] # None
             /\ Total({<<after[n][2], n>>}, next[after[n][1]]) > 0
  <2> DEFINE m == owners[n][2]
             d == owners[n][1]
             K == {<<m, n>>}
  <2>1. n \in Nat /\ n # 0 /\ owners[n] \in Characters \X Nat BY <1>1
  <2>2. d \in Characters BY <2>1
  <2>3. inv[d] # None /\ Total(K, inv[d]) > 0 BY DEF GearKept
  <2>4. n \in G => InSeq(K, xs) > 0 /\ InSeq(K, ys) = 0 BY ONLY <1>p, GearArrives
  <2>5. n \in H => InSeq(K, ys) > 0 /\ InSeq(K, xs) = 0 BY ONLY <1>p, GearArrives
  <2>6. n \notin G /\ n \notin H => InSeq(K, ys) = 0 /\ InSeq(K, xs) = 0 BY <1>1, <2>1, GearStays
  <2>7. /\ n \in G => after[n] = <<b, m>>
        /\ n \notin G /\ n \in H => after[n] = <<a, m>>
        /\ n \notin G /\ n \notin H => after[n] = owners[n] BY <1>3
  <2> HIDE DEF G, H, K
  <2> DEFINE ts == Total(K, inv[a])
             tt == Total(K, inv[b])
             p == InSeq(K, xs)
             q == InSeq(K, ys)
             tu == Total(K, next[a])
             tv == Total(K, next[b])
  <2>8. /\ ts \in Nat /\ tt \in Nat /\ p \in Nat /\ q \in Nat /\ tu \in Nat /\ tv \in Nat
        /\ tu + p = ts + q /\ tv + q = tt + p BY <1>k
  <2> HIDE DEF p, q
  <2>9. CASE n \in G
    <3>1. after[n][1] = b /\ after[n][2] = m BY <2>7, <2>9
    <3>2. p > 0 /\ q = 0 BY <2>4, <2>9 DEF p, q
    <3> HIDE DEF ts, tt, tu, tv, m
    <3>3. tv > 0 BY <2>8, <3>2
    <3> QED BY <1>1, <3>1, <3>3 DEF tv, K
  <2>10. CASE n \notin G /\ n \in H
    <3>1. after[n][1] = a /\ after[n][2] = m BY <2>7, <2>10
    <3>2. q > 0 /\ p = 0 BY <2>5, <2>10 DEF p, q
    <3> HIDE DEF ts, tt, tu, tv, m
    <3>3. tu > 0 BY <2>8, <3>2
    <3> QED BY <1>1, <3>1, <3>3 DEF tu, K
  <2>11. CASE n \notin G /\ n \notin H
    <3>1. after[n][1] = d /\ after[n][2] = m BY <2>7, <2>11
    <3>2. p = 0 /\ q = 0 BY <2>6, <2>11 DEF p, q
    <3> HIDE DEF m, d
    <3>3. CASE d = a
      <4>1. ts > 0 BY <2>3, <3>3
      <4> HIDE DEF ts, tt, tu, tv
      <4>2. tu > 0 BY <2>8, <3>2, <4>1
      <4> QED BY <1>1, <3>1, <3>3, <4>2 DEF tu, K
    <3>4. CASE d = b
      <4>1. tt > 0 BY <2>3, <3>4
      <4> HIDE DEF ts, tt, tu, tv
      <4>2. tv > 0 BY <2>8, <3>2, <4>1
      <4> QED BY <1>1, <3>1, <3>4, <4>2 DEF tv, K
    <3>5. CASE d \notin {a, b} BY <1>1, <2>2, <3>5, <2>3, <3>1 DEF K
    <3> QED BY <3>3, <3>4, <3>5
  <2> QED BY <2>9, <2>10, <2>11
<1>5. DOMAIN after = DOMAIN owners BY <1>3
<1> QED BY <1>4, <1>5 DEF GearKept

LEMMA SwappedBounded ==
  ASSUME NEW inv, NEW next, NEW owners, NEW after, NEW a, NEW b, NEW x, NEW y,
         Swapping(inv, next, owners, after, a, b, x, y), Bounded(inv)
  PROVE  Bounded(next)
<1> SUFFICES ASSUME NEW c \in Characters, next[c] # None
             PROVE  /\ next[c].revision > 0 /\ next[c].revision <= MaxRevision
                    /\ next[c].mesos <= MaxMesos
  BY DEF Bounded
<1>1. CASE c \notin {a, b}
  BY <1>1 DEF Swapping, Bounded
<1>2. ASSUME NEW s \in Good, NEW t \in Good, NEW given, NEW got, Settled({}, s, given, got, t)
      PROVE  t.revision > 0 /\ t.revision <= MaxRevision /\ t.mesos <= MaxMesos
  <2>1. s.revision \in Nat /\ MaxRevision \in Nat BY GoodParts, Numbers
  <2>2. t.revision = s.revision + 1 /\ t.revision < MaxRevision /\ t.mesos <= MaxMesos
    BY <1>2 DEF Settled
  <2> QED BY <2>1, <2>2
<1>3. inv[a] \in Good /\ inv[b] \in Good /\ next[a] \in Good /\ next[b] \in Good
  BY DEF Swapping, Stored
<1>4. Settled({}, inv[a], x, y, next[a]) /\ Settled({}, inv[b], y, x, next[b]) BY DEF Swapping
<1>5. CASE c \in {a, b} BY <1>2, <1>3, <1>4, <1>5
<1> QED BY <1>1, <1>5

\* Outside T each element counts for k.
LEMMA SumConst ==
  ASSUME NEW f, NEW S, IsFiniteSet(S), NEW T \in SUBSET S, NEW k \in Nat,
         \A x \in S : f[x] \in Nat, \A x \in S \ T : f[x] = k
  PROVE  SumFunctionOnSet(f, S) + Cardinality(T) * k = SumFunctionOnSet(f, T) + Cardinality(S) * k
<1> DEFINE R == S \ T
           Sum(U) == SumFunctionOnSet(f, U)
           G == {U \in SUBSET R : Sum(T \cup U) + Cardinality(T) * k = Sum(T) + Cardinality(T \cup U) * k}
<1>1. IsFiniteSet(R) /\ IsFiniteSet(T) /\ \A U \in SUBSET R : IsFiniteSet(T \cup U) BY FS_Subset
<1>2. {} \in G OBVIOUS
<1>3. ASSUME NEW U \in SUBSET R, NEW e \in R, U \in G PROVE U \cup {e} \in G
  <2>1. CASE e \in U BY <2>1, <1>3
  <2>2. CASE e \notin U
    <3> DEFINE V == T \cup U
               W == T \cup (U \cup {e})
    <3>1. W = V \cup {e} /\ e \notin V /\ V \in SUBSET S /\ e \in S BY <2>2
    <3>2. IsFiniteSet(V) /\ Sum(V) + Cardinality(T) * k = Sum(T) + Cardinality(V) * k BY <1>1, <1>3
    <3>a. f[e] = k OBVIOUS
    <3> HIDE DEF V, W, R
    <3>3. Sum(W) = k + Sum(V) /\ Cardinality(W) = Cardinality(V) + 1
      BY <3>1, <3>2, <3>a, SumWith, FS_AddElement
    <3> DEFINE x == Cardinality(V)
               y == Cardinality(T) * k
               z == Sum(V)
               w == Sum(T)
    <3>4. x \in Nat /\ z \in Nat /\ w \in Nat /\ Cardinality(T) \in Nat
      BY <1>1, <3>1, <3>2, FS_CardinalityType, SumNat
    <3>5. y \in Nat
      <4> DEFINE t == Cardinality(T)
      <4>1. t \in Nat BY <3>4
      <4> HIDE DEF t
      <4>2. t * k \in Nat BY <4>1
      <4> QED BY <4>2 DEF t
    <3>6. z + y = w + x * k BY <3>2
    <3> HIDE DEF x, y, z, w, Sum, G
    <3>7. (k + z) + y = w + (x + 1) * k BY <3>4, <3>5, <3>6
    <3> QED BY <3>3, <3>7 DEF G, W, R, x, y, z, w
  <2> QED BY <2>1, <2>2
<1>4. R \in SUBSET R OBVIOUS
<1> HIDE DEF G
<1>5. R \in G
  <2>1. \A U \in SUBSET R, e \in R : U \in G => U \cup {e} \in G BY <1>3
  <2> HIDE DEF R
  <2> QED BY <1>1, <1>2, <1>4, <2>1, SetInduction
<1>6. T \cup R = S OBVIOUS
<1> QED BY <1>5, <1>6 DEF G

-----------------------------------------------------------------------------
(* What there is of each item is what there was, and what drops have given,   *)
(* less what was eaten.                                                       *)

Dropped(taken, i) ==
  SumFunctionOnSet([d \in DOMAIN Drops |->
    IF taken[d] # None /\ Drops[d].item = i THEN Drops[d].quantity ELSE 0], DOMAIN Drops)
Balanced(inv, eats, taken) ==
  /\ eats \in [Items -> Nat] /\ taken = [d \in DOMAIN Drops |-> taken[d]]
  /\ \A i \in Items : Owned(inv, All(i)) + eats[i]
                        = Cardinality(Characters) * Total(All(i), Starter(1)) + Dropped(taken, i)
  /\ Purse(inv) = Cardinality(Characters) * StarterPack.mesos
Counted(inv, owners, eats, taken) ==
  Balanced(inv, eats, taken) /\ GearKept(inv, owners) /\ Bounded(inv)

LEMMA DroppedNat ==
  ASSUME NEW taken, NEW i
  PROVE  /\ IsFiniteSet(DOMAIN Drops) /\ Dropped(taken, i) \in Nat
         /\ \A d \in DOMAIN Drops : Drops[d].quantity \in Nat
<1> DEFINE f == [d \in DOMAIN Drops |->
                   IF taken[d] # None /\ Drops[d].item = i THEN Drops[d].quantity ELSE 0]
<1>1. IsFiniteSet(DOMAIN Drops) /\ \A d \in DOMAIN Drops : f[d] \in Nat /\ Drops[d].quantity \in Nat
  BY RowsAssumption
<1> HIDE DEF f
<1>2. SumFunctionOnSet(f, DOMAIN Drops) \in Nat BY <1>1, SumNat
<1> QED BY <1>1, <1>2 DEF Dropped, f

\* A drop that goes to someone counts from then on.
LEMMA Claiming ==
  ASSUME NEW taken, NEW d \in DOMAIN Drops, taken = [e \in DOMAIN Drops |-> taken[e]],
         taken[d] = None, NEW c \in Characters, NEW i
  PROVE  Dropped([taken EXCEPT ![d] = c], i)
           = Dropped(taken, i) + IF Drops[d].item = i THEN Drops[d].quantity ELSE 0
<1> DEFINE next == [taken EXCEPT ![d] = c]
           f == [e \in DOMAIN Drops |->
                   IF taken[e] # None /\ Drops[e].item = i THEN Drops[e].quantity ELSE 0]
           g == [e \in DOMAIN Drops |->
                   IF next[e] # None /\ Drops[e].item = i THEN Drops[e].quantity ELSE 0]
           q == IF Drops[d].item = i THEN Drops[d].quantity ELSE 0
<1>1. c # None BY RowsAssumption
<1>2. next[d] = c /\ \A e \in (DOMAIN Drops) \ {d} : next[e] = taken[e] OBVIOUS
<1> HIDE DEF next
<1>3. f[d] = 0 /\ g[d] = q /\ \A e \in (DOMAIN Drops) \ {d} : g[e] = f[e] BY <1>1, <1>2
<1>4. IsFiniteSet(DOMAIN Drops) /\ \A e \in DOMAIN Drops : f[e] \in Nat /\ g[e] \in Nat
  BY RowsAssumption
<1> DEFINE F == SumFunctionOnSet(f, DOMAIN Drops)
           G == SumFunctionOnSet(g, DOMAIN Drops)
<1> HIDE DEF f, g, q
<1>5. G + f[d] = F + g[d] /\ F \in Nat /\ G \in Nat BY <1>3, <1>4, SumChange, SumNat
<1>6. g[d] \in Nat BY <1>4
<1> HIDE DEF F, G
<1>7. G = F + q BY <1>3, <1>5, <1>6
<1> QED BY <1>7 DEF F, G, f, g, q, Dropped, next

LEMMA ServedCounted ==
  ASSUME NEW inv, NEW next, NEW owners, NEW after, NEW c, NEW s, NEW new,
         Served(inv, next, owners, after, c, s, new),
         NEW eats, NEW taken, Counted(inv, owners, eats, taken),
         NEW lost \in [Items -> Nat], NEW won \in [Items -> Nat],
         \A i \in Items : Turned(All(i), s, new, lost[i], won[i]),
         \A m, n \in Nat : n # 0 => Turned({<<m, n>>}, s, new, 0, 0),
         NEW eats2 \in [Items -> Nat], \A i \in Items : eats2[i] = eats[i] + lost[i],
         NEW taken2, taken2 = [d \in DOMAIN Drops |-> taken2[d]],
         \A i \in Items : Dropped(taken2, i) = Dropped(taken, i) + won[i]
  PROVE  Counted(next, after, eats2, taken2)
<1>0. PICK m \in Nat, n \in Nat : n # 0 OBVIOUS
<1>1. Turned({<<m, n>>}, s, new, 0, 0) BY <1>0
<1>2. Balanced(inv, eats, taken) /\ GearKept(inv, owners) /\ Bounded(inv) BY DEF Counted
<1>3. GearKept(next, after)
  <2>1. s \in Good /\ new \in Good BY ServedIs
  <2>2. ASSUME NEW x \in Nat, NEW y \in Nat, y # 0
        PROVE  Total({<<x, y>>}, new) = Total({<<x, y>>}, s)
    <3> DEFINE K == {<<x, y>>}
               f == Total(K, s)
               g == Total(K, new)
    <3>1. Turned(K, s, new, 0, 0) BY <2>2
    <3> HIDE DEF K
    <3>2. g + 0 = f + 0 BY <3>1 DEF Turned
    <3>3. f \in Nat /\ g \in Nat BY <2>1, GoodParts, TotalNat
    <3> HIDE DEF f, g
    <3>4. g = f BY <3>2, <3>3
    <3> QED BY <3>4 DEF f, g, K
  <2> QED BY <1>2, <2>2, ServedGear
<1>4. Bounded(next) BY <1>1, <1>2, ServedBounded DEF Turned
<1>5. ASSUME NEW i \in Items
      PROVE  /\ Owned(next, All(i)) + eats2[i]
                  = Cardinality(Characters) * Total(All(i), Starter(1)) + Dropped(taken2, i)
             /\ Purse(next) = Purse(inv)
  <2> DEFINE a == lost[i]
             b == won[i]
             F == Owned(inv, All(i))
             G == Owned(next, All(i))
             e == eats[i]
             e2 == eats2[i]
             D == Dropped(taken, i)
             D2 == Dropped(taken2, i)
             base == Cardinality(Characters) * Total(All(i), Starter(1))
  <2>1. a \in Nat /\ b \in Nat /\ Turned(All(i), s, new, a, b) OBVIOUS
  <2>2. G + a = F + b /\ Purse(next) = Purse(inv) BY <2>1, ServedOwned
  <2>3. F + e = base + D /\ e \in Nat BY <1>2 DEF Balanced
  <2>4. e2 = e + a /\ D2 = D + b OBVIOUS
  <2>5. D \in Nat BY DroppedNat
  <2>6. F \in Nat /\ G \in Nat BY ServedIs, OneOwned
  <2>7. base \in Nat
    <3> DEFINE x == Cardinality(Characters)
               y == Total(All(i), Starter(1))
    <3>1. x \in Nat BY RowsAssumption, FS_CardinalityType
    <3>2. y \in Nat BY StarterGood, GoodParts, TotalNat
    <3> HIDE DEF x, y
    <3>3. x * y \in Nat BY <3>1, <3>2
    <3> QED BY <3>3 DEF x, y
  <2> HIDE DEF a, b, F, G, e, e2, D, D2, base
  <2> QED BY <2>2, <2>1, <2>3, <2>4, <2>5, <2>6, <2>7 DEF G, e2, base, D2
<1>6. 1 \in Items BY Numbers DEF Items, ItemsOf
<1> QED BY <1>3, <1>4, <1>5, <1>6, <1>2 DEF Counted, Balanced

-----------------------------------------------------------------------------
(* The invariant, with the amounts.                                           *)

KInv ==
  /\ IInv /\ Counted(Inventories, owner, eaten, claims)
  /\ receipts = [t \in Trades |-> receipts[t]]

LEMMA StoredIs ==
  ASSUME IInv
  PROVE  /\ Inventories \in Stored /\ owner \in Seq(Characters \X Nat)
         /\ \A c \in Characters : header[c] = None <=> Inventories[c] = None
<1>1. /\ Tables \in Databases /\ \A c \in Characters : SoundFor(Tables, c) BY DEF IInv, Sound
<1>2. ASSUME NEW c \in Characters
      PROVE  /\ Inventories[c] \in Good \cup {None}
             /\ header[c] = None <=> Inventories[c] = None BY <1>1, TablesAre, ReadGood
<1>3. Inventories \in Stored
  <2> DEFINE f == Inventories
  <2>1. f = [c \in Characters |-> f[c]] /\ \A c \in Characters : f[c] \in Good \cup {None}
    BY <1>2, TablesAre
  <2> HIDE DEF f
  <2>2. f \in [Characters -> Good \cup {None}] BY <2>1
  <2> QED BY <2>2 DEF f, Stored
<1> QED BY <1>1, TablesAre, <1>2, <1>3 DEF Databases

LEMMA SavedServed ==
  ASSUME IInv, NEW c \in Characters, NEW reply, Store!Save(c, reply), Outcome(c, reply) \in Good
  PROVE  Served(Inventories, Inventories', owner, owner', c, Store!Current(c), Outcome(c, reply))
BY StoredIs, SameStarter DEF Store!Save, Outcome, Store!Current, Store!IsNew, Store!Issued, Served

\* A transaction about one character that takes and brings so much.
LEMMA SavedCounted ==
  ASSUME IInv, Counted(Inventories, owner, eaten, claims), NEW c \in Characters, NEW reply,
         Store!Save(c, reply), Outcome(c, reply) \in Good,
         NEW lost \in [Items -> Nat], NEW won \in [Items -> Nat],
         \A i \in Items : Turned(All(i), Store!Current(c), Outcome(c, reply), lost[i], won[i]),
         \A m, n \in Nat : n # 0 => Turned({<<m, n>>}, Store!Current(c), Outcome(c, reply), 0, 0),
         eaten' \in [Items -> Nat], \A i \in Items : eaten'[i] = eaten[i] + lost[i],
         claims' = [d \in DOMAIN Drops |-> claims'[d]],
         \A i \in Items : Dropped(claims', i) = Dropped(claims, i) + won[i]
  PROVE  Counted(Inventories', owner', eaten', claims')
<1> DEFINE s == Store!Current(c)
           new == Outcome(c, reply)
<1> QED BY SavedServed, ServedCounted

LEMMA TurnedSame ==
  ASSUME NEW K, NEW s
  PROVE  Turned(K, s, s, 0, 0)
BY DEF Turned

\* Without a change of the counters.
LEMMA QuietCounted ==
  ASSUME IInv, Counted(Inventories, owner, eaten, claims), NEW c \in Characters, NEW reply,
         Store!Save(c, reply), UNCHANGED <<eaten, claims>>,
         reply.result = "Success" =>
           reply.state \in Good /\ \A K : Turned(K, Store!Current(c), reply.state, 0, 0)
  PROVE  Counted(Inventories', owner', eaten', claims')
<1> DEFINE s == Store!Current(c)
           new == Outcome(c, reply)
           none == [i \in Items |-> 0]
<1>1. new \in Good /\ \A K : Turned(K, s, new, 0, 0) BY CurrentIs, TurnedSame DEF Outcome
<1>2. none \in [Items -> Nat] /\ \A i \in Items : none[i] = 0 OBVIOUS
<1>3. /\ eaten \in [Items -> Nat] /\ claims = [d \in DOMAIN Drops |-> claims[d]]
      /\ eaten' = eaten /\ claims' = claims BY DEF Counted, Balanced
<1>4. \A i \in Items : Dropped(claims, i) \in Nat BY DroppedNat
<1> HIDE DEF s, new, none
<1> QED BY <1>1, <1>2, <1>3, <1>4, SavedCounted DEF s, new

LEMMA RequestCounted ==
  ASSUME KInv, NEW c \in Characters, NEW r \in Requests, Store!Request(c, r)
  PROVE  Counted(Inventories', owner', eaten', claims') /\ receipts' = receipts
<1> DEFINE s == Store!Current(c)
           reply == Apply(s, r)
           item == s.entries[1][r.source].item
<1>1. s \in Good /\ s \in Inventory /\ IInv BY CurrentIs DEF KInv
<1>2. /\ Store!Save(c, reply) /\ UNCHANGED <<claims, receipts>>
      /\ eaten' = IF r.operation # "Use" \/ reply.result # "Success" THEN eaten
                  ELSE [eaten EXCEPT ![item] = @ + 1] BY SameApply DEF Store!Request, Store!records
<1>3. ~Validate(s) => reply.result # "Success" BY DEF Apply, Reply
<1>4. reply.result = "Success" => reply.state \in Good BY <1>1, <1>3, ApplyFollows DEF Follows
<1>5. reply.result = "Success" =>
        /\ \A K : Turned(K, s, reply.state, Eats(K, s, r), 0)
        /\ r.operation = "Use" => item \in Items BY <1>1, <1>3, ApplyTurned
<1>6. Counted(Inventories, owner, eaten, claims) BY DEF KInv
<1> HIDE DEF reply
<1>7. CASE reply.result = "Success" /\ r.operation = "Use"
  <2> DEFINE new == Outcome(c, reply)
             none == [i \in Items |-> 0]
             lost == [i \in Items |-> IF i = item THEN 1 ELSE 0]
  <2>1. new = reply.state /\ new \in Good /\ item \in Items BY <1>4, <1>5, <1>7 DEF Outcome
  <2>2. \A K : Turned(K, s, new, Piece(K, item), 0) BY <1>5, <1>7, <2>1 DEF Eats
  <2>3. \A i \in Items : Piece(All(i), item) = lost[i] BY DEF Piece, All
  <2>4. \A m, n \in Nat : n # 0 => Piece({<<m, n>>}, item) = 0 BY DEF Piece
  <2>5. none \in [Items -> Nat] /\ lost \in [Items -> Nat] /\ \A i \in Items : none[i] = 0 OBVIOUS
  <2>6. /\ eaten \in [Items -> Nat] /\ claims = [d \in DOMAIN Drops |-> claims[d]] /\ claims' = claims
        /\ eaten' = [eaten EXCEPT ![item] = @ + 1] BY <1>2, <1>6, <1>7 DEF Counted, Balanced
  <2> HIDE DEF s, new, item, none
  <2>7. eaten' \in [Items -> Nat] /\ \A i \in Items : eaten'[i] = eaten[i] + lost[i] BY <2>1, <2>6
  <2> HIDE DEF lost
  <2>8. /\ \A i \in Items : Turned(All(i), s, new, lost[i], none[i])
        /\ \A m, n \in Nat : n # 0 => Turned({<<m, n>>}, s, new, 0, 0) BY <2>2, <2>3, <2>4, <2>5
  <2>9. \A i \in Items : Dropped(claims', i) = Dropped(claims, i) + none[i]
    BY DroppedNat, <2>5, <2>6
  <2>10. claims' = [d \in DOMAIN Drops |-> claims'[d]] BY <2>6
  <2> QED BY <1>1, <1>2, <1>6, <2>1, <2>5, <2>7, <2>8, <2>9, <2>10, SavedCounted DEF s, new
<1>8. CASE ~(reply.result = "Success" /\ r.operation = "Use")
  <2>1. UNCHANGED <<eaten, claims>> BY <1>2, <1>8
  <2>2. reply.result = "Success" => \A K : Turned(K, s, reply.state, 0, 0) BY <1>5, <1>8 DEF Eats
  <2> QED BY <1>1, <1>2, <1>4, <1>6, <2>1, <2>2, QuietCounted
<1> QED BY <1>2, <1>7, <1>8

\* A mutation that brings nothing.
LEMMA MutationCounted ==
  ASSUME KInv, NEW c \in Characters, NEW m \in Mutations, m.kind # "pickup",
         NEW reply, reply = Mutate(Store!Current(c), m) \/ reply = Reply("Success", Store!Current(c)),
         Store!Save(c, reply), UNCHANGED <<eaten, claims>>
  PROVE  Counted(Inventories', owner', eaten', claims')
<1> DEFINE s == Store!Current(c)
<1>1. s \in Good /\ s \in Inventory /\ IInv /\ Counted(Inventories, owner, eaten, claims)
  BY CurrentIs DEF KInv
<1>2. CASE reply = Mutate(s, m)
  BY <1>1, <1>2, MutateFollows, MutateTurned, QuietCounted DEF Follows, Brings
<1>3. CASE reply = Reply("Success", s) BY <1>3, <1>1, TurnedSame, QuietCounted DEF Reply
<1> QED BY <1>2, <1>3

LEMMA HitCounted ==
  ASSUME KInv, NEW c \in Characters, NEW h \in DOMAIN Hits, Store!Hit(c, h)
  PROVE  Counted(Inventories', owner', eaten', claims') /\ receipts' = receipts
<1> DEFINE s == Store!Current(c)
           m == [kind |-> "damage", damage |-> Hits[h]]
           reply == IF recorded[h] = c THEN Reply("Success", s) ELSE Mutate(s, m)
<1>1. m \in Mutations /\ m.kind # "pickup" BY RowsAssumption DEF Mutations
<1>2. Store!Save(c, reply) /\ UNCHANGED <<claims, receipts, eaten>>
  BY SameMutate DEF Store!Hit, Store!Reply, Reply
<1>3. reply = Mutate(s, m) \/ reply = Reply("Success", s) OBVIOUS
<1> HIDE DEF reply, m
<1> QED BY <1>2, <1>1, <1>3, MutationCounted

LEMMA RevivalCounted ==
  ASSUME KInv, NEW c \in Characters, Store!Revival(c)
  PROVE  Counted(Inventories', owner', eaten', claims') /\ receipts' = receipts
<1> DEFINE s == Store!Current(c)
           m == [kind |-> "revive"]
           reply == Mutate(s, m)
<1>1. m \in Mutations /\ m.kind # "pickup" BY DEF Mutations
<1>2. Store!Save(c, reply) /\ UNCHANGED <<claims, receipts, eaten>>
  BY SameMutate DEF Store!Revival, Store!records
<1> HIDE DEF m
<1> QED BY <1>2, <1>1, MutationCounted

LEMMA GrabCounted ==
  ASSUME KInv, NEW c \in Characters, NEW d \in DOMAIN Drops, Store!Grab(c, d)
  PROVE  Counted(Inventories', owner', eaten', claims') /\ receipts' = receipts
<1> DEFINE s == Store!Current(c)
           q == Drops[d].quantity
           m == [kind |-> "pickup", item |-> Drops[d].item, quantity |-> Drops[d].quantity]
           granted == Mutate(s, m)
           first == granted.result = "Success" /\ claims[d] = None
           reply == IF first THEN granted ELSE Reply("AlreadyTaken", s)
<1>1. s \in Good /\ s \in Inventory /\ IInv /\ Counted(Inventories, owner, eaten, claims)
  BY CurrentIs DEF KInv
<1>2. m \in Mutations /\ q \in Nat /\ Drops[d].item \in Items BY RowsAssumption DEF Mutations
<1>3. Store!Granted(c, d) = granted BY SameMutate DEF Store!Granted
<1>4. /\ UNCHANGED <<receipts, eaten>> /\ Store!Save(c, reply)
      /\ claims' = IF first THEN [claims EXCEPT ![d] = c] ELSE claims
  BY <1>3 DEF Store!Grab, Store!Reply, Reply
<1>5. granted.result = "Success" =>
        granted.state \in Good /\ \A K : Turned(K, s, granted.state, 0, Worth(K, Drops[d].item, 0, q))
  <2>1. granted.result = "Success" => granted.state \in Good
    BY <1>1, <1>2, MutateFollows DEF Follows
  <2>2. granted.result = "Success" => \A K : Turned(K, s, granted.state, 0, Brings(K, m))
    BY <1>1, <1>2, MutateTurned
  <2>3. \A K : Brings(K, m) = Worth(K, Drops[d].item, 0, q) BY DEF Brings
  <2> HIDE DEF granted, m, q
  <2> QED BY <2>1, <2>2, <2>3
<1> HIDE DEF granted, m
<1>6. CASE ~first BY <1>4, <1>6, <1>1, QuietCounted DEF Reply
<1>7. CASE first
  <2> DEFINE new == Outcome(c, reply)
             none == [i \in Items |-> 0]
             won == [i \in Items |-> IF Drops[d].item = i THEN q ELSE 0]
  <2>1. new = granted.state /\ new \in Good /\ \A K : Turned(K, s, new, 0, Worth(K, Drops[d].item, 0, q))
    BY <1>5, <1>7 DEF Outcome
  <2>2. /\ \A i \in Items : Worth(All(i), Drops[d].item, 0, q) = won[i]
        /\ \A x, y \in Nat : y # 0 => Worth({<<x, y>>}, Drops[d].item, 0, q) = 0 BY DEF Worth, All
  <2>3. none \in [Items -> Nat] /\ won \in [Items -> Nat] /\ \A i \in Items : none[i] = 0 BY <1>2
  <2>4. /\ eaten \in [Items -> Nat] /\ eaten' = eaten /\ claims = [e \in DOMAIN Drops |-> claims[e]]
    BY <1>1, <1>4 DEF Counted, Balanced
  <2>5. claims' = [claims EXCEPT ![d] = c] /\ claims[d] = None BY <1>4, <1>7
  <2>6. claims' = [e \in DOMAIN Drops |-> claims'[e]] BY <2>4, <2>5
  <2>7. \A i \in Items : Dropped(claims', i) = Dropped(claims, i) + won[i] BY <2>4, <2>5, Claiming
  <2> HIDE DEF won, none, new, q, s
  <2>8. \A i \in Items : eaten'[i] = eaten[i] + none[i] BY <2>3, <2>4
  <2>9. \A i \in Items : Turned(All(i), s, new, none[i], won[i]) BY <2>1, <2>2, <2>3
  <2>10. \A x, y \in Nat : y # 0 => Turned({<<x, y>>}, s, new, 0, 0) BY <2>1, <2>2
  <2>11. Store!Save(c, reply) BY <1>4
  <2> HIDE DEF reply
  <2>12. eaten' \in [Items -> Nat] BY <2>4
  <2>13. receipts' = receipts BY <1>4
  <2> QED BY <1>1, <2>1, <2>3, <2>6, <2>7, <2>8, <2>9, <2>10, <2>11, <2>12, <2>13, SavedCounted DEF new, s
<1> QED BY <1>6, <1>7

\* What may be offered is there.
LEMMA PiecesAre ==
  ASSUME NEW s \in Good, NEW o \in Store!Pieces(s)
  PROVE  /\ o.quantity > 0
         /\ o.instance # 0 => \E i \in SlotIds : /\ o.instance = s.entries[0][i].instance
                                                 /\ o.item = s.entries[0][i].item
<1>1. Store!SlotIds = SlotIds /\ Store!Empty = Empty
  BY DEF Store!SlotIds, SlotIds, Store!Empty, Empty
<1>2. PICK p \in Categories \X SlotIds :
        /\ s.entries[p[1]][p[2]] # Empty
        /\ \E q \in {1, s.entries[p[1]][p[2]].quantity} : o = Store!Offering(s, p[1], p[2], q)
  BY <1>1 DEF Store!Pieces
<1> DEFINE k == p[1]
           i == p[2]
           e == s.entries[k][i]
<1>3. k \in Categories /\ i \in SlotIds OBVIOUS
<1>4. e \in Entry /\ FitsBag(e, k) BY <1>3, GoodParts DEF WellFormed
<1>5. PICK q \in {1, e.quantity} : o = Store!Offering(s, k, i, q) BY <1>2
<1>6. o.quantity = q /\ o.instance = e.instance /\ o.item = e.item BY <1>5 DEF Store!Offering
<1>7. e # Empty BY <1>2
<1> HIDE DEF e
<1> QED BY <1>3, <1>5, <1>6, <1>4, <1>7, EntryFits DEF e

LEMMA OfferPossessed ==
  ASSUME IInv, NEW c \in Characters, Inventories[c] \in Good, NEW x \in Store!OffersOf(c)
  PROVE  Possessed(owner, c, x.items)
<1> DEFINE s == Inventories[c]
           P == Store!Pieces(s)
<1>1. P \subseteq Offerable BY PiecesIn
<1>2. \A o \in P : /\ o.quantity > 0
                   /\ o.instance # 0 => \E i \in SlotIds : /\ o.instance = s.entries[0][i].instance
                                                           /\ o.item = s.entries[0][i].item
  BY PiecesAre
<1>3. \A i \in SlotIds : s.entries[0][i].instance # 0 => Owns(owner, c, s.entries[0][i])
  BY TablesAre, RowsAssumption DEF IInv, Sound, SoundFor, Good, ReadOf, OwnRows
<1> HIDE DEF P
<1>4. x.items \in UNION {[1..n -> P] : n \in 0..MaxItems} BY DEF Store!OffersOf, P
<1> HIDE DEF s
<1>5. PICK n \in 0..MaxItems : x.items \in [1..n -> P] BY <1>4
<1>6. x.items \in Seq(Offerable) /\ x.items \in Seq(P) BY <1>1, <1>5, Numbers, IsASeq
<1>7. \A j \in 1..Len(x.items) : x.items[j] \in P BY <1>6
<1>8. ASSUME NEW j \in 1..Len(x.items)
      PROVE  x.items[j].quantity > 0 /\ (x.items[j].instance # 0 => Owns(owner, c, x.items[j]))
  <2> DEFINE o == x.items[j]
  <2>1. o \in P BY <1>7
  <2> HIDE DEF o
  <2> QED BY <1>2, <1>3, <2>1 DEF Owns, o
<1> QED BY <1>6, <1>8 DEF Possessed

LEMMA ExchangeSwaps ==
  ASSUME IInv, NEW t \in Trades, NEW pair \in Pairs,
         NEW x \in Store!OffersOf(pair[1]), NEW y \in Store!OffersOf(pair[2]),
         Store!Exchange(t, pair, <<x, y>>)
  PROVE  /\ Swapping(Inventories, Inventories', owner, owner', pair[1], pair[2], x, y)
         /\ x \in Offers /\ y \in Offers /\ UNCHANGED <<claims, eaten>>
         /\ receipts' = [receipts EXCEPT ![t] = [pair |-> pair, offers |-> <<x, y>>]]
<1> DEFINE a == pair[1]
           b == pair[2]
           inv == Inventories
           next == Inventories'
           offers == <<x, y>>
           old == [side \in 1..2 |-> inv[pair[side]]]
           done == ApplyTrade(offers, old)
           u == done.states[1]
           v == done.states[2]
<1>1. a \in Characters /\ b \in Characters /\ a # b BY RowsAssumption
<1>2. inv \in Stored /\ owner \in Seq(Characters \X Nat) BY StoredIs
<1>3. /\ UNCHANGED <<claims, eaten>>
      /\ receipts' = [receipts EXCEPT ![t] = [pair |-> pair, offers |-> offers]]
      /\ \A side \in 1..2 : inv[pair[side]] # None
      /\ done.result = "Success"
      /\ next = [c \in Characters |-> IF c = a THEN u ELSE IF c = b THEN v ELSE inv[c]]
      /\ owner' = [n \in DOMAIN owner |->
           IF n \in Store!GearOf(offers[1]) THEN <<b, owner[n][2]>>
           ELSE IF n \in Store!GearOf(offers[2]) THEN <<a, owner[n][2]>> ELSE owner[n]]
  BY SameApplyTrade DEF Store!Exchange, Store!IsNew
<1>4. inv[a] # None /\ inv[b] # None BY <1>3
<1>5. inv[a] \in Good /\ inv[b] \in Good BY <1>1, <1>2, <1>4 DEF Stored
<1>6. x \in Offers /\ y \in Offers /\ Possessed(owner, a, x.items) /\ Possessed(owner, b, y.items)
  BY <1>1, <1>5, OffersIn, OfferPossessed
<1>7. offers[1] = x /\ offers[2] = y /\ old[1] = inv[a] /\ old[2] = inv[b]
      /\ old = [side \in 1..2 |-> old[side]] OBVIOUS
<1> HIDE DEF offers, old
<1>8. old \in [1..2 -> Inventory] /\ offers[1] \in Offers /\ offers[2] \in Offers
  BY <1>5, <1>6, <1>7 DEF Good
<1>9. u \in Good /\ v \in Good
  <2>1. \A side \in 1..2 : Traded(old[side], offers[side].items, offers[3 - side].items, done.states[side])
    BY <1>3, <1>8, TradeIs
  <2> HIDE DEF done
  <2> QED BY <2>1 DEF Traded
<1>10. \A K : Settled(K, inv[a], x, y, u) /\ Settled(K, inv[b], y, x, v)
  <2> SUFFICES ASSUME NEW K PROVE Settled(K, inv[a], x, y, u) /\ Settled(K, inv[b], y, x, v) OBVIOUS
  <2>1. \A side \in 1..2 : Settled(K, old[side], offers[side], offers[3 - side], done.states[side])
    BY <1>3, <1>8, TradeTotal
  <2> HIDE DEF done
  <2> QED BY <1>7, <2>1
<1>11. owner' = Regive(owner, a, b, x.items, y.items)
  <2>1. DOMAIN x.items = 1..Len(x.items) /\ DOMAIN y.items = 1..Len(y.items) BY <1>6 DEF Offers
  <2> QED BY <1>3, <1>7, <2>1 DEF Regive, Store!GearOf, Store!Offered, GearTo
<1> HIDE DEF u, v, done, inv, next
<1>12. None \notin Good BY RowsAssumption DEF Good
<1> QED
  BY <1>3, <1>6, <1>1, <1>2, <1>10, <1>11, <1>9, <1>4, <1>12 DEF inv, next, offers, Swapping, Stored

LEMMA ExchangeCounted ==
  ASSUME KInv, NEW t \in Trades, NEW pair \in Pairs,
         NEW x \in Store!OffersOf(pair[1]), NEW y \in Store!OffersOf(pair[2]),
         Store!Exchange(t, pair, <<x, y>>)
  PROVE  Counted(Inventories', owner', eaten', claims')
<1> DEFINE inv == Inventories
           next == Inventories'
<1>1. IInv /\ Balanced(inv, eaten, claims) /\ GearKept(inv, owner) /\ Bounded(inv)
  BY DEF KInv, Counted
<1>2. /\ Swapping(inv, next, owner, owner', pair[1], pair[2], x, y)
      /\ x \in Offers /\ y \in Offers /\ claims' = claims /\ eaten' = eaten BY <1>1, ExchangeSwaps
<1> QED BY <1>1, <1>2, SwappedGear, SwappedBounded, SwappedOwned DEF Counted, Balanced

LEMMA InitCounted ==
  ASSUME Init
  PROVE  KInv
<1> DEFINE inv == Inventories
           none == [c \in Characters |-> None]
<1>1. /\ owner = <<>> /\ claims = [d \in DOMAIN Drops |-> None]
      /\ receipts = [t \in Trades |-> None] /\ eaten = [i \in Items |-> 0] BY DEF Init
<1>2. inv = none BY DEF Init, Inventories, Read
<1>3. IsFiniteSet(Characters) /\ Cardinality(Characters) \in Nat /\ Starter(1) \in Good
  BY RowsAssumption, FS_CardinalityType, StarterGood
<1>4. ASSUME NEW f, NEW k \in Nat, \A c \in Characters : f[c] = k
      PROVE  SumFunctionOnSet(f, Characters) = Cardinality(Characters) * k
  <2> DEFINE x == SumFunctionOnSet(f, Characters)
             y == Cardinality(Characters) * k
  <2>1. x + Cardinality({}) * k = SumFunctionOnSet(f, {}) + y BY <1>4, <1>3, SumConst
  <2>2. Cardinality({}) = 0 /\ SumFunctionOnSet(f, {}) = 0 BY FS_EmptySet, SumNone
  <2>3. x \in Nat BY <1>3, <1>4, SumNat
  <2>4. y \in Nat
    <3> DEFINE z == Cardinality(Characters)
    <3>1. z \in Nat BY <1>3
    <3> HIDE DEF z
    <3>2. z * k \in Nat BY <3>1
    <3> QED BY <3>2 DEF z
  <2>5. 0 * k = 0 OBVIOUS
  <2> HIDE DEF x, y
  <2>6. x + 0 * k = 0 + y BY <2>1, <2>2
  <2>7. x = y BY <2>3, <2>4, <2>5, <2>6
  <2> QED BY <2>7 DEF x, y
<1> HIDE DEF inv
<1>5. \A c \in Characters : Has(inv, c) = Starter(1) BY <1>2 DEF Has
<1>6. Purse(inv) = Cardinality(Characters) * StarterPack.mesos
  <2> DEFINE f == [c \in Characters |-> Has(inv, c).mesos]
             k == StarterPack.mesos
  <2>1. k \in Nat /\ Starter(1).mesos = k BY StarterAssumption, Numbers DEF Starter
  <2>2. \A c \in Characters : f[c] = k BY <1>5, <2>1
  <2> HIDE DEF f, k
  <2> QED BY <1>4, <2>1, <2>2 DEF Purse, f, k
<1>7. ASSUME NEW i \in Items
      PROVE  Owned(inv, All(i)) + eaten[i]
               = Cardinality(Characters) * Total(All(i), Starter(1)) + Dropped(claims, i)
  <2> DEFINE k == Total(All(i), Starter(1))
             f == [c \in Characters |-> Total(All(i), Has(inv, c))]
             g == [d \in DOMAIN Drops |->
                     IF claims[d] # None /\ Drops[d].item = i THEN Drops[d].quantity ELSE 0]
  <2>1. k \in Nat BY <1>3, GoodParts, TotalNat
  <2>2. \A c \in Characters : f[c] = k BY <1>5
  <2>3. \A d \in DOMAIN Drops : g[d] = 0 BY <1>1
  <2> HIDE DEF f, g, k
  <2> QED BY <1>1, <1>4, <2>1, <2>2, <2>3, SumZero, RowsAssumption DEF k, f, g, Owned, Dropped
<1>8. eaten \in [Items -> Nat] /\ claims = [d \in DOMAIN Drops |-> claims[d]]
      /\ receipts = [t \in Trades |-> receipts[t]] BY <1>1
<1>9. Balanced(inv, eaten, claims) BY <1>6, <1>7, <1>8 DEF Balanced
<1>10. IInv BY InitIs
<1> QED BY <1>8, <1>9, <1>1, <1>2, <1>10 DEF KInv, Counted, inv, GearKept, Bounded

\* What a step makes of the receipts: at most one is new, of an exchange that
\* takes place in this step.
Swaps(t) ==
  \E pair \in Pairs : \E x, y \in Offers :
    /\ Swapping(Inventories, Inventories', owner, owner', pair[1], pair[2], x, y)
    /\ receipts' = [receipts EXCEPT ![t] = [pair |-> pair, offers |-> <<x, y>>]]

LEMMA StepCounted ==
  ASSUME KInv, Next
  PROVE  KInv' /\ (receipts' = receipts \/ \E t \in Trades : Swaps(t))
<1>1. IInv' /\ Store!Next /\ IInv BY NextIs DEF KInv
<1>2. receipts = [t \in Trades |-> receipts[t]] BY DEF KInv
<1> DEFINE Goal == /\ Counted(Inventories', owner', eaten', claims')
                   /\ receipts' = receipts \/ \E t \in Trades : Swaps(t)
<1>3. Goal
  <2>1. ASSUME NEW c \in Characters, Store!Request(c, Store!Refresh) PROVE Goal
    BY <1>1, <2>1, RequestsIn, RequestCounted DEF Store!Refresh, Refresh
  <2>2. ASSUME NEW c \in Players, NEW r \in Store!RequestsOf(c), Store!Request(c, r) PROVE Goal
    BY RowsAssumption, <1>1, RequestsIn, <2>2, RequestCounted
  <2>3. ASSUME NEW c \in Players, NEW h \in DOMAIN Hits, Store!Hit(c, h) PROVE Goal
    BY <2>3, HitCounted, RowsAssumption
  <2>4. ASSUME NEW c \in Players, Store!Revival(c) PROVE Goal
    BY <2>4, RevivalCounted, RowsAssumption
  <2>5. ASSUME NEW c \in Players, NEW d \in DOMAIN Drops, Store!Grab(c, d) PROVE Goal
    BY <2>5, GrabCounted, RowsAssumption
  <2>6. ASSUME NEW t \in Trades, NEW pair \in Pairs,
               NEW x \in Store!OffersOf(pair[1]), NEW y \in Store!OffersOf(pair[2]),
               Store!Exchange(t, pair, <<x, y>>)
        PROVE  Goal BY <2>6, ExchangeCounted, <1>1, ExchangeSwaps DEF Swaps
  <2> HIDE DEF Goal
  <2> QED BY <1>1, <2>1, <2>2, <2>3, <2>4, <2>5, <2>6 DEF Store!Next
<1>4. receipts' = [t \in Trades |-> receipts'[t]]
  <2>1. CASE receipts' = receipts BY <1>2, <2>1
  <2>2. CASE \E t \in Trades : Swaps(t)
    <3>1. PICK t \in Trades : \E r : receipts' = [receipts EXCEPT ![t] = r] BY <2>2 DEF Swaps
    <3> QED BY <1>2, <3>1
  <2> QED BY <1>3, <2>1, <2>2
<1> QED BY <1>1, <1>3, <1>4 DEF KInv

LEMMA StutterCounted ==
  ASSUME KInv, UNCHANGED vars
  PROVE  KInv'
BY StutterIs DEF KInv, vars, rows, Inventories, Read

-----------------------------------------------------------------------------
(* What the store counts.                                                     *)

LEMMA StoreSum ==
  ASSUME NEW f
  PROVE  Store!SumFunction(f) = SumFunctionOnSet(f, DOMAIN f)
BY DEF Store!SumFunction, Store!SumFunctionOnSet, SumFunctionOnSet, Store!FoldFunctionOnSet,
  FoldFunctionOnSet, Store!MapThenFoldSet, MapThenFoldSet

LEMMA SameCardinality ==
  ASSUME NEW S PROVE Store!Cardinality(S) = Cardinality(S)
BY DEF Store!Cardinality, Cardinality

LEMMA CountIs ==
  ASSUME NEW s \in Good, NEW i \in Items
  PROVE  Store!Count(s, i) = Total(All(i), s)
<1> DEFINE K == All(i)
           at(k, p) == IF s.entries[k][p].item = i THEN s.entries[k][p].quantity ELSE 0
           W == {w \in WornSlots : s.equipped[w].item = i}
<1>1. /\ \A k \in Categories, p \in SlotIds : s.entries[k][p] \in Entry
      /\ s.equipped[0] \in Entry /\ s.equipped[1] \in Entry
      /\ FitsBody(s.equipped[0], 0) /\ FitsBody(s.equipped[1], 1) BY GoodParts DEF WornSlots
<1>2. \A e \in Entry : Part(K, e) = IF e.item = i THEN e.quantity ELSE 0 BY DEF Part, All, Entry
<1>3. \A k \in Categories, p \in SlotIds : at(k, p) = Part(K, s.entries[k][p]) BY <1>1, <1>2
<1>4. ASSUME NEW k \in Categories
      PROVE  Store!SumFunction([p \in SlotIds |-> at(k, p)]) = InBag(K, s.entries[k])
  BY <1>3, StoreSum DEF InBag
<1>5. Store!SumFunction([k \in Categories |-> Store!SumFunction([p \in SlotIds |-> at(k, p)])])
        = InBags(K, s)
  <2>1. [k \in Categories |-> Store!SumFunction([p \in SlotIds |-> at(k, p)])]
          = [k \in Categories |-> InBag(K, s.entries[k])] BY <1>4
  <2> HIDE DEF at
  <2> QED BY <2>1, StoreSum DEF InBags
<1>6. Cardinality(W) = OnBody(K, s)
  <2> DEFINE d == s.equipped[0]
             e == s.equipped[1]
  <2>1. i # 0 BY Catalog DEF Items
  <2>2. OnBody(K, s) = (IF d.item = i THEN 1 ELSE 0) + (IF e.item = i THEN 1 ELSE 0)
    BY <1>1, <1>2, <2>1, EmptyFits DEF FitsBody, OnBody
  <2>3. W = (IF d.item = i THEN {0} ELSE {}) \cup (IF e.item = i THEN {1} ELSE {}) BY DEF WornSlots
  <2>4. Cardinality({}) = 0 /\ Cardinality({0}) = 1 /\ Cardinality({1}) = 1 /\ IsFiniteSet({0})
    BY FS_EmptySet, FS_Singleton
  <2>5. Cardinality({0} \cup {1}) = 2
    <3>1. Cardinality(0..1) = 1 - 0 + 1
      <4>1. 0 \in Int /\ 1 \in Int /\ ~(0 > 1) OBVIOUS
      <4> QED BY ONLY <4>1, FS_Interval, Zenon
    <3>2. {0} \cup {1} = 0..1 OBVIOUS
    <3> QED BY ONLY <3>1, <3>2
  <2> HIDE DEF d, e, W
  <2>6. CASE d.item = i /\ e.item = i BY <2>2, <2>3, <2>5, <2>6
  <2>7. CASE d.item = i /\ e.item # i BY <2>3, <2>7, <2>2, <2>4
  <2>8. CASE d.item # i /\ e.item = i BY <2>3, <2>8, <2>2, <2>4
  <2>9. CASE d.item # i /\ e.item # i BY <2>3, <2>9, <2>2, <2>4
  <2> QED BY <2>6, <2>7, <2>8, <2>9
<1>7. Store!SlotIds = SlotIds /\ Store!WornSlots = WornSlots
  BY DEF Store!SlotIds, SlotIds, Store!WornSlots, WornSlots
<1>8. Store!Count(s, i) =
        Store!SumFunction([k \in Categories |-> Store!SumFunction([p \in SlotIds |-> at(k, p)])])
          + Cardinality(W)
  BY ONLY SameCardinality DEF Store!Count, Store!SlotIds, SlotIds, Store!WornSlots, WornSlots
<1> QED BY <1>5, <1>6, <1>8 DEF Total

\* A sum over those who have an inventory.
LEMMA KnownSum ==
  ASSUME NEW inv \in Stored, NEW f, NEW k \in Nat, NEW S, S = {c \in Characters : inv[c] # None},
         \A c \in Characters : f[c] \in Nat, \A c \in Characters \ S : f[c] = k
  PROVE  /\ SumFunctionOnSet(f, Characters) + Cardinality(S) * k
              = SumFunctionOnSet(f, S) + Cardinality(Characters) * k
         /\ SumFunctionOnSet(f, Characters) \in Nat /\ SumFunctionOnSet(f, S) \in Nat
         /\ Cardinality(S) * k \in Nat /\ Cardinality(Characters) * k \in Nat
<1>1. IsFiniteSet(Characters) /\ S \in SUBSET Characters BY RowsAssumption
<1>2. IsFiniteSet(S) BY <1>1, FS_Subset
<1> DEFINE x == Cardinality(S)
           y == Cardinality(Characters)
<1>3. x \in Nat /\ y \in Nat BY <1>1, <1>2, FS_CardinalityType
<1> HIDE DEF x, y
<1>4. x * k \in Nat /\ y * k \in Nat BY <1>3
<1>5. \A c \in S : f[c] \in Nat BY <1>1
<1> QED BY <1>4, <1>1, <1>2, <1>5, SumNat, SumConst DEF x, y

LEMMA StacksAre ==
  ASSUME KInv
  PROVE  Store!StacksConserved
<1> DEFINE inv == Inventories
           S == Store!Known
<1>1. inv \in Stored /\ Balanced(inv, eaten, claims) BY StoredIs DEF KInv, Counted
<1>2. S = {c \in Characters : inv[c] # None} BY DEF Store!Known
<1>3. \A c \in S : inv[c] \in Good /\ Has(inv, c) = inv[c] BY <1>1, <1>2 DEF Stored, Has
<1>4. \A c \in Characters \ S : Has(inv, c) = Starter(1) BY <1>2 DEF Has
<1>5. IsFiniteSet(S) /\ S \subseteq Characters BY <1>2, FS_Subset, RowsAssumption
<1>6. ASSUME NEW i \in Items
      PROVE  Store!SumFunction([c \in S |-> Store!Count(inv[c], i)]) + eaten[i]
               = Cardinality(S) * Store!Count(Store!Starter(1), i)
                 + Store!SumFunction([d \in Store!Claimed(i) |-> Drops[d].quantity])
  <2> DEFINE K == All(i)
             k == Total(K, Starter(1))
             f == [c \in Characters |-> Total(K, Has(inv, c))]
             g == [c \in S |-> Store!Count(inv[c], i)]
  <2>1. k \in Nat /\ Store!Count(Store!Starter(1), i) = k
    BY StarterGood, GoodParts, TotalNat, CountIs, SameStarter
  <2>2. (\A c \in Characters : f[c] \in Nat) /\ \A c \in Characters \ S : f[c] = k
    BY <1>1, <1>4, HasGood
  <2>3. \A c \in S : f[c] \in Nat /\ g[c] = f[c]
    <3> SUFFICES ASSUME NEW c \in S PROVE f[c] \in Nat /\ g[c] = f[c] OBVIOUS
    <3> QED BY <1>5, <2>2, <1>3, CountIs
  <2>4. Store!SumFunction(g) = SumFunctionOnSet(g, S) BY StoreSum
  <2>5. Owned(inv, K) = SumFunctionOnSet(f, Characters) BY DEF Owned
  <2> HIDE DEF f, g, k, inv, S
  <2>6. SumFunctionOnSet(f, S) = SumFunctionOnSet(g, S) BY <1>5, <2>3, SumSame
  <2>7. /\ SumFunctionOnSet(f, Characters) + Cardinality(S) * k
             = SumFunctionOnSet(f, S) + Cardinality(Characters) * k
        /\ SumFunctionOnSet(f, Characters) \in Nat /\ SumFunctionOnSet(f, S) \in Nat
        /\ Cardinality(S) * k \in Nat /\ Cardinality(Characters) * k \in Nat
    BY <1>1, <1>2, <2>1, <2>2, KnownSum
  <2>8. Owned(inv, K) + eaten[i] = Cardinality(Characters) * k + Dropped(claims, i)
        /\ eaten[i] \in Nat BY <1>1 DEF Balanced, k
  <2>9. Store!SumFunction([d \in Store!Claimed(i) |-> Drops[d].quantity]) = Dropped(claims, i)
    <3> DEFINE T == Store!Claimed(i)
               p == [d \in DOMAIN Drops |->
                       IF claims[d] # None /\ Drops[d].item = i THEN Drops[d].quantity ELSE 0]
               q == [d \in T |-> Drops[d].quantity]
    <3>1. T = {d \in DOMAIN Drops : claims[d] # None /\ Drops[d].item = i} BY DEF Store!Claimed
    <3>2. IsFiniteSet(DOMAIN Drops) /\ T \in SUBSET (DOMAIN Drops)
          /\ \A d \in DOMAIN Drops : p[d] \in Nat BY <3>1, RowsAssumption
    <3>3. (\A d \in (DOMAIN Drops) \ T : p[d] = 0) /\ \A d \in T : p[d] \in Nat /\ q[d] = p[d]
      BY <3>1, <3>2
    <3>4. IsFiniteSet(T) BY <3>2, FS_Subset
    <3>5. Store!SumFunction(q) = SumFunctionOnSet(q, T) BY StoreSum
    <3> HIDE DEF p, q, T
    <3>6. SumFunctionOnSet(p, T) = SumFunctionOnSet(q, T) BY <3>3, <3>4, SumSame
    <3> QED BY <3>5, <3>2, <3>3, SumRest, <3>6 DEF Dropped, p, q, T
  <2> DEFINE a == SumFunctionOnSet(g, S)
             b == Owned(inv, K)
             x == Cardinality(S) * k
             y == Cardinality(Characters) * k
             e == eaten[i]
             z == Dropped(claims, i)
  <2>10. b + x = a + y /\ b \in Nat /\ a \in Nat /\ x \in Nat /\ y \in Nat BY <2>5, <2>6, <2>7
  <2>11. b + e = y + z /\ e \in Nat /\ z \in Nat BY <2>8, DroppedNat
  <2> HIDE DEF a, b, x, y, e, z
  <2>12. a + e = x + z BY <2>10, <2>11
  <2> QED BY <2>1, <2>4, <2>9, <2>12 DEF a, x, e, z, g
<1>7. Store!SumFunction([c \in S |-> inv[c].mesos]) = Cardinality(S) * StarterPack.mesos
  <2> DEFINE k == StarterPack.mesos
             f == [c \in Characters |-> Has(inv, c).mesos]
             g == [c \in S |-> inv[c].mesos]
  <2>1. k \in Nat /\ Starter(1).mesos = k BY StarterAssumption, Numbers DEF Starter
  <2>2. (\A c \in Characters : f[c] \in Nat) /\ \A c \in Characters \ S : f[c] = k
    BY <1>1, <1>4, <2>1, HasGood
  <2>3. \A c \in S : f[c] \in Nat /\ g[c] = f[c] BY <1>3, <1>5, <2>2
  <2>4. Store!SumFunction(g) = SumFunctionOnSet(g, S) BY StoreSum
  <2>5. Purse(inv) = SumFunctionOnSet(f, Characters) BY DEF Purse
  <2> HIDE DEF f, g, k, inv, S
  <2>6. SumFunctionOnSet(f, S) = SumFunctionOnSet(g, S) BY <1>5, <2>3, SumSame
  <2>7. /\ SumFunctionOnSet(f, Characters) + Cardinality(S) * k
             = SumFunctionOnSet(f, S) + Cardinality(Characters) * k
        /\ SumFunctionOnSet(f, Characters) \in Nat /\ SumFunctionOnSet(f, S) \in Nat
        /\ Cardinality(S) * k \in Nat /\ Cardinality(Characters) * k \in Nat
    BY <1>1, <1>2, <2>1, <2>2, KnownSum
  <2>8. Purse(inv) = Cardinality(Characters) * k BY <1>1 DEF Balanced, k
  <2> DEFINE a == SumFunctionOnSet(g, S)
             x == Cardinality(S) * k
             y == Cardinality(Characters) * k
  <2>9. y + x = a + y /\ a \in Nat /\ x \in Nat /\ y \in Nat BY <2>5, <2>6, <2>7, <2>8
  <2> HIDE DEF a, x, y
  <2>10. a = x BY <2>9
  <2> QED BY <2>4, <2>10 DEF a, x, g, k
<1>8. Store!Items = Items BY DEF Store!Items, Items, Store!ItemsOf, ItemsOf
<1>9. \A i \in Store!Items :
        Store!SumFunction([c \in S |-> Store!Count(inv[c], i)]) + eaten[i]
          = Cardinality(S) * Store!Count(Store!Starter(1), i)
            + Store!SumFunction([d \in Store!Claimed(i) |-> Drops[d].quantity])
  BY ONLY <1>6, <1>8, Zenon
<1> QED BY ONLY <1>7, <1>9, SameCardinality, Zenon DEF Store!StacksConserved

LEMMA GearIs ==
  ASSUME KInv
  PROVE  Store!GearHasOnePlace
<1> DEFINE inv == Inventories
<1>1. /\ inv \in Stored /\ owner \in Seq(Characters \X Nat) /\ GearKept(inv, owner) /\ IInv
  BY StoredIs DEF KInv, Counted
<1>2. Store!Places = Places /\ \A s, p : Store!At(s, p) = At(s, p)
  BY DEF Store!Places, Places, Store!SlotIds, SlotIds, Store!WornSlots, WornSlots, Store!At, At
<1>3. ASSUME NEW c \in Characters, inv[c] # None, NEW p \in Places, At(inv[c], p).instance # 0
      PROVE  Owns(owner, c, At(inv[c], p))
  <2>1. inv[c] = ReadOf(Tables, c) BY <1>3, TablesAre
  <2>2. inv[c].entries = Tables.slots[c] /\ inv[c].equipped = Tables.equipment[c] BY <2>1 DEF ReadOf
  <2>3. OwnRows(owner, Tables.slots, Tables.equipment, c)
    BY <1>1, TablesAre DEF IInv, Sound, SoundFor
  <2> HIDE DEF inv
  <2> QED BY <1>3, <2>2, <2>3, RowsOwned
<1> HIDE DEF inv
<1>4. ASSUME NEW n \in DOMAIN owner
      PROVE  \E p \in Places :
               /\ {x \in Store!Known \X Places : At(inv[x[1]], x[2]).instance = n} = {<<owner[n][1], p>>}
               /\ At(inv[owner[n][1]], p).item = owner[n][2]
  <2> DEFINE d == owner[n][1]
             m == owner[n][2]
  <2>1. n \in Nat \ {0} /\ owner[n] \in Characters \X Nat BY <1>1
  <2>2. d \in Characters BY <2>1
  <2>3. inv[d] # None /\ Total({<<m, n>>}, inv[d]) > 0 BY <1>1 DEF GearKept
  <2>4. inv[d] \in Good BY <1>1, <2>2, <2>3 DEF Stored
  <2>5. PICK p \in Places : At(inv[d], p).instance = n /\ At(inv[d], p).item = m
    <3> DEFINE s == inv[d]
               K == {<<m, n>>}
    <3>1. s \in Good /\ Total(K, s) > 0 BY <2>3, <2>4
    <3> HIDE DEF s, m, d
    <3>2. K = {<<m, n>>} OBVIOUS
    <3> HIDE DEF K
    <3>3. n \in Nat \ {0} BY <2>1
    <3>4. \E p \in Places : At(s, p).instance = n /\ At(s, p).item = m
      BY ONLY <3>1, <3>2, <3>3, Somewhere
    <3> QED BY <3>4 DEF s
  <2>6. \A c : c \in Store!Known <=> c \in Characters /\ inv[c] # None BY DEF Store!Known, inv
  <2>7. ASSUME NEW c \in Store!Known, NEW q \in Places, At(inv[c], q).instance = n
        PROVE  c = d /\ q = p
    <3>1. c \in Characters /\ inv[c] # None /\ n # 0 BY <2>1, <2>6
    <3>2. Owns(owner, c, At(inv[c], q)) BY <1>3, <2>7, <3>1
    <3>3. owner[n] = <<c, At(inv[c], q).item>> BY <2>7, <3>2 DEF Owns
    <3>4. c = d BY <3>3
    <3>5. \A x, y \in Places : At(inv[d], x).instance = At(inv[d], y).instance
                                 => x = y \/ At(inv[d], x).instance = 0 BY <2>4, GoodParts
    <3> HIDE DEF d
    <3> QED BY <2>5, <2>7, <3>1, <3>4, <3>5
  <2>8. d \in Store!Known BY <2>2, <2>3, <2>6
  <2> HIDE DEF d, m
  <2> QED BY <2>5, <2>7, <2>8 DEF d, m
<1> QED BY <1>2, <1>4 DEF Store!GearHasOnePlace, inv

-----------------------------------------------------------------------------
(* A committed exchange.                                                      *)

LEMMA OfferedIs ==
  ASSUME NEW offer \in Offers, NEW i
  PROVE  OfferedOf(offer, i) = InSeq(All(i), offer.items)
<1> DEFINE items == offer.items
           f == [n \in DOMAIN items |-> IF items[n].item = i THEN items[n].quantity ELSE 0]
           g == [n \in 1..Len(items) |-> Part(All(i), items[n])]
<1>1. items \in Seq(Offerable) BY DEF Offers
<1> HIDE DEF items
<1>2. DOMAIN items = 1..Len(items) /\ \A n \in 1..Len(items) : items[n].instance \in Nat
  <2>1. \A o \in Offerable : o.instance \in Nat BY DEF Offerable
  <2> QED BY <1>1, <2>1
<1>3. f = g BY <1>2 DEF Part, All
<1>4. DOMAIN g = 1..Len(items) OBVIOUS
<1> HIDE DEF f, g
<1> QED
  BY <1>3, <1>4 DEF OfferedOf, InSeq, f, g, items, SumFunction

\* What one side has afterwards.
SideExact(s, given, got, t) ==
  /\ t.mesos + given.mesos = s.mesos + got.mesos
  /\ \A i \in Items : Store!Count(t, i) + OfferedOf(given, i) = Store!Count(s, i) + OfferedOf(got, i)
  /\ t.hp = s.hp /\ t.mp = s.mp /\ t.equipped = s.equipped

LEMMA SettledExact ==
  ASSUME NEW s \in Good, NEW t \in Good, NEW given \in Offers, NEW got \in Offers,
         \A K : Settled(K, s, given, got, t)
  PROVE  SideExact(s, given, got, t)
BY CountIs, OfferedIs DEF Settled, SameBody, SideExact

LEMMA StepExact ==
  ASSUME KInv, Next, NEW t \in Trades, receipts'[t] # receipts[t]
  PROVE  Exchanged(t)
<1>1. PICK u \in Trades : Swaps(u) BY StepCounted
<1>2. PICK pair \in Pairs, x \in Offers, y \in Offers :
        /\ Swapping(Inventories, Inventories', owner, owner', pair[1], pair[2], x, y)
        /\ receipts' = [receipts EXCEPT ![u] = [pair |-> pair, offers |-> <<x, y>>]]
  BY <1>1 DEF Swaps
<1>3. receipts = [v \in Trades |-> receipts[v]] BY DEF KInv
<1>4. receipts'[t] = [pair |-> pair, offers |-> <<x, y>>] BY <1>2, <1>3
<1> DEFINE a == pair[1]
           b == pair[2]
           inv == Inventories
           next == Inventories'
<1>5. \A K : Settled(K, inv[a], x, y, next[a]) /\ Settled(K, inv[b], y, x, next[b])
  BY <1>2 DEF Swapping
<1>6. SideExact(inv[a], x, y, next[a]) /\ SideExact(inv[b], y, x, next[b])
  BY <1>2, SwappingIs, <1>5, SettledExact
<1> HIDE DEF inv, next
<1> DEFINE offers == <<x, y>>
<1>7. \A side \in 1..2 : SideExact(inv[pair[side]], offers[side], offers[3 - side], next[pair[side]])
  <2> SUFFICES ASSUME NEW side \in 1..2
               PROVE  SideExact(inv[pair[side]], offers[side], offers[3 - side], next[pair[side]])
    OBVIOUS
  <2>1. CASE side = 1 BY <2>1, <1>6
  <2>2. CASE side = 2 BY <2>2, <1>6
  <2> QED BY <2>1, <2>2
<1>8. receipts'[t].pair = pair /\ receipts'[t].offers = offers BY <1>4
<1> HIDE DEF offers
<1> QED BY <1>7, <1>8 DEF Exchanged, SideExact, inv, next

\* Nothing is lost and nothing doubled: whatever is requested, hit, revived, picked up
\* and traded in whatever order, and however often a hit, a pickup or an exchange is
\* repeated, all that characters own is what they began with and what drops gave, each
\* drop once, less the potions used; all mesos are still there, and each instance of
\* gear is in exactly one place, of the character who owns it.
THEOREM PiecesOnlyMove == Spec => []ItemsConserved
<1>1. KInv => ItemsConserved BY StacksAre, GearIs DEF ItemsConserved, Store!ItemsConserved
<1>2. Init => KInv BY InitCounted
<1>3. KInv /\ [Next]_vars => KInv' BY StepCounted, StutterCounted
<1> QED BY <1>1, <1>2, <1>3, PTL DEF Spec

\* An exchange that is on record has moved exactly what both sides offered: pieces of
\* every item and mesos, while health, mana and what is worn stay as they were.
THEOREM ExchangesAreExact == Spec => ExchangeExact
<1>1. Init => KInv BY InitCounted
<1>2. KInv /\ [Next]_vars => KInv' BY StepCounted, StutterCounted
<1>3. KInv /\ [Next]_vars => [\A t \in Trades : receipts'[t] # receipts[t] => Exchanged(t)]_vars
  BY StepExact
<1> QED BY <1>1, <1>2, <1>3, PTL DEF Spec, ExchangeExact

-----------------------------------------------------------------------------
(* Whether there is room.                                                     *)

LEMMA RoomIs ==
  ASSUME NEW s, NEW k, NEW i
  PROVE  Room(s, k, i) = RoomIn(s.entries[k], i, StackLimit(i, k))
<1> DEFINE f == [p \in SlotIds |->
             IF s.entries[k][p].item \in {0, i} THEN StackLimit(i, k) - s.entries[k][p].quantity ELSE 0]
           g == [p \in SlotIds |-> RoomAt(s.entries[k], i, StackLimit(i, k), p)]
<1>1. f = g /\ DOMAIN f = SlotIds BY DEF RoomAt
<1> HIDE DEF f, g
<1> QED BY <1>1 DEF Room, RoomIn, f, g, SumFunction

LEMMA PickupDecides ==
  ASSUME NEW s \in Good
  PROVE  PickupFits(s)
<1> SUFFICES ASSUME NEW k \in Categories \cap {1, 3}, NEW i \in ItemsOf(k),
                    NEW q \in 1..(Slots * Limit[k] + 1), s.hp > 0
             PROVE  Pickup(s, i, q).result = "Success" <=> q <= Room(s, k, i) BY DEF PickupFits
<1> DEFINE put == Filled(s, k, i, q)
           room == Room(s, k, i)
<1>1. k \in Categories /\ k # 0 /\ CategoryOf(i) = k BY DEF CategoryOf, ItemsOf
<1>2. q \in Nat /\ q # 0 BY <1>1, Numbers, Catalog
<1>3. s.entries[k] \in Bags(k) /\ s.hp # 0 BY GoodParts, Numbers, <1>1
<1>4. put.left = 0 <=> q <= room BY <1>1, <1>2, <1>3, DepositAmounts, RoomIs DEF Filled
<1>5. put.left \in Nat BY <1>1, <1>2, <1>3, DepositFits DEF Filled, Filling
<1>6. Pickup(s, i, q).result = "Success" <=> ~(put.left > 0)
  <2>1. k # -1 BY <1>1, Catalog
  <2> HIDE DEF put
  <2> QED BY <1>1, <1>2, <1>3, <2>1 DEF Reply, Pickup, put
<1> HIDE DEF put, room
<1>7. put.left = 0 <=> ~(put.left > 0) BY <1>5
<1> QED BY <1>4, <1>6, <1>7 DEF room

-----------------------------------------------------------------------------
(* Two pieces of gear change hands.                                           *)

\* Inventories that can trade.
Trader(s) ==
  /\ s \in Good /\ s.hp > 0 /\ s.revision > 0 /\ s.revision + 1 < MaxRevision
  /\ s.mesos <= MaxMesos

LEMMA TakeOne ==
  ASSUME NEW s, NEW o
  PROVE  TakeAll(s, <<o>>) = Take([result |-> "Success", state |-> s, taken |-> {}], o)
<1> DEFINE b == [result |-> "Success", state |-> s, taken |-> {}]
           f == [n \in 0..1 |-> IF n = 0 THEN b ELSE Take(b, o)]
           items == <<o>>
<1>1. Len(items) = 1 /\ items[1] = o /\ Len(items) \in Nat OBVIOUS
<1>2. f[0] = b /\ f[1] = Take(b, o) /\ f = [n \in 0..1 |-> f[n]] OBVIOUS
<1> HIDE DEF b, f, items
<1>3. \A n \in 1..1 : n = 1 /\ n - 1 = 0 OBVIOUS
<1>4. TakeRule(f, s, items) BY <1>1, <1>2, <1>3 DEF TakeRule, b
<1>5. TakeAll(s, items) = f[1]
  <2>1. TakeAll(s, items) = f[Len(items)] BY ONLY <1>1, <1>4, TakeAllIs, Zenon
  <2> QED BY <1>1, <2>1
<1> QED BY <1>2, <1>5 DEF b, items

LEMMA ReceiveOne ==
  ASSUME NEW s, NEW o
  PROVE  ReceiveAll(s, <<o>>) = Receive(Reply("Success", s), o)
<1> DEFINE b == Reply("Success", s)
           f == [n \in 0..1 |-> IF n = 0 THEN b ELSE Receive(b, o)]
           items == <<o>>
<1>1. Len(items) = 1 /\ items[1] = o /\ Len(items) \in Nat OBVIOUS
<1>2. f[0] = b /\ f[1] = Receive(b, o) /\ f = [n \in 0..1 |-> f[n]] OBVIOUS
<1> HIDE DEF b, f, items
<1>3. \A n \in 1..1 : n = 1 /\ n - 1 = 0 OBVIOUS
<1>4. ReceiveRule(f, s, items) BY <1>1, <1>2, <1>3 DEF ReceiveRule, b
<1>5. ReceiveAll(s, items) = f[1]
  <2>1. ReceiveAll(s, items) = f[Len(items)] BY ONLY <1>1, <1>4, ReceiveAllIs, Zenon
  <2> QED BY <1>1, <2>1
<1> QED BY <1>2, <1>5 DEF b, items

\* The piece leaves its place.
Without(s, i) == [s EXCEPT !.entries[0][i] = Empty]

LEMMA WithoutIs ==
  ASSUME NEW s \in Good, NEW i \in SlotIds
  PROVE  LET t == Without(s, i) IN
         /\ t \in Inventory /\ SameButEntries(s, t) /\ OtherBags(s, t, 0)
         /\ \A k \in Categories : t.entries[k] \in Bags(k)
         /\ t.entries[0][i] = Empty
         /\ \A n \in SlotIds \ {i} : t.entries[0][n] = s.entries[0][n]
<1> DEFINE bag == [s.entries[0] EXCEPT ![i] = Empty]
           t == Without(s, i)
<1>1. s.entries[0] \in Bags(0) /\ s \in Inventory /\ \A k \in Categories : s.entries[k] \in Bags(k)
  BY GoodParts, Numbers
<1>2. bag[i] = Empty /\ \A n \in SlotIds \ {i} : bag[n] = s.entries[0][n] BY <1>1 DEF Bags
<1>3. bag \in Bags(0) BY <1>1, EmptyFits, Numbers DEF Bags
<1>4. Rebag(s, t, 0, bag) BY DEF Rebag, Without
<1> HIDE DEF bag, t
<1> QED BY <1>2, <1>1, <1>3, <1>4, Numbers, RebagIs DEF t, OtherBags

LEMMA Parting ==
  ASSUME NEW s, Trader(s), NEW i \in SlotIds, s.entries[0][i] # Empty
  PROVE  Withdraw(s, Swap(s, i)) = Reply("Success", Without(s, i))
<1> DEFINE e == s.entries[0][i]
           o == Store!Offering(s, 0, i, 1)
           b == [result |-> "Success", state |-> s, taken |-> {}]
           offer == Swap(s, i)
           paid == [s EXCEPT !.mesos = @ - offer.mesos]
<1>1. s \in Good /\ s \in Inventory /\ e \in Entry /\ FitsBag(e, 0) /\ 0 \in Categories
  BY GoodParts, Numbers DEF Trader, Bags
<1>2. e.item \in Nat /\ e.item # 0 /\ e.quantity = 1 BY <1>1, EntryFits
<1>3. o = [category |-> 0, slot |-> i, quantity |-> 1, item |-> e.item, instance |-> e.instance]
  BY DEF Store!Offering
<1>4. offer = [revision |-> s.revision, mesos |-> 0, items |-> <<o>>] BY DEF Swap
<1>5. paid = s BY <1>1, <1>4 DEF Inventory
<1>6. Take(b, o).result = "Success" /\ Take(b, o).state = Without(s, i)
  <2>1. /\ ~(\/ o.category \notin Categories \/ o.slot \notin SlotIds
             \/ o.quantity = 0 \/ <<o.category, o.slot>> \in b.taken)
        /\ ~(o.item = 0 \/ e.item # o.item \/ e.instance # o.instance \/ o.quantity > e.quantity)
        /\ o.quantity = e.quantity BY <1>1, <1>2, <1>3
  <2>2. o.category = 0 /\ o.slot = i BY <1>3
  <2> HIDE DEF o, e
  <2> QED BY <2>2, <2>1 DEF Without, Take, e
<1>7. Validate(s) BY <1>1, Numbers DEF Validate, Good, Trader, Inventory
<1>8. ~(s.hp = 0) /\ ~(Len(offer.items) > MaxItems) BY <1>4, RulesAssumption DEF Trader
<1>9. offer.revision = s.revision /\ ~(offer.mesos > s.mesos) /\ offer.items = <<o>>
  BY <1>1, <1>4 DEF Inventory
<1> HIDE DEF paid, offer, o, b
<1> QED BY <1>6, <1>7, <1>8, <1>9, <1>5, TakeOne DEF offer, Withdraw, paid, b

\* A piece of which a bag holds one is in one place of it.
LEMMA OnePlace ==
  ASSUME NEW bag \in Bags(0), NEW m, NEW n \in Nat \ {0}, NEW K, K = {<<m, n>>}, InBag(K, bag) <= 1,
         NEW p \in SlotIds, NEW q \in SlotIds, bag[p].item = m, bag[p].instance = n,
         bag[q].item = m, bag[q].instance = n
  PROVE  p = q
<1> SUFFICES ASSUME p # q PROVE FALSE OBVIOUS
<1> DEFINE new == [bag EXCEPT ![p] = Empty]
           f == [x \in SlotIds |-> Part(K, new[x])]
<1>1. bag \in [SlotIds -> Entry] /\ FitsBag(bag[p], 0) /\ FitsBag(bag[q], 0) /\ 0 \in Categories
  BY Numbers DEF Bags
<1>2. Part(K, bag[p]) = 1 /\ Part(K, bag[q]) = 1 BY <1>1, EntryFits, EmptyFits DEF Part
<1>3. new \in [SlotIds -> Entry] /\ new[p] = Empty /\ \A x \in SlotIds \ {p} : new[x] = bag[x]
  BY <1>1, EmptyFits
<1> HIDE DEF new
<1>4. InBag(K, new) + Part(K, bag[p]) = InBag(K, bag) + Part(K, new[p]) BY <1>1, <1>3, BagChange
<1>5. Part(K, new[p]) = 0 /\ Part(K, new[q]) = 1 /\ InBag(K, new) \in Nat /\ InBag(K, bag) \in Nat
  BY <1>1, <1>2, <1>3, PartNat, BagNat
<1>6. f[q] <= SumFunctionOnSet(f, SlotIds)
  <2>1. \A x \in SlotIds : f[x] \in Nat BY <1>3, PartNat
  <2> HIDE DEF f
  <2> QED BY <2>1, Finite, SumPart
<1>7. 1 <= InBag(K, new) BY <1>5, <1>6 DEF InBag
<1> DEFINE a == InBag(K, new)
           b == InBag(K, bag)
<1>8. a + 1 = b + 0 /\ a \in Nat /\ b \in Nat /\ b <= 1 /\ 1 <= a BY <1>2, <1>4, <1>5, <1>7
<1> HIDE DEF a, b
<1> QED BY <1>8

\* Where a place has become empty there is room for one piece of gear.
LEMMA RoomForOne ==
  ASSUME NEW bag \in Bags(0), NEW i \in SlotIds, bag[i] = Empty, NEW m \in ItemsOf(0)
  PROVE  1 <= RoomIn(bag, m, StackLimit(m, 0))
<1> DEFINE limit == StackLimit(m, 0)
           f == [p \in SlotIds |-> RoomAt(bag, m, limit, p)]
<1>1. limit = 1 BY Catalog, Numbers
<1>2. f[i] = 1 BY <1>1, EmptyFits DEF RoomAt
<1>3. \A p \in SlotIds : f[p] \in Nat BY RoomNat, Numbers
<1> HIDE DEF f
<1>4. f[i] <= SumFunctionOnSet(f, SlotIds) BY <1>3, Finite, SumPart
<1> QED BY <1>2, <1>4 DEF RoomIn, f

\* Gear that s does not have, put into a bag that has lost the gear in place i.
LEMMA GearPut ==
  ASSUME NEW s \in Good, NEW i \in SlotIds, NEW m \in ItemsOf(0), NEW n \in Nat \ {0},
         \A p \in Places : At(s, p).instance # n
  PROVE  LET put == Deposit(Without(s, i).entries[0], m, n, 1, StackLimit(m, 0)) IN
         /\ put.left = 0 /\ put.bag \in Bags(0)
         /\ \A p \in SlotIds :
              \/ put.bag[p].instance = 0
              \/ put.bag[p] = s.entries[0][p] /\ s.entries[0][p].instance # n
              \/ put.bag[p].item = m /\ put.bag[p].instance = n
         /\ \A p, q \in SlotIds :
              put.bag[p].instance = n /\ put.bag[q].instance = n => p = q
<1> DEFINE K == {<<m, n>>}
           bag == Without(s, i).entries[0]
           limit == StackLimit(m, 0)
           put == Deposit(bag, m, n, 1, limit)
           new == put.bag
<1>1. /\ bag \in Bags(0) /\ bag[i] = Empty /\ 0 \in Categories
      /\ \A p \in SlotIds \ {i} : bag[p] = s.entries[0][p] BY WithoutIs, Numbers
<1> HIDE DEF bag
<1>2. /\ put \in Filling(0)
      /\ \A p \in SlotIds : new[p] = bag[p] \/ (new[p].item = m /\ new[p].instance = n)
      /\ InBag(K, new) + Worth(K, m, n, put.left) = InBag(K, bag) + Worth(K, m, n, 1)
      /\ put.left = 0 <=> 1 <= RoomIn(bag, m, limit) BY <1>1, DepositFits, DepositAmounts
<1> HIDE DEF put
<1>3. put.left = 0 BY <1>1, <1>2, RoomForOne
<1>4. new \in Bags(0) BY <1>2 DEF Filling
<1> HIDE DEF new
<1>5. \A p \in SlotIds : s.entries[0][p].instance # n BY PlacesAre
<1>6. \A p \in SlotIds : Part(K, bag[p]) = 0 BY <1>1, <1>5, EmptyFits DEF Part
<1>7. InBag(K, bag) = 0
  <2> DEFINE f == [p \in SlotIds |-> Part(K, bag[p])]
  <2>1. \A p \in SlotIds : f[p] = 0 BY <1>6
  <2> HIDE DEF f
  <2>2. SumFunctionOnSet(f, SlotIds) = 0 BY <2>1, Finite, SumZero
  <2> QED BY <2>2 DEF InBag, f
<1>8. Worth(K, m, n, 0) = 0 /\ Worth(K, m, n, 1) = 1 BY DEF Worth
<1>9. InBag(K, new) <= 1
  <2> DEFINE a == InBag(K, new)
  <2>1. a \in Nat BY <1>4, BagNat DEF Bags
  <2>2. a + 0 = 0 + 1 BY <1>2, <1>3, <1>7, <1>8
  <2> HIDE DEF a
  <2>3. a <= 1 BY <2>1, <2>2
  <2> QED BY <2>3 DEF a
<1>10. \A p \in SlotIds :
         \/ new[p].instance = 0
         \/ new[p] = s.entries[0][p] /\ s.entries[0][p].instance # n
         \/ new[p].item = m /\ new[p].instance = n BY <1>1, <1>2, <1>5, EmptyFits
<1>11. ASSUME NEW p \in SlotIds, NEW q \in SlotIds, new[p].instance = n, new[q].instance = n
       PROVE  p = q BY <1>5, <1>10, <1>11, <1>4, <1>9, OnePlace
<1> QED BY <1>3, <1>4, <1>10, <1>11 DEF bag, put, new

LEMMA StillGood ==
  ASSUME NEW s \in Good, NEW u \in Inventory, u.hp = s.hp, u.mp = s.mp, u.equipped = s.equipped,
         OtherBags(s, u, 0), u.entries[0] \in Bags(0), NEW n \in Nat \ {0},
         \A p \in Places : At(s, p).instance # n,
         \A p \in SlotIds :
              \/ u.entries[0][p].instance = 0
              \/ u.entries[0][p] = s.entries[0][p] /\ s.entries[0][p].instance # n
              \/ u.entries[0][p].instance = n,
         \A p, q \in SlotIds : u.entries[0][p].instance = n /\ u.entries[0][q].instance = n => p = q
  PROVE  u \in Good
<1>1. \A w \in WornSlots : FitsBody(u.equipped[w], w) BY GoodParts
<1>2. \A p \in Places : \/ At(u, p).instance = 0 \/ At(u, p) = At(s, p)
                        \/ \E i \in SlotIds : p = <<"bag", i>> /\ At(u, p).instance = n BY PlacesAre
<1>3. ASSUME NEW p \in Places, NEW q \in Places, At(u, p).instance = At(u, q).instance,
             At(u, p).instance # 0
      PROVE  p = q
  <2>1. CASE At(u, p) = At(s, p) /\ At(u, q) = At(s, q) BY <1>3, <2>1, GoodParts
  <2>2. CASE At(u, p) # At(s, p) \/ At(u, q) # At(s, q)
    <3>1. At(u, p).instance = n /\ At(u, q).instance = n BY <1>2, <1>3, <2>2
    <3>2. PICK i \in SlotIds : p = <<"bag", i>> BY <1>2, <1>3, <3>1
    <3>3. PICK j \in SlotIds : q = <<"bag", j>> BY <1>2, <1>3, <3>1
    <3> QED BY <3>2, <3>3, <3>1, PlacesAre
  <2> QED BY <2>1, <2>2
<1> QED BY GoodParts, Numbers, <1>1, <1>3 DEF Good, WellFormed, Bags, OtherBags

LEMMA Arriving ==
  ASSUME NEW s, Trader(s), NEW i \in SlotIds, NEW j, NEW r, NEW m \in ItemsOf(0),
         NEW n \in Nat \ {0}, \A p \in Places : At(s, p).instance # n, NEW offer,
         offer = [revision |-> r, mesos |-> 0,
                  items |-> <<[category |-> 0, slot |-> j, quantity |-> 1, item |-> m, instance |-> n]>>]
  PROVE  Deliver(Without(s, i), offer).result = "Success"
<1> DEFINE t == Without(s, i)
           o == [category |-> 0, slot |-> j, quantity |-> 1, item |-> m, instance |-> n]
           limit == StackLimit(m, 0)
           put == Deposit(t.entries[0], m, n, 1, limit)
           bag == put.bag
           paid == [t EXCEPT !.mesos = @ + offer.mesos]
           got == ReceiveAll(paid, offer.items)
           next == [got EXCEPT !.state.revision = @ + 1]
           v == [t EXCEPT !.entries[0] = bag]
           u == [revision |-> v.revision + 1, mesos |-> v.mesos, hp |-> v.hp, mp |-> v.mp,
                 entries |-> v.entries, equipped |-> v.equipped]
<1>1. /\ s \in Good /\ s.revision \in Nat /\ s.revision > 0 /\ s.revision + 1 < MaxRevision
      /\ s.mesos \in Nat /\ s.mesos <= MaxMesos /\ MaxMesos \in Nat /\ MaxRevision \in Nat
  BY GoodParts, Numbers DEF Trader
<1>2. /\ t \in Inventory /\ SameButEntries(s, t) /\ OtherBags(s, t, 0)
      /\ \A k \in Categories : t.entries[k] \in Bags(k) BY <1>1, WithoutIs
<1>3. /\ put.left = 0 /\ bag \in Bags(0)
      /\ \A p \in SlotIds :
           \/ bag[p].instance = 0
           \/ bag[p] = s.entries[0][p] /\ s.entries[0][p].instance # n
           \/ bag[p].item = m /\ bag[p].instance = n
      /\ \A p, q \in SlotIds : bag[p].instance = n /\ bag[q].instance = n => p = q BY <1>1, GearPut
<1>4. limit = 1 BY Catalog, Numbers
<1> HIDE DEF t
<1>5. paid = t BY <1>2 DEF Inventory
<1>6. offer.items = <<o>> OBVIOUS
<1>7. got = Receive(Reply("Success", t), o) BY <1>5, <1>6, ReceiveOne
<1>8. got = Reply("Success", v)
  <2> DEFINE acc == Reply("Success", t)
  <2>1. acc.result = "Success" /\ acc.state = t /\ acc = [result |-> "Success", state |-> t]
    BY DEF Reply
  <2>2. o.category = 0 /\ o.item = m /\ o.instance = n /\ o.quantity = 1 OBVIOUS
  <2> HIDE DEF acc, o
  <2>3. ~(limit = 0) /\ ~(put.left > 0) BY <1>3, <1>4
  <2> HIDE DEF limit
  <2>4. Receive(acc, o) = [acc EXCEPT !.state.entries[0] = put.bag]
    BY <2>1, <2>2, <2>3 DEF Receive, limit
  <2> HIDE DEF bag, put
  <2> QED BY <1>7, <2>4, <2>1 DEF Reply, acc, o, bag
<1> HIDE DEF bag, put, got, paid
<1>9. /\ v \in Inventory /\ SameButEntries(t, v) /\ v.entries[0] = bag /\ OtherBags(t, v, 0)
  BY <1>2, <1>3, RebagIs, Numbers DEF Rebag
<1> HIDE DEF v
<1>10. v = [revision |-> v.revision, mesos |-> v.mesos, hp |-> v.hp, mp |-> v.mp,
            entries |-> v.entries, equipped |-> v.equipped] /\ v.revision \in Nat
  BY <1>9 DEF Inventory
<1>11. next = Reply("Success", u) BY <1>8, <1>10 DEF Reply
<1>12. u \in Inventory /\ u.revision = s.revision + 1 /\ u.hp = s.hp /\ u.mp = s.mp
       /\ u.equipped = s.equipped /\ u.entries[0] = bag /\ OtherBags(s, u, 0)
  BY <1>2, <1>9, <1>10 DEF Inventory, SameButEntries, OtherBags
<1> HIDE DEF u, next
<1>13. u \in Good BY <1>1, <1>3, <1>12, StillGood
<1>14. Deliver(t, offer) = IF got.result # "Success" THEN got
                           ELSE IF ~Validate(next.state) THEN Reply("Invalid", t) ELSE next
  BY <1>2, <1>1 DEF Deliver, got, paid, next, SameButEntries
<1> QED BY <1>1, <1>12, <1>11, <1>13, <1>8, <1>14 DEF t, Reply, Validate, Good

\* Two that can trade and have no gear in common.
LEMMA SwapSucceeds ==
  ASSUME NEW s, NEW t, Trader(s), Trader(t),
         \A p, q \in Places : At(s, p).instance = At(t, q).instance => At(s, p).instance = 0
  PROVE  SwapFits(s, t)
<1> SUFFICES ASSUME NEW i \in SlotIds, NEW j \in SlotIds,
                    s.entries[0][i] # Empty, t.entries[0][j] # Empty
             PROVE  ApplyTrade(<<Swap(s, i), Swap(t, j)>>, <<s, t>>).result = "Success"
  BY DEF SwapFits
<1> DEFINE a == s.entries[0][i]
           b == t.entries[0][j]
           offers == <<Swap(s, i), Swap(t, j)>>
           states == <<s, t>>
           given == [side \in 1..2 |-> Withdraw(states[side], offers[side])]
           got == [side \in 1..2 |-> Deliver(given[side].state, offers[3 - side])]
<1>1. /\ a.item \in ItemsOf(0) /\ a.instance \in Nat \ {0}
      /\ b.item \in ItemsOf(0) /\ b.instance \in Nat \ {0}
  BY GoodParts, Numbers, EntryFits DEF Trader, Bags
<1>2. /\ \A p \in Places : At(s, p).instance # b.instance
      /\ \A p \in Places : At(t, p).instance # a.instance BY <1>1, PlacesAre
<1>3. /\ Withdraw(s, Swap(s, i)) = Reply("Success", Without(s, i))
      /\ Withdraw(t, Swap(t, j)) = Reply("Success", Without(t, j)) BY Parting
<1>4. /\ Deliver(Without(s, i), Swap(t, j)).result = "Success"
      /\ Deliver(Without(t, j), Swap(s, i)).result = "Success"
  <2>1. /\ Swap(s, i) = [revision |-> s.revision, mesos |-> 0,
             items |-> <<[category |-> 0, slot |-> i, quantity |-> 1, item |-> a.item, instance |-> a.instance]>>]
        /\ Swap(t, j) = [revision |-> t.revision, mesos |-> 0,
             items |-> <<[category |-> 0, slot |-> j, quantity |-> 1, item |-> b.item, instance |-> b.instance]>>]
    BY DEF Swap, Store!Offering
  <2> HIDE DEF a, b
  <2> QED BY <1>1, <1>2, <2>1, Arriving
<1>5. /\ states[1] = s /\ states[2] = t /\ offers[1] = Swap(s, i) /\ offers[2] = Swap(t, j)
      /\ 3 - 1 = 2 /\ 3 - 2 = 1 OBVIOUS
<1> HIDE DEF offers, states
<1>6. /\ given[1].result = "Success" /\ given[1].state = Without(s, i)
      /\ given[2].result = "Success" /\ given[2].state = Without(t, j) BY <1>3, <1>5 DEF Reply
<1> HIDE DEF given
<1>7. got[1].result = "Success" /\ got[2].result = "Success" BY <1>4, <1>5, <1>6
<1> HIDE DEF got
<1> QED BY <1>6, <1>7 DEF offers, states, ApplyTrade, given, got, FirstFailure

LEMMA FullWhenFull ==
  ASSUME KInv
  PROVE  FullMeansFull
<1>1. /\ Sound(Tables) /\ Bounded(Inventories) /\ Inventories \in Stored
      /\ \A c \in Characters : header[c] = None <=> Inventories[c] = None
  BY StoredIs DEF KInv, IInv, Counted
<1>2. ASSUME NEW c \in Characters, header[c] # None
      PROVE  /\ Read(c) \in Good /\ Read(c) = Inventories[c] /\ Inventories[c] # None
             /\ Read(c).hp = header[c].hp /\ Read(c).revision = header[c].revision
             /\ \A p \in Places : At(Read(c), p).instance # 0 => Owns(owner, c, At(Read(c), p))
  <2>1. Read(c) = Inventories[c] /\ Inventories[c] # None /\ Inventories[c] \in Good
    BY <1>1, <1>2 DEF Inventories, Stored
  <2>2. /\ Read(c).hp = header[c].hp /\ Read(c).revision = header[c].revision
        /\ Read(c).entries = slots[c] /\ Read(c).equipped = equipment[c] BY <1>2 DEF Read
  <2>3. OwnRows(owner, slots, equipment, c) BY <1>1, TablesAre DEF Sound, SoundFor
  <2>4. \A p \in Places : At(Read(c), p).instance # 0 => Owns(owner, c, At(Read(c), p))
    BY <2>2, <2>3, PlacesAre DEF OwnRows
  <2> QED BY <2>1, <2>2, <2>4
<1>3. ASSUME NEW c \in Characters, Tradable(c) PROVE Trader(Read(c))
  BY <1>3, <1>1, <1>2 DEF Tradable, Bounded, Trader
<1>4. ASSUME NEW c \in Characters, NEW d \in Characters, c # d, Tradable(c), Tradable(d)
      PROVE  SwapFits(Read(c), Read(d)) BY <1>4, <1>2, <1>3, SwapSucceeds DEF Tradable, Owns
<1> QED BY <1>2, <1>4, PickupDecides DEF FullMeansFull

\* Read never throws, as long as there are revisions left: the rows that Write and
\* Exchange leave behind add up to an inventory that Validate accepts, whatever is
\* requested, hit, picked up and traded in whatever order.
THEOREM EveryRowLoads == Spec => []StoredLoads
<1>1. KInv => StoredLoads
  <2> SUFFICES ASSUME KInv, NEW c \in Characters, header[c] # None
               PROVE  Validate(Read(c)) \/ LastRevision(Read(c))
    BY DEF StoredLoads
  <2>1. Inventories \in Stored /\ Inventories[c] # None /\ Bounded(Inventories)
    BY StoredIs DEF KInv, Counted
  <2> DEFINE s == Read(c)
  <2>2. s \in Good /\ s = Inventories[c] BY <2>1 DEF Inventories, Stored
  <2> HIDE DEF s
  <2>3. WellFormed(s) /\ s.revision \in Nat BY <2>2, GoodParts DEF Good
  <2>4. s.revision > 0 /\ s.revision <= MaxRevision BY <2>1, <2>2 DEF Bounded
  <2>5. s.revision \in 1..(MaxRevision - 1) \/ s.revision = MaxRevision BY <2>3, <2>4, Numbers
  <2>6. Validate(s) \/ LastRevision(s) BY <2>3, <2>5 DEF Validate, LastRevision
  <2> QED BY <2>6 DEF s
<1>2. Init => KInv BY InitCounted
<1>3. KInv /\ [Next]_vars => KInv' BY StepCounted, StutterCounted
<1> QED BY <1>1, <1>2, <1>3, PTL DEF Spec

\* "Full" is said only for want of room: a pickup is refused exactly if its pieces
\* do not fit into stacks and empty places together, and two pieces of gear can be
\* swapped with no empty place on either side, as both leave before either arrives.
THEOREM RefusedOnlyWhenFull == Spec => []FullMeansFull
<1>1. Init => KInv BY InitCounted
<1>2. KInv /\ [Next]_vars => KInv' BY StepCounted, StutterCounted
<1>3. KInv => FullMeansFull BY FullWhenFull
<1> QED BY <1>1, <1>2, <1>3, PTL DEF Spec
=============================================================================
