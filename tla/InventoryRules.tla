---------------------------- MODULE InventoryRules ----------------------------
(***************************************************************************)
(* InventoryService and TradeRules: what an inventory may look like and    *)
(* what each operation makes of it.  No state: every operator computes the *)
(* reply to a request from the inventory that the transaction has read.    *)
(*                                                                         *)
(* Numbers are scaled: a category has Slots places instead of 24, a stack  *)
(* takes Limit[k] pieces instead of 100 or 200, and MaxRevision and        *)
(* MaxMesos stand for the largest 64-bit numbers.                          *)
(***************************************************************************)
EXTENDS Integers, Sequences, SequencesExt, TLC

CONSTANTS Categories,  \* 0 equipment, 1 potions, ...
          Slots,       \* places of one category (24)
          Limit,       \* of a category: pieces in one stack
          MaxHp, MaxMp, Heal, Mana,
          MaxRevision, \* UINT64_MAX, the revision nothing can follow
          MaxMesos,    \* UINT64_MAX
          MaxItems,    \* MAX_TRADE_ITEMS (6)
          StarterPack  \* the consumables, mesos, hp and mp of a new character

ASSUME RulesAssumption ==
  /\ 0 \in Categories /\ Categories \subseteq 0..4
  /\ Slots \in Nat /\ Slots > 1 /\ Limit \in [Categories -> Nat \ {0}] /\ Limit[0] = 1
  /\ {MaxHp, MaxMp, Heal, Mana, MaxRevision, MaxMesos, MaxItems} \subseteq Nat \ {0}

SlotIds == 0..(Slots - 1)
WornSlots == {0, 1}
Entry == [item : Nat, quantity : Nat, instance : Nat]
Inventory == [revision : Nat, mesos : Nat, hp : Nat, mp : Nat,
              entries : [Categories -> [SlotIds -> Entry]], equipped : [WornSlots -> Entry]]
Empty == [item |-> 0, quantity |-> 0, instance |-> 0]
Stack(item, quantity) == [item |-> item, quantity |-> quantity, instance |-> 0]
Gear(item, instance) == [item |-> item, quantity |-> 1, instance |-> instance]

ItemsOf(category) ==
  CASE category = 0 -> {1, 2}
    [] category = 1 -> {101, 102}
    [] category = 2 -> {201}
    [] category = 3 -> {301, 302}
    [] category = 4 -> {401}
Items == UNION {ItemsOf(k) : k \in Categories}
StackLimit(item, category) == IF item \in ItemsOf(category) THEN Limit[category] ELSE 0
\* The place on the body for an item, -1 for what cannot be worn.
EquipmentSlot(item) == IF item \in {1, 2} THEN item - 1 ELSE -1

\* A new character: a weapon and a hat with fresh instances, and consumables.
Starter(first) ==
  [revision |-> 1, mesos |-> StarterPack.mesos, hp |-> StarterPack.hp, mp |-> StarterPack.mp,
   entries |-> [k \in Categories |-> [i \in SlotIds |->
     IF k = 0 THEN IF i < 2 THEN Gear(i + 1, first + i) ELSE Empty
     ELSE StarterPack.entries[k][i]]],
   equipped |-> [i \in WornSlots |-> Empty]]

\* Every place an instance can be: the equipment category and the body.
Places == ({"bag"} \X SlotIds) \cup ({"worn"} \X WornSlots)
At(s, p) == IF p[1] = "bag" THEN s.entries[0][p[2]] ELSE s.equipped[p[2]]

FitsBag(e, k) ==
  /\ e.quantity \in 0..StackLimit(e.item, k)
  /\ e.item = 0 <=> e.quantity = 0
  /\ e.instance # 0 <=> k = 0 /\ e.item # 0
FitsBody(e, w) == e = Empty \/ (EquipmentSlot(e.item) = w /\ e.quantity = 1 /\ e.instance # 0)
WellFormed(s) ==
  /\ s.hp \in 0..MaxHp /\ s.mp \in 0..MaxMp
  /\ \A k \in Categories, i \in SlotIds : FitsBag(s.entries[k][i], k)
  /\ \A w \in WornSlots : FitsBody(s.equipped[w], w)
  /\ \A p, q \in Places : At(s, p).instance = At(s, q).instance => p = q \/ At(s, p).instance = 0
Validate(s) == WellFormed(s) /\ s.revision \in 1..(MaxRevision - 1)

\* A new character has some consumables, and not too much of anything.
ASSUME StarterAssumption ==
  /\ StarterPack.mesos \in 0..MaxMesos /\ StarterPack.hp \in 0..MaxHp /\ StarterPack.mp \in 0..MaxMp
  /\ \A k \in Categories \ {0}, i \in SlotIds :
       StarterPack.entries[k][i] \in Entry /\ FitsBag(StarterPack.entries[k][i], k)

Reply(result, s) == [result |-> result, state |-> s]

-----------------------------------------------------------------------------
(* Putting pieces into a bag: first on stacks, then into empty places.        *)

Put(acc, i, item, instance, limit) ==
  LET amount == Min({acc.left, limit - acc.bag[i].quantity}) IN
  IF amount = 0 THEN acc
  ELSE [left |-> acc.left - amount,
        bag |-> [acc.bag EXCEPT ![i] =
          [item |-> item, instance |-> instance, quantity |-> @.quantity + amount]]]
\* One pass over the places of a category, in order.
Fill(begun, places, item, instance, limit) ==
  LET after[n \in 0..Slots] ==
        IF n = 0 THEN begun
        ELSE IF n - 1 \in places THEN Put(after[n - 1], n - 1, item, instance, limit)
        ELSE after[n - 1]
  IN after[Slots]
FillStacks(bag, item, instance, quantity, limit) ==
  Fill([left |-> quantity, bag |-> bag],
       {i \in SlotIds : bag[i].item = item /\ bag[i].instance = 0 /\ instance = 0},
       item, instance, limit)
Deposit(bag, item, instance, quantity, limit) ==
  Fill(FillStacks(bag, item, instance, quantity, limit),
       {i \in SlotIds : bag[i] = Empty}, item, instance, limit)

-----------------------------------------------------------------------------
(* InventoryService::Apply: the operations a client may ask for.              *)

Equip(s, r) ==
  LET worn == EquipmentSlot(s.entries[r.category][r.source].item) IN
  IF r.category # 0 \/ worn = -1 \/ s.hp = 0 THEN Reply("CannotUse", s)
  ELSE Reply("Success", [s EXCEPT !.entries[0][r.source] = s.equipped[worn],
                                  !.equipped[worn] = s.entries[0][r.source]])

Unequip(s, r) ==
  IF r.category # 0 \/ r.source \notin WornSlots \/ s.hp = 0 THEN Reply("CannotUse", s)
  ELSE IF s.equipped[r.source] = Empty THEN Reply("CannotUse", s)
  ELSE IF s.entries[0][r.target] # Empty THEN Reply("Full", s)
  ELSE Reply("Success", [s EXCEPT !.entries[0][r.target] = s.equipped[r.source],
                                  !.equipped[r.source] = Empty])

\* Merges onto a stack of the same item as far as it goes, otherwise swaps.
Move(s, r) ==
  LET from == s.entries[r.category][r.source]
      to == s.entries[r.category][r.target]
      limit == StackLimit(from.item, r.category)
      moved == Min({from.quantity, limit - to.quantity})
      Pair(a, b) == [s EXCEPT !.entries[r.category] =
                       [@ EXCEPT ![r.source] = a, ![r.target] = b]]
  IN IF from = Empty \/ r.source = r.target THEN Reply("InvalidSlot", s)
     ELSE IF from.item = to.item /\ limit > 1
     THEN Reply("Success",
            Pair(IF moved = from.quantity THEN Empty ELSE Stack(from.item, from.quantity - moved),
                 Stack(to.item, to.quantity + moved)))
     ELSE Reply("Success", Pair(to, from))

\* By item, merging stacks; the compiler's sort keeps short ranges in order.
Pack(packed, e, limit) ==
  IF packed = <<>> THEN <<e>>
  ELSE LET previous == Last(packed)
           moved == Min({e.quantity, limit - previous.quantity})
           full == Front(packed) \o <<[previous EXCEPT !.quantity = @ + moved]>>
       IN IF previous.item # e.item THEN Append(packed, e)
          ELSE IF moved = e.quantity THEN full
          ELSE Append(full, [e EXCEPT !.quantity = @ - moved])
NextOf(bag, left) ==
  LET least == Min({bag[i].item : i \in left}) IN Min({i \in left : bag[i].item = least})
PackNext(bag, k, acc) ==
  LET i == NextOf(bag, acc.left) IN
  IF acc.left = {} THEN acc
  ELSE [left |-> acc.left \ {i},
        packed |-> Pack(acc.packed, bag[i], StackLimit(bag[i].item, k))]
Packed(bag, k) ==
  LET after[n \in 0..Slots] ==
        IF n = 0 THEN [left |-> {i \in SlotIds : bag[i] # Empty}, packed |-> <<>>]
        ELSE PackNext(bag, k, after[n - 1])
  IN after[Slots].packed
Sort(s, r) ==
  LET packed == Packed(s.entries[r.category], r.category) IN
  Reply("Success", [s EXCEPT !.entries[r.category] =
    [i \in SlotIds |-> IF i < Len(packed) THEN packed[i + 1] ELSE Empty]])

Use(s, r) ==
  LET source == s.entries[r.category][r.source]
      health == source.item = 101 /\ s.hp < MaxHp
      mana == source.item = 102 /\ s.mp < MaxMp
  IN IF r.category # 1 \/ s.hp = 0 \/ ~(health \/ mana) THEN Reply("CannotUse", s)
     ELSE Reply("Success",
       [s EXCEPT !.hp = IF health THEN Min({MaxHp, @ + Heal}) ELSE @,
                 !.mp = IF health THEN @ ELSE Min({MaxMp, @ + Mana}),
                 !.entries[1][r.source] = IF source.quantity = 1 THEN Empty
                                          ELSE [source EXCEPT !.quantity = @ - 1]])

\* Is there anything to store?  Only then the revision moves on.
Changed(s, t) ==
  \/ s.hp # t.hp \/ s.mp # t.mp \/ s.entries # t.entries
  \/ \E i \in WornSlots : s.equipped[i].instance # t.equipped[i].instance

Operate(s, r) ==
  CASE r.operation = "Equip" -> Equip(s, r)
    [] r.operation = "Unequip" -> Unequip(s, r)
    [] r.operation = "Move" -> Move(s, r)
    [] r.operation = "Sort" -> Sort(s, r)
    [] r.operation = "Use" -> Use(s, r)
Apply(s, r) ==
  IF ~Validate(s) THEN Reply("StorageError", s)
  ELSE IF r.operation = "Refresh" THEN Reply("Success", s)
  ELSE IF r.category \notin Categories \/ ~({r.source, r.target} \subseteq SlotIds)
  THEN Reply("InvalidSlot", s)
  ELSE IF r.revision # s.revision THEN Reply("StaleRevision", s)
  ELSE LET reply == Operate(s, r) IN
       IF Changed(s, reply.state) THEN [reply EXCEPT !.state.revision = @ + 1] ELSE reply
Refresh == [operation |-> "Refresh"]

-----------------------------------------------------------------------------
(* InventoryService::Mutate: hits, revival and the pieces of a drop.          *)

DamageUnclamped(s, damage) ==
  Reply("Success", [s EXCEPT !.hp = (@ - damage) % 65536, !.revision = @ + 1])
Damage(s, damage) ==
  LET left == IF s.hp > damage THEN s.hp - damage ELSE 0 IN
  Reply("Success", [s EXCEPT !.hp = left, !.revision = IF left = s.hp THEN @ ELSE @ + 1])

Revive(s) ==
  IF s.hp # 0 THEN Reply("CannotUse", s)
  ELSE Reply("Success", [s EXCEPT !.hp = MaxHp, !.revision = @ + 1])

\* All pieces or none.
CategoryOf(item) ==
  IF item \in {101, 102} THEN 1 ELSE IF item \in {301, 302} THEN 3 ELSE -1
Filled(s, k, item, quantity) ==
  Deposit(s.entries[k], item, 0, quantity, StackLimit(item, k))
Pickup(s, item, quantity) ==
  LET k == CategoryOf(item) IN
  IF k = -1 \/ quantity = 0 \/ s.hp = 0 THEN Reply("CannotUse", s)
  ELSE IF Filled(s, k, item, quantity).left > 0 THEN Reply("Full", s)
  ELSE Reply("Success", [s EXCEPT !.entries[k] = Filled(s, k, item, quantity).bag,
                                  !.revision = @ + 1])

Mutate(s, m) ==
  IF ~Validate(s) THEN Reply("StorageError", s)
  ELSE CASE m.kind = "damage" -> Damage(s, m.damage)
         [] m.kind = "revive" -> Revive(s)
         [] m.kind = "pickup" -> Pickup(s, m.item, m.quantity)

-----------------------------------------------------------------------------
(* ApplyTrade: both sides give first, then both receive.                      *)

\* One offered item leaves its place; the first fault ends it.
Take(acc, o) ==
  LET place == <<o.category, o.slot>> IN
  IF acc.result # "Success" THEN acc
  ELSE IF \/ o.category \notin Categories \/ o.slot \notin SlotIds
          \/ o.quantity = 0 \/ place \in acc.taken
  THEN [acc EXCEPT !.result = "Invalid"]
  ELSE LET e == acc.state.entries[o.category][o.slot] IN
       IF \/ o.item = 0 \/ e.item # o.item
          \/ e.instance # o.instance \/ o.quantity > e.quantity
       THEN [acc EXCEPT !.result = "Stale"]
       ELSE [acc EXCEPT !.taken = @ \cup {place},
                        !.state.entries[o.category][o.slot] =
                          IF o.quantity = e.quantity THEN Empty
                          ELSE [e EXCEPT !.quantity = @ - o.quantity]]
TakeAll(s, items) ==
  LET after[n \in 0..Len(items)] ==
        IF n = 0 THEN [result |-> "Success", state |-> s, taken |-> {}]
        ELSE Take(after[n - 1], items[n])
  IN after[Len(items)]
Withdraw(s, offer) ==
  IF ~Validate(s) \/ s.hp = 0 \/ Len(offer.items) > MaxItems THEN Reply("Invalid", s)
  ELSE IF offer.revision # s.revision THEN Reply("Stale", s)
  ELSE IF offer.mesos > s.mesos THEN Reply("Invalid", s)
  ELSE LET paid == [s EXCEPT !.mesos = @ - offer.mesos]
           taken == TakeAll(paid, offer.items)
       IN Reply(taken.result, taken.state)

Receive(acc, o) ==
  LET limit == StackLimit(o.item, o.category)
      bag == Deposit(acc.state.entries[o.category], o.item, o.instance, o.quantity, limit)
  IN IF acc.result # "Success" THEN acc
     ELSE IF limit = 0 THEN [acc EXCEPT !.result = "Invalid"]
     ELSE IF bag.left > 0 THEN [acc EXCEPT !.result = "Full"]
     ELSE [acc EXCEPT !.state.entries[o.category] = bag.bag]
ReceiveAll(s, items) ==
  LET after[n \in 0..Len(items)] ==
        IF n = 0 THEN Reply("Success", s) ELSE Receive(after[n - 1], items[n])
  IN after[Len(items)]
DeliverWrapped(s, offer) ==
  LET paid == [s EXCEPT !.mesos = (@ + offer.mesos) % (MaxMesos + 1)]
      got == ReceiveAll(paid, offer.items)
      next == [got EXCEPT !.state.revision = @ + 1]
  IN IF got.result # "Success" THEN got
     ELSE IF ~Validate(next.state) THEN Reply("Invalid", s)
     ELSE next
Deliver(s, offer) ==
  IF s.mesos > MaxMesos - offer.mesos THEN Reply("Invalid", s)
  ELSE LET paid == [s EXCEPT !.mesos = @ + offer.mesos]
           got == ReceiveAll(paid, offer.items)
           next == [got EXCEPT !.state.revision = @ + 1]
       IN IF got.result # "Success" THEN got
          ELSE IF ~Validate(next.state) THEN Reply("Invalid", s)
          ELSE next

\* The first side that fails decides the result, and nothing has happened.
FirstFailure(replies) == IF replies[1].result # "Success" THEN replies[1] ELSE replies[2]
ApplyTrade(offers, states) ==
  LET given == [side \in 1..2 |-> Withdraw(states[side], offers[side])]
      got == [side \in 1..2 |-> Deliver(given[side].state, offers[3 - side])]
  IN IF FirstFailure(given).result # "Success"
     THEN [result |-> FirstFailure(given).result, states |-> states]
     ELSE IF FirstFailure(got).result # "Success"
     THEN [result |-> FirstFailure(got).result, states |-> states]
     ELSE [result |-> "Success", states |-> [side \in 1..2 |-> got[side].state]]
=============================================================================
