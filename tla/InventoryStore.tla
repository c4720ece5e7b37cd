---------------------------- MODULE InventoryStore ----------------------------
(***************************************************************************)
(* What the database promises about inventories: each transaction of       *)
(* InventoryRepository replaces the inventories it is about by what the    *)
(* rules compute, all at once, together with the record that tells a       *)
(* repetition of it.  InventoryRows shows how rows and statements keep it. *)
(*                                                                         *)
(* A transaction that is cancelled, out of time or cut off rolls back and  *)
(* changes nothing; TradeExchange and FieldDrops are about those.          *)
(***************************************************************************)
EXTENDS InventoryRules

CONSTANTS Characters, None,
          Drops,   \* of each drop: the item and how many pieces
          Hits,    \* of each hit (a mutation id): its damage
          Trades,  \* numbers of trades
          Players, \* who makes requests besides looking and trading
          Pairs    \* who trades with whom, the one who invites first

VARIABLES
  inv,       \* each character's inventory, None before the first request
  owner,     \* character_item_instances: of each instance, its character and item
  claims,    \* field_drop_claims: of each drop, the character it went to
  recorded,  \* field_combat_mutations: of each hit, the character it was for
  receipts,  \* character_trade_records: of each trade, its request
  eaten      \* history: how many potions of each kind were used

vars == <<inv, owner, claims, recorded, receipts, eaten>>
records == <<claims, recorded, receipts>>

\* The first request of a character creates its starter inventory.  An
\* inventory that does not validate is an error, never replaced by a new one.
IsNew(c) == inv[c] = None
Current(c) == IF IsNew(c) THEN Starter(Len(owner) + 1) ELSE inv[c]
Issued(c) == IF IsNew(c) THEN owner \o <<<<c, 1>>, <<c, 2>>>> ELSE owner
Readable(c) == IF IsNew(c) THEN TRUE ELSE Validate(inv[c])

\* What a transaction leaves: the state of a successful reply.
Save(c, reply) ==
  /\ inv' = [inv EXCEPT ![c] = IF reply.result = "Success" THEN reply.state ELSE Current(c)]
  /\ owner' = Issued(c)

-----------------------------------------------------------------------------
(* The transactions.                                                        *)

\* A client's request: use, move, sort, wear, or just look.
Request(c, r) ==
  LET reply == Apply(Current(c), r) IN
  /\ UNCHANGED records /\ Readable(c)
  /\ Save(c, reply)
  /\ eaten' = IF r.operation # "Use" \/ reply.result # "Success" THEN eaten
              ELSE [eaten EXCEPT ![Current(c).entries[1][r.source].item] = @ + 1]

\* A hit has a number, and is repeated until its outcome is known.
Hit(c, h) ==
  /\ UNCHANGED <<claims, receipts, eaten>>
  /\ Readable(c) /\ recorded[h] \in {None, c}
  /\ recorded' = [recorded EXCEPT ![h] = c]
  /\ Save(c, IF recorded[h] = c THEN Reply("Success", Current(c))
             ELSE Mutate(Current(c), [kind |-> "damage", damage |-> Hits[h]]))

Revival(c) ==
  /\ UNCHANGED <<records, eaten>> /\ Readable(c)
  /\ Save(c, Mutate(Current(c), [kind |-> "revive"]))

\* The pieces come with the claim, and whoever comes second gets nothing.
Granted(c, d) ==
  Mutate(Current(c), [kind |-> "pickup", item |-> Drops[d].item, quantity |-> Drops[d].quantity])
Grab(c, d) ==
  LET reply == Granted(c, d)
      first == reply.result = "Success" /\ claims[d] = None
  IN /\ UNCHANGED <<recorded, receipts, eaten>> /\ Readable(c)
     /\ claims' = IF first THEN [claims EXCEPT ![d] = c] ELSE claims
     /\ Save(c, IF first THEN reply ELSE Reply("AlreadyTaken", Current(c)))

\* Both inventories, the ownership of the gear, and the receipt.
Offered(offer) == {offer.items[i] : i \in DOMAIN offer.items}
GearOf(offer) == {o.instance : o \in Offered(offer)} \ {0}
Exchange(t, pair, offers) ==
  LET done == ApplyTrade(offers, [side \in 1..2 |-> inv[pair[side]]]) IN
  /\ receipts[t] = None
  /\ receipts' = [receipts EXCEPT ![t] = [pair |-> pair, offers |-> offers]]
  /\ UNCHANGED <<claims, recorded, eaten>>
  /\ \A side \in 1..2 : ~IsNew(pair[side]) /\ Readable(pair[side])
  /\ done.result = "Success"
  /\ inv' = [c \in Characters |-> IF c = pair[1] THEN done.states[1]
                                  ELSE IF c = pair[2] THEN done.states[2] ELSE inv[c]]
  /\ owner' = [n \in DOMAIN owner |->
       IF n \in GearOf(offers[1]) THEN <<pair[2], owner[n][2]>>
       ELSE IF n \in GearOf(offers[2]) THEN <<pair[1], owner[n][2]>> ELSE owner[n]]

-----------------------------------------------------------------------------
(* Inputs: what clients ask for and what TradeManager offers for them.      *)

Ask(operation, category, source, target, revision) ==
  [operation |-> operation, category |-> category, source |-> source,
   target |-> target, revision |-> revision]
RequestsOf(c) ==
  LET now == Current(c).revision IN
  {Ask(op, k, i, 0, now) : op \in {"Equip", "Use"}, k \in Categories, i \in SlotIds}
    \cup {Ask(op, k, i, j, now) : op \in {"Unequip", "Move"}, k \in Categories,
                                  i \in SlotIds, j \in SlotIds}
    \cup {Ask("Sort", k, 0, 0, now) : k \in Categories}
    \cup {Ask("Use", 1, 0, 0, now - 1), Ask("Use", 1, Slots, 0, now)}

\* Up to MaxItems places, each offered whole or by one piece.
Offering(s, k, i, q) ==
  [category |-> k, slot |-> i, quantity |-> q,
   item |-> s.entries[k][i].item, instance |-> s.entries[k][i].instance]
Pieces(s) ==
  UNION {{Offering(s, p[1], p[2], q) : q \in {1, s.entries[p[1]][p[2]].quantity}} :
           p \in {p \in Categories \X SlotIds : s.entries[p[1]][p[2]] # Empty}}
OffersOf(c) ==
  [revision : {inv[c].revision}, mesos : {0, inv[c].mesos},
   items : UNION {[1..n -> Pieces(inv[c])] : n \in 0..MaxItems}]

-----------------------------------------------------------------------------

Init ==
  /\ inv = [c \in Characters |-> None] /\ owner = <<>>
  /\ claims = [d \in DOMAIN Drops |-> None]
  /\ recorded = [h \in DOMAIN Hits |-> None]
  /\ receipts = [t \in Trades |-> None]
  /\ eaten = [i \in Items |-> 0]

Next ==
  \/ \E c \in Characters : Request(c, Refresh)
  \/ \E c \in Players :
       \/ \E r \in RequestsOf(c) : Request(c, r)
       \/ \E h \in DOMAIN Hits : Hit(c, h)
       \/ Revival(c)
       \/ \E d \in DOMAIN Drops : Grab(c, d)
  \/ \E t \in Trades, pair \in Pairs :
       /\ receipts[t] = None /\ None \notin {inv[pair[1]], inv[pair[2]]}
       /\ \E x \in OffersOf(pair[1]), y \in OffersOf(pair[2]) : Exchange(t, pair, <<x, y>>)

Spec == Init /\ [][Next]_vars

-----------------------------------------------------------------------------
(* What must hold of the inventories.                                       *)

Known == {c \in Characters : inv[c] # None}
Count(s, i) ==
  SumFunction([k \in Categories |->
    SumFunction([p \in SlotIds |-> IF s.entries[k][p].item = i THEN s.entries[k][p].quantity ELSE 0])])
  + Cardinality({w \in WornSlots : s.equipped[w].item = i})
Claimed(i) == {d \in DOMAIN Drops : claims[d] # None /\ Drops[d].item = i}

\* All that characters own is what they began with and what drops gave, each
\* drop once, less the potions used.
StacksConserved ==
  /\ \A i \in Items :
       SumFunction([c \in Known |-> Count(inv[c], i)]) + eaten[i]
         = Cardinality(Known) * Count(Starter(1), i)
           + SumFunction([d \in Claimed(i) |-> Drops[d].quantity])
  /\ SumFunction([c \in Known |-> inv[c].mesos]) = Cardinality(Known) * StarterPack.mesos

\* Every instance of gear is in exactly one place, of the character who owns it.
GearHasOnePlace ==
  \A n \in DOMAIN owner :
    LET found == {x \in Known \X Places : At(inv[x[1]], x[2]).instance = n} IN
    \E p \in Places :
      found = {<<owner[n][1], p>>} /\ At(inv[owner[n][1]], p).item = owner[n][2]

\* Pieces, mesos and gear are only moved, whatever is repeated.
ItemsConserved == StacksConserved /\ GearHasOnePlace
=============================================================================
