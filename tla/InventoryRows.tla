---------------------------- MODULE InventoryRows ----------------------------
(***************************************************************************)
(* How InventoryRepository keeps an inventory in the database: a header    *)
(* row, a row for each occupied place and for each piece of gear worn.     *)
(* Write stores a new state by deleting and inserting only the rows that   *)
(* differ, and each statement must respect the keys of the schema:         *)
(*                                                                         *)
(*   an instance is in one row of character_inventory_slots at most and in *)
(*   one of character_equipment at most, and a row may only hold an        *)
(*   instance of its own character and item.                               *)
(*                                                                         *)
(* A refused statement throws, and the whole transaction is rolled back.   *)
(***************************************************************************)
EXTENDS InventoryRules

CONSTANTS Characters, None, Drops, Hits, Trades, Players, Pairs \* as in InventoryStore

Headers == [revision : Nat, mesos : Nat, hp : Nat, mp : Nat]

ASSUME RowsAssumption ==
  /\ None \notin Characters \cup Headers \cup Inventory
  /\ Players \subseteq Characters /\ IsFiniteSet(Characters) /\ IsFiniteSet(DOMAIN Drops)
  /\ \A pair \in Pairs : {pair[1], pair[2]} \subseteq Characters /\ pair[1] # pair[2]
  /\ \A d \in DOMAIN Drops : Drops[d].item \in Items /\ Drops[d].quantity \in Nat
  /\ \A h \in DOMAIN Hits : Hits[h] \in Nat

VARIABLES
  header,    \* character_inventories: revision, mesos, hp, mp; None without a row
  slots,     \* character_inventory_slots: Empty where there is no row
  equipment, \* character_equipment: Empty where there is no row
  owner, claims, recorded, receipts, eaten,  \* as there
  refused    \* history: transactions the rules accepted and the keys did not

rows == <<header, slots, equipment>>
vars == <<rows, owner, claims, recorded, receipts, eaten, refused>>

\* Read: the inventory that the rows of a character add up to.
Read(c) ==
  IF header[c] = None THEN None
  ELSE [revision |-> header[c].revision, mesos |-> header[c].mesos,
        hp |-> header[c].hp, mp |-> header[c].mp,
        entries |-> slots[c], equipped |-> equipment[c]]

Inventories == [c \in Characters |-> Read(c)]
Store == INSTANCE InventoryStore WITH inv <- Inventories

-----------------------------------------------------------------------------
(* Statements.  db has the tables as they are inside the transaction, and   *)
(* whether every statement so far was accepted.                             *)

Tables == [header |-> header, slots |-> slots, equipment |-> equipment, owner |-> owner, ok |-> TRUE]
OrRefuse(db, accepted, changed) == IF db.ok /\ accepted THEN changed ELSE [db EXCEPT !.ok = FALSE]

\* The rows in which an instance is.
SlotRows(db, n) ==
  {p \in Characters \X SlotIds : n # 0 /\ db.slots[p[1]][0][p[2]].instance = n}
WornRows(db, n) ==
  {p \in Characters \X WornSlots : db.equipment[p[1]][p[2]].instance = n}

DeleteSlots(db, c, k, places) ==
  [db EXCEPT !.slots[c][k] = [i \in SlotIds |-> IF i \in places THEN Empty ELSE @[i]]]
DeleteWorn(db, c, places) ==
  [db EXCEPT !.equipment[c] = [w \in WornSlots |-> IF w \in places THEN Empty ELSE @[w]]]

\* INSERT ... ON DUPLICATE KEY UPDATE: a row with the same place or, failing
\* that, the same instance is overwritten where it is.
Upsert(db, c, k, i, e) ==
  LET same == SlotRows(db, e.instance)
      row == IF k # 0 \/ db.slots[c][0][i] # Empty \/ same = {} THEN <<c, i>>
             ELSE CHOOSE p \in same : TRUE
  IN OrRefuse(db,
       k # 0 \/ (same \subseteq {row} /\ db.owner[e.instance] = <<row[1], e.item>>),
       [db EXCEPT !.slots[row[1]][k][row[2]] = e])

InsertWorn(db, c, w, e) ==
  OrRefuse(db,
    /\ db.equipment[c][w] = Empty /\ WornRows(db, e.instance) = {}
    /\ db.owner[e.instance] = <<c, e.item>>,
    [db EXCEPT !.equipment[c][w] = e])

\* The owner of an instance: no row may hold it meanwhile.
TransferOwner(db, n, item, from, to) ==
  OrRefuse(db,
    SlotRows(db, n) = {} /\ WornRows(db, n) = {} /\ db.owner[n] = <<from, item>>,
    [db EXCEPT !.owner[n][1] = to])

-----------------------------------------------------------------------------
(* Write: from the state that was read to the state that was computed.      *)

UpdateHeader(db, c, s) ==
  [db EXCEPT !.header[c] = [revision |-> s.revision, mesos |-> s.mesos, hp |-> s.hp, mp |-> s.mp]]

\* Gear that moved is taken from its old places first.
LeaveSlots(db, c, old, new) == db
ClearSlots(db, c, old, new) ==
  DeleteSlots(db, c, 0, {i \in SlotIds : old.entries[0][i] # Empty /\
    old.entries[0][i].instance # new.entries[0][i].instance})
ClearWorn(db, c, old, new) ==
  DeleteWorn(db, c, {w \in WornSlots : old.equipped[w].instance # new.equipped[w].instance})

StoreSlot(old, new, create, c, db, p) ==
  LET e == new.entries[p[1]][p[2]]
      same == IF create THEN e = Empty ELSE e = old.entries[p[1]][p[2]]
  IN IF same THEN db
     ELSE IF e = Empty THEN DeleteSlots(db, c, p[1], {p[2]})
     ELSE Upsert(db, c, p[1], p[2], e)
StoreBag(old, new, create, c, db, k) ==
  LET after[n \in 0..Slots] ==
        IF n = 0 THEN db ELSE StoreSlot(old, new, create, c, after[n - 1], <<k, n - 1>>)
  IN after[Slots]
StoreBags(old, new, create, c, db) ==
  LET after[n \in 0..5] ==
        IF n = 0 THEN db
        ELSE IF n - 1 \in Categories THEN StoreBag(old, new, create, c, after[n - 1], n - 1)
        ELSE after[n - 1]
  IN after[5]

StoreWorn(old, new, c, db, w) ==
  LET e == new.equipped[w] IN
  IF e = Empty \/ e.instance = old.equipped[w].instance THEN db ELSE InsertWorn(db, c, w, e)

Write(db, c, old, new, create) ==
  LET header1 == UpdateHeader(db, c, new)
      bags == IF create THEN header1 ELSE ClearSlots(header1, c, old, new)
      bare == ClearWorn(bags, c, old, new)
      packed == StoreBags(old, new, create, c, bare)
  IN StoreWorn(old, new, c, StoreWorn(old, new, c, packed, 0), 1)

\* COMMIT, or the rollback of everything when a statement threw.
Finish(db, who) ==
  IF db.ok
  THEN /\ header' = db.header /\ slots' = db.slots /\ equipment' = db.equipment
       /\ owner' = db.owner /\ UNCHANGED refused
  ELSE /\ refused' = refused \cup {who}
       /\ UNCHANGED <<rows, owner>>

-----------------------------------------------------------------------------
(* The transactions: InventoryRepository::Apply and Exchange.               *)

\* Rows are written for a new character, or when the revision has moved.
Save(c, reply) ==
  LET old == Store!Current(c)
      new == IF reply.result = "Success" THEN reply.state ELSE old
      db == [Tables EXCEPT !.owner = Store!Issued(c)]
  IN IF Store!IsNew(c) \/ (reply.result = "Success" /\ new.revision # old.revision)
     THEN Write(db, c, old, new, Store!IsNew(c)) ELSE db

Request(c, r) ==
  LET reply == Apply(Store!Current(c), r)
      db == Save(c, reply)
  IN /\ Store!Readable(c)
     /\ Finish(db, c)
     /\ eaten' = IF r.operation # "Use" \/ reply.result # "Success" \/ ~db.ok THEN eaten
                 ELSE [eaten EXCEPT ![Store!Current(c).entries[1][r.source].item] = @ + 1]
     /\ UNCHANGED <<claims, recorded, receipts>>

\* A repeated hit writes nothing.
HitAgain(c, h) ==
  LET reply == Mutate(Store!Current(c), [kind |-> "damage", damage |-> Hits[h]])
      db == Save(c, reply)
  IN /\ Store!Readable(c) /\ recorded[h] \in {None, c}
     /\ Finish(db, c)
     /\ recorded' = IF db.ok THEN [recorded EXCEPT ![h] = c] ELSE recorded
     /\ UNCHANGED <<claims, receipts, eaten>>
Hit(c, h) ==
  LET reply == IF recorded[h] = c THEN Reply("Success", Store!Current(c))
               ELSE Mutate(Store!Current(c), [kind |-> "damage", damage |-> Hits[h]])
      db == Save(c, reply)
  IN /\ Store!Readable(c) /\ recorded[h] \in {None, c}
     /\ Finish(db, c)
     /\ recorded' = IF db.ok THEN [recorded EXCEPT ![h] = c] ELSE recorded
     /\ UNCHANGED <<claims, receipts, eaten>>

Revival(c) ==
  /\ Store!Readable(c)
  /\ Finish(Save(c, Mutate(Store!Current(c), [kind |-> "revive"])), c)
  /\ UNCHANGED <<claims, recorded, receipts, eaten>>

\* INSERT IGNORE of the claim after the rules have found room.
ClaimTwice(c, d) ==
  LET reply == Store!Granted(c, d)
      db == Save(c, reply)
      first == reply.result = "Success" /\ db.ok
  IN /\ Store!Readable(c)
     /\ Finish(db, c)
     /\ claims' = IF first THEN [claims EXCEPT ![d] = c] ELSE claims
     /\ UNCHANGED <<recorded, receipts, eaten>>
Grab(c, d) ==
  LET reply == Store!Granted(c, d)
      first == reply.result = "Success" /\ claims[d] = None
      db == Save(c, IF first THEN reply ELSE Reply("AlreadyTaken", Store!Current(c)))
  IN /\ Store!Readable(c)
     /\ Finish(db, c)
     /\ claims' = IF first /\ db.ok THEN [claims EXCEPT ![d] = c] ELSE claims
     /\ UNCHANGED <<recorded, receipts, eaten>>

\* Offered gear leaves its row and changes owner before anything is written.
Release(db, o, from, to) ==
  LET n == o.instance
      held == \E i \in SlotIds : db.slots[from][0][i].instance = n
      freed == [db EXCEPT !.slots[from][0] =
                  [i \in SlotIds |-> IF @[i].instance = n THEN Empty ELSE @[i]]]
  IN IF n = 0 THEN db ELSE TransferOwner(OrRefuse(db, held, freed), n, o.item, from, to)
ReleaseAll(db, items, from, to) ==
  LET after[n \in 0..Len(items)] ==
        IF n = 0 THEN db ELSE Release(after[n - 1], items[n], from, to)
  IN after[Len(items)]

Exchange(t, pair, offers) ==
  LET old == [side \in 1..2 |-> Read(pair[side])]
      done == ApplyTrade(offers, old)
      first == ReleaseAll(Tables, offers[1].items, pair[1], pair[2])
      freed == ReleaseAll(first, offers[2].items, pair[2], pair[1])
      one == Write(freed, pair[1], old[1], done.states[1], FALSE)
      both == Write(one, pair[2], old[2], done.states[2], FALSE)
  IN /\ None \notin {old[1], old[2]} /\ Validate(old[1]) /\ Validate(old[2])
     /\ receipts[t] = None /\ done.result = "Success"
     /\ Finish(both, pair)
     /\ receipts' = IF both.ok THEN [receipts EXCEPT ![t] = [pair |-> pair, offers |-> offers]]
                    ELSE receipts
     /\ UNCHANGED <<claims, recorded, eaten>>

-----------------------------------------------------------------------------

Init ==
  /\ header = [c \in Characters |-> None]
  /\ slots = [c \in Characters |-> [k \in Categories |-> [i \in SlotIds |-> Empty]]]
  /\ equipment = [c \in Characters |-> [w \in WornSlots |-> Empty]]
  /\ owner = <<>>
  /\ claims = [d \in DOMAIN Drops |-> None]
  /\ recorded = [h \in DOMAIN Hits |-> None]
  /\ receipts = [t \in Trades |-> None]
  /\ eaten = [i \in Items |-> 0]
  /\ refused = {}

Next ==
  \/ \E c \in Characters : Request(c, Refresh)
  \/ \E c \in Players :
       \/ \E r \in Store!RequestsOf(c) : Request(c, r)
       \/ \E h \in DOMAIN Hits : Hit(c, h)
       \/ Revival(c)
       \/ \E d \in DOMAIN Drops : Grab(c, d)
  \/ \E t \in Trades, pair \in Pairs :
       /\ receipts[t] = None /\ None \notin {header[pair[1]], header[pair[2]]}
       /\ \E x \in Store!OffersOf(pair[1]), y \in Store!OffersOf(pair[2]) :
            Exchange(t, pair, <<x, y>>)

Spec == Init /\ [][Next]_vars

-----------------------------------------------------------------------------
(* Properties.                                                              *)

\* Every inventory that the rows add up to can be read again: Read ends in
\* Validate and throws for any that it refuses, for ever, as nothing repairs a
\* row (InventoryRepository.cpp:68).  The one exception is a row whose revisions
\* are used up: Apply and Mutate move the revision on without validating their
\* result, so that a change at the last but one commits a row that keeps every
\* other rule and is never loaded again.  (A trade does validate its result.)
LastRevision(s) == WellFormed(s) /\ s.revision = MaxRevision
StoredLoads ==
  \A c \in Characters : header[c] # None => Validate(Read(c)) \/ LastRevision(Read(c))

\* The statements of Write and Exchange never meet a key of the schema.
NothingRefused == refused = {}

\* Read after commit gives what the rules computed: the rows implement the
\* atomic store, whichever rows a transaction touches.
ImplementsStore == Store!Spec

\* Pieces, mesos and gear are only moved, whatever is repeated: a pickup's claim
\* is tested after its room (InventoryService.cpp:156).
ItemsConserved == Store!ItemsConserved

\* A committed exchange moves exactly what was offered, to both sides.
OfferedOf(offer, i) ==
  SumFunction([n \in DOMAIN offer.items |->
    IF offer.items[n].item = i THEN offer.items[n].quantity ELSE 0])
Exchanged(t) ==
  LET pair == receipts'[t].pair
      offers == receipts'[t].offers
  IN \A side \in 1..2 :
       LET old == Inventories[pair[side]]
           new == Inventories'[pair[side]]
       IN /\ new.mesos + offers[side].mesos = old.mesos + offers[3 - side].mesos
          /\ \A i \in Items : Store!Count(new, i) + OfferedOf(offers[side], i)
                                = Store!Count(old, i) + OfferedOf(offers[3 - side], i)
          /\ new.hp = old.hp /\ new.mp = old.mp /\ new.equipped = old.equipped
ExchangeExact == [][\A t \in Trades : receipts'[t] # receipts[t] => Exchanged(t)]_vars

\* "Full" is said only when there is no room: a pickup is refused exactly if
\* its pieces do not fit into stacks and empty places together, and two pieces
\* of gear can always be swapped, with no empty place on either side.
Room(s, k, i) ==
  SumFunction([p \in SlotIds |->
    IF s.entries[k][p].item \in {0, i} THEN StackLimit(i, k) - s.entries[k][p].quantity ELSE 0])
PickupFits(s) ==
  \A k \in Categories \cap {1, 3} : \A i \in ItemsOf(k), q \in 1..(Slots * Limit[k] + 1) :
    s.hp > 0 => (Pickup(s, i, q).result = "Success" <=> q <= Room(s, k, i))
Swap(s, i) == [revision |-> s.revision, mesos |-> 0, items |-> <<Store!Offering(s, 0, i, 1)>>]
SwapFits(s, t) ==
  \A i, j \in SlotIds :
    s.entries[0][i] # Empty /\ t.entries[0][j] # Empty =>
      ApplyTrade(<<Swap(s, i), Swap(t, j)>>, <<s, t>>).result = "Success"
Tradable(c) == header[c] # None /\ header[c].hp > 0 /\ header[c].revision + 1 < MaxRevision
FullMeansFull ==
  /\ \A c \in Characters : header[c] # None => PickupFits(Read(c))
  /\ \A c, d \in Characters :
       c # d /\ Tradable(c) /\ Tradable(d) => SwapFits(Read(c), Read(d))
=============================================================================
