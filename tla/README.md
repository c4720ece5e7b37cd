# Formal models of MyMMORPGServer

TLA+ models of the login and game servers of this repository, the TLC runs that
check them on small instances, and proofs of the most important properties for
every instance. Paths such as `GameServer/TradeManager.cpp` are relative to
`src/`. `PROJECT.json` lists, for every definition, the lines of code it stands
for (`map`), and for every property a change of the code that breaks it
(`mutants`).

Contents: 1 the system, 2 the modules and the code, 3 the runs, 4 fairness,
5 what is proved, 6 where code and documents disagree, 7 what is abstracted or
left out, 8 the plan.

## 1. The system

Two Windows programs written in C++17, each with one IOCP thread that runs every
packet handler and every timer, and one thread for slow work.

```
 client ---7776---> LoginServer --7778 (blocking RPC)--> GameServer <---7777--- client
                     | registration worker                | database worker (FIFO of 64)
                     +------------------ MySQL -----------+
```

* **LoginServer** (`LoginServer.cpp:128-138`): dispatch completions, clean up
  sessions, repeat.
* **GameServer** (`GameServer.cpp:201-229`): advance the maps, dispatch one
  completion, clean up sessions, update the trades, once a second drop expired
  tickets and idle chat limits.

Since one thread runs all handlers, a handler is atomic with respect to the
others. What makes the servers hard is what happens between handlers: the
kernel completes I/O late and partially, the database worker answers late or not
at all, a `COMMIT` may be carried out although its answer is lost, clients leave
and come back while something of theirs is still under way, and deadlines of
different lengths race (5 s for an inventory request, 8 s for a drop
reservation, 8 s and 10 s for a registration).

| Component | State | Operations | Correct when |
|---|---|---|---|
| Connections (`ServerCore/Session*`, `RecvBuffer`) | per connection: flags, send queue, receive buffer, pending I/O | accept, receive, handle packets, send, close, destroy | memory outlives the kernel's use of it; bytes arrive whole, once and in order; nobody is left without a posted read |
| Tickets and entry (`AuthTicketManager`, `PlayerManager`, `LoginPacketHandler`, `GameServerClient`, `GamePacketHandler`) | tickets, load in flight, players by character and account | select, register ticket, consume, load, enter, leave | a key works once, a character is in the game once, nobody is locked out |
| Maps (`Map*`, `MapManager`) | members, monsters, drops, pending movement | enter, leave, change, tick | each player knows exactly who is there |
| Movement relay (`Player`, `Map3D`, `Map`) | jump state, last number, per-receiver queues | accept batch, relay, tick | each action shown once, in order, only while both are in the map |
| Trading (`TradeManager`, `TradeRules`, `TradeRepository`) | trades by id, offers, confirmations, pending exchange | invite, accept, offer, confirm, cancel, query, update | all or nothing, once, as confirmed |
| Inventory requests (`GameSession`) | one request, damage queue, recovery, cached snapshot | use/move/equip, damage, retry, resume, time out | the cache is never trusted beyond its revision; an unresolved hit keeps a player out of combat |
| Database worker (`CharacterRepository`, `InventoryRepository`) | bounded FIFO, one job at a time, cancelled flags | load, apply, exchange, lookup | every job ends in one answer |
| Drops (`FieldMonsters`, `InventoryRepository`) | drops, reservations, claims | create, reserve, finish, expire, query | granted once, and the answer is true |
| Registration (`RegistrationService`, `AccountRepository`, `LoginSession`) | queue of 8, one worker, a future per session | register, poll, give up, create | a told result is the truth; account and character together |
| Monsters and combat (`FieldMonsters`, `Monster`, `Map3D`, `Player`) | health, revisions and timers of monsters; HP, cooldown, pause and queued hits of players; per client the last snapshot sent | attack, hit, tick, respawn, revive | no client is shown an older monster after a newer one; a revival never meets an old hit |
| Inventory rules and rows (`InventoryService`, `TradeRules`, `InventoryRepository`) | tables of slots, worn gear, instances, claims, mutations, receipts | move, sort, wear, use, hit, revive, pick up, exchange | value is conserved, limits hold, the rows are what the rules computed |
| Chat (`ChatService`, `ChatLimiter`) | a bucket of tokens per account | say, whisper, refill, clean up | an account says as much as its bucket allows, no more and no less |
| Free movement, geometry, channels | positions, tables | move | see 7 |

Interactions: handlers call `Map`, `PlayerManager` and `TradeManager` directly;
sessions and trades hand jobs to the database worker and poll futures;
`Map` sends through the sessions of its members, and a failing send closes that
member's session; `OnDisconnected` cancels the trade, frees the drop
reservation, leaves the map and the indexes.

The hazards - everything in this code that a test would hardly reach - are listed
with their lines in `PROJECT.json`, each with the properties that watch it or the
reason why none does.

## 2. The modules and the code

### TradeExchange, TradeContract

`TradeExchange` is the core: trading together with the inventory requests of the
sessions, the database worker and MySQL's transactions.

| Variable | Code |
|---|---|
| `stored`, `receipts` | tables of inventories, `character_trade_records` |
| `orphans` | transactions whose connection was given up without an answer to `COMMIT`; they keep their row locks |
| `queue`, `running` | `CharacterRepository::_jobs` and the job in the worker |
| `trades`, `parties` | `TradeManager`'s map; who a handed-out id belongs to |
| `session` | `GameSession` and `Player`: cached inventory, request, damage queue, recovery, lookup |
| `view` | the last state of a trade the client has read: its requests name that revision |
| `agreed`, `verdicts` | history: what a side saw when it confirmed, what clients were told |

`Invite`, `Accept`, `Offer`, `FirstConfirm`, `LastConfirm`, `CancelRequest` are
`TradeManager::Handle`; `RetryExchange`, `ExchangeAnswered`, `ExpireTrade`,
`EraseTrade` one iteration of `Update`; `RunExchange` ... `ReplyUnknown` the
worker, with the moment of the `COMMIT` an action of its own.

`TradeContract` is what a player is promised: a trade opens once, and ends either
by one atomic swap of goods both hold, or by nothing. `ImplementsContract` is the
refinement: `held` is the committed inventories, a trade is *swapped* when its
record exists, *open* while it is negotiated or some transaction may yet commit
it, else *void*. It would fail if a retry swapped twice, if a cancelled trade were
committed later, or if a swap were half done.

### FieldDrops

Drops of one field (`Map::_fieldDrops`), reservations, the pickup and query of
each session, the worker, the claim row that a pickup inserts in its
transaction. `RequestPickup` is `ReserveDrop` with the queueing of the job, as the
handler does both; `TickDrop` is the part of `TickFieldMonsters` that ends
reservations and lets a drop expire.

### InventoryRules, InventoryStore, InventoryRows

`InventoryRules` has no state: `Validate`, `Apply`, `Mutate`, `Pickup` and
`ApplyTrade` compute the reply to a request from an inventory, as
`InventoryService` and `TradeRules` do, down to the order in which stacks are
filled. `InventoryStore` is the abstract specification of the database: each
transaction replaces whole inventories by what the rules computed, with the
record that tells a repetition (`claims`, `recorded`, `receipts`).

`InventoryRows` is `InventoryRepository`: `header`, `slots` and `equipment` are
the tables, `Read` adds rows up to an inventory, and `Write` deletes and inserts
only the rows that differ, statement by statement (`ClearSlots`, `ClearWorn`,
`StoreSlot`, `StoreWorn`; `Release` for what a trade hands over). Every statement
must respect the keys of `database/init`; one that does not rolls everything back
and is remembered in `refused`. `ImplementsStore` is the refinement:
`InventoryRows` behaves like `InventoryStore` whichever rows a request touches.

### FieldCombat

`monster` is `Map::_fieldMonsters`; `cache`, `broadcast` and `view` are what
`Map::SendFieldMonsters` and `TickFieldMonsters` use to build records once, to wait its
period, and to skip whom it sent the same before; `player` the `Player` objects with the
hits and the revival their sessions have queued. `screen` is what each client has been sent.
Where one stands decides what one is sent: `Listed` are the monsters within 16 m (`Within`)
if the field has more than `Part`, all of them otherwise, and `Walk` takes a player in and
out of sight, a wandering monster goes by itself. `AttackRefused`, `AttackMissed` and
`AttackHit` are the outcomes of `Map::AttackFieldMonster`, `Tick` one call of
`TickFieldMonsters` (no players; before the next broadcast; with the broadcast),
`HitCommitted` and `HitUnanswered` the ends of a queued hit, `Revived` and `ReviveFailed` of
a revival. Delays are counted down by `Elapse`. The rows a hit writes are in
`InventoryRows`, retries of the queue in `TradeExchange`, drops in `FieldDrops`.

### SessionIO

`link[s]` holds a `Session` at one address (addresses are reused after
destruction), the operations the kernel still has with it - deliberately apart
from the flags `recvPending`/`sendPending` that the code keeps about them - and
the history of the connection. `thread` is the session whose packets the IOCP
thread is processing, so that a handler's sends and closes happen in the middle
of `ProcessPackets`. `Broadcasts` ranges over what a handler may send to other
sessions and which of these sends fail.

### GameEntry

From the login server's `HandleCharacterSelect` to the map: `issued`, `asking`
and `given` are the login server, `ticket` the game server's
`AuthTicketManager`, `game` its sessions, `PlayerManager` and maps. The operators
over `game` (`Register`, `AddPlayer`, `NotifyPlayerEntered`, `Leave`, `Arrive`)
are the functions of the same names, and one action is one handler that composes
them. `seen` is what a client has been told about the players around it.

### Chat

`Chat` extends `GameEntry` by what players say: `RateLimited`, `InvalidMessage`,
`SendMap` and `SendWhisper` are the outcomes of `ChatService`'s requests over the
players of `GameEntry`, with sends that fail and close somebody's connection in
the middle of the others' entries and departures. `bucket` is
`ChatLimiter::_buckets` with the time since it was counted; `credit` the history
it is compared with. The runs check `ChatSpec`, so that everything `GameEntry`
promises is checked while players talk.

### MovementRelay, LandingReport

`AcceptAction` is `Player::AcceptAction3D`, folded over a batch as
`Map::ReceiveActions3D` does; `queue` the pending actions per receiver; `Tick`
the packets of `Map::Tick3D`. `screen[r][s]` is the last action of `s` that `r`
was given. `LandingReport` adds clients that report as `docs/MOVEMENT_3D.md`
describes, and the combat pause, in which the server does not listen: a hit may remain
without its answer at any moment, whether its player stands or jumps (`Pause`), and the
fight goes on when a repetition is answered (`Resume`). A trade also stops the server
from listening, but begins only between two players who stand (`TradeManager.cpp:41-45`,
asked again at Accept); it is no pause of this model.

### Registration

`attempts` are the registrations submitted with their cancel flags; `worker` is
the one thread and how far it is; `doubtful` are transactions whose `COMMIT` was
sent and never answered. `written[a]` are the tables in which the transaction of `a` has
a row nobody else sees: `Insert` and `Character` write there, and only a commit makes
it visible (`Publish`). Whatever else ends a transaction is `Rollback`, the destructor
that rolls back before `setAutoCommit(true)` would commit; when the connection is lost,
or the process dies, the database does the same by itself, later (`Settle`), and until
then the open transaction holds its id's key. `accounts` and `characters` remember which
attempt made a row, so that an attempt's number also stands for its password.

## 3. The runs

Every run is exhaustive for its bounds. Deadlock is checked except where a run
leaves out disconnections (`trade_interference`, `trade_liveness`):
there the bounds on revisions stop the model where the server would go on.

| Run | Instance | Shows |
|---|---|---|
| `trade_faults` | 2 traders, 1 trade, 2 goods, capacity 1; failing statements, lost answers, disconnects, restarts | verdicts stay true; the contract is implemented |
| `trade_interference` | 2 traders, 1 trade, 1 good; inventory changes, damage, lookups, timeouts | no duplication, cache sound, commit undisturbed, exchange as confirmed, nothing conjured |
| `trade_liveness` | 2 traders, 1 good, failing database | a commit settles, a recovery ends |
| `session_stream` | 1 connection, streams with whole, split, too short and too long packets, 3 sends against a queue of 3 bytes | bytes in order, legal peers kept, nothing held back, buffers inside their limits (`StreamIntact`); a closed session is destroyed |
| `session_broadcast` | 2 connections that send to each other while they close | no freed memory, stable buffers, no stall, one `OnDisconnected` |
| `field_drops` | 2 players, 2 drops, field of 1, queue of 2, lost answers, restarts | granted once, answers true |
| `inventory_rows` | 2 characters, 2 categories of 2 slots, stacks of 3, 2 drops, 1 hit, 1 trade, revisions to 4 | stored inventories load unless revisions are used up, no statement refused, items conserved, `Full` means full, the store implemented, an exchange exact |
| `field_combat` | 2 players of whom one walks out of sight, 1 monster of 3 HP and blows of 2, a field that shows none from afar (`Part = 0`), 1 HP, 2 hits queued, delays of one tick | shown never back, a broadcast shows all in sight, swings spaced, a revival alone, no pause without a hit, a monster returns |
| `game_entry` | 3 characters of 2 accounts, 2 connections, 2 keys, 2 maps, failing sends, restarts; one account talks, with a bucket of 3 and requests of 2 | indexes agree, keys spent once, presence agrees, speech exact, entries settle |
| `movement_relay` | 2 players, 2 maps, 2 visits, 3 numbers, 2 jump ids, queue of 2, packets of 1 | relay exact, jumps alternate |
| `registration` | 2 connections, 1 id, 3 attempts, queue of 1, restarts | told results true, accounts complete, late never creates, every client answered |
| `landing_lost` | 2 players | violation, see 6 |

Why these bounds are enough to be interesting:

* *Trading.* In `trade_faults` both sides own a good and can hold one, so that an
  offer of one side ends in `Full` and offers of both in a swap; revision 6 is what
  that takes (accept, two offers, two confirmations). Elsewhere 5 is enough for an
  exchange and for an offer changed behind the other's confirmation. `MaxInventory = 2`
  lets an inventory change under an offer. That a character is never in two open
  trades needs three characters and two trades; it is proved (5) instead of run.
* *Sessions.* A maximal packet of 4 bytes, headers of 2 and reads of 3 give every
  relative position of a packet border, a read border and the buffer's end. One stream
  has a packet that claims to be shorter than its header, with bytes enough behind it
  for the claim to be read (`Session.cpp:257`), another one that is too long.
* *Inventories.* Two slots fill up; a pickup of several pieces fills a stack and starts
  the next; two pieces of gear and two places on the body let gear be swapped in one
  transaction, within a bag, with the body and between characters, which is what
  the order of deletions and insertions is for. `MaxRevision` is also the end of the
  revisions, where the rules must refuse and where `Validate` does. One player does
  everything and the other only looks and trades: their rows meet in the exchange alone.
* *Combat.* One monster needs two blows, so that a snapshot between them can be
  late; the second player is only hit. One HP makes each hit deadly, and two
  queued hits let one outlive the death. A heartbeat of two periods tells a skipped
  snapshot from a repeated one. `Part = 0` makes one monster a field of more than fit in
  one part, so that sight matters; the proofs hold for any `Part`.
* *Drops.* Two players and a field limit of 1 make reservation, expiry and reuse of the
  room race.
* *Entry.* Two characters of one account, and two keys, let one account enter twice at once;
  two connections are both witness and newcomer in turn. A bucket of 3 with requests of
  2 never divides evenly, so that part of a token is always at stake.
* *Relay.* A queue of 2 overflows; packets of 1 leave actions behind; two visits
  let an old batch meet a new visit. `MaxBatch = 1`, as a batch of n has the effect
  of n batches of one in a row (every test of a batch is repeated for a single
  action, and the tick may stay away in between).
* *Registration.* Three attempts for one id: one running, one in the queue, one
  turned away or later.

## 4. Fairness

| Specification | Assumed | Because |
|---|---|---|
| `TradeExchange!FairSpec` | the worker and orphaned transactions do not stop; the main loop handles answers; strong fairness for retried operations of the database | one thread each, and a retry with growing delay for ever (`TradeManager.cpp:164-169`, `GameSession.cpp:139-144`); the property is void if the database never works again |
| `SessionIO!FairSpec` | the thread ends the handler it is in, visits each session and frees it; the kernel returns the operations of a *closed* socket | `GameServer.cpp:201-229`; `closesocket` cancels overlapped operations. Nothing is assumed of clients |
| `GameEntry!FairSpec` | deadlines are noticed and sessions asked to close are closed | the same loop. Nothing of database, login server or clients |
| `FieldCombat!FairSpec` | time passes and the maps are ticked | `GameServer.cpp:203`: the loop ticks the maps in every round. Nothing of clients or of the database |
| `Registration!FairSpec` | the main loop polls; time passes | `LoginServer.cpp:128-138`. The worker may hang for ever |

## 5. What is proved

TLAPS checks these for all values of the constants under the named assumptions
of the modules (`TradeAssumption`, `DropAssumption`, `CombatAssumption`,
`EntryAssumption`, `ChatAssumption`, `Bounds` of `Registration` and of
`MovementRelay`, `SessionAssumption`, `RulesAssumption`, `StarterAssumption`,
`RowsAssumption`), with any number of characters, trades, goods, drops, monsters,
connections and keys, any size of bag and stack, and any bounds. The assumptions say that bounds
are natural numbers, that a marker such as `None` is none of the values it stands
beside (`"none"` is no trade's number: `NewFieldOperationId` never gives the 0 that
`_tradeLookupId` means nothing by), that characters and drops, over which amounts are
summed, are finitely many, and what the code fixes itself (a character has one account,
a new character's mesos fit their column).

`TradeExchange_proofs`

* `TypeCorrect`: `Spec => []TypeOK`. Inductive with `KnownParties` (a trade in
  memory has two members): an answer's inventories are looked up by side.
* `AtMostOneTrade`: `Spec => []OneActiveTrade`. Cardinalities are not inductive;
  `UniqueTrade` says that two open trades with a common member are the same.
  Every step but `Invite` only closes trades (`OnlyCloses`), which keeps
  `UniqueTrade`; `Invite` finds both characters free.
* `NeverDuplicated`: `Spec => []NoDuplication`. The moment that could duplicate is
  a commit long after the offer was checked. `StorageInv` adds that every
  transaction that may still commit - the worker's, and each given up earlier -
  hands over goods its sides hold *now* (`OffersHeld`), and why that stays so:
  transactions that may commit lock disjoint rows (`RowsApart`).

The second half of `TradeExchange_proofs`, about what the contract promises

* `OnlyConfirmedExchanges`, `VerdictsStayTrue`, `CommittingIsUndisturbed`,
  `CachesAreSound`, `NothingIsConjured`: one invariant in four parts.
  `ExchangeInv`: whoever waits for a trade's answer is a side of it, alone with its
  partner (`WaitInv`, `AloneInv`); what a side looks at is what the trade holds
  (`ViewInv`); and a trade that is being stored, or was stored, is what both sides
  confirmed (`ConfirmInv`, `ConfirmedInv`), which an answer that comes after a
  restart could otherwise break. `StorageInv` is `NeverDuplicated`'s. `SessionInv`:
  a job whose answer someone still wants is the only one of its kind its owner
  waits for, and who is not connected waits for nothing. `TruthInv` carries the truth of a
  verdict from the record (`RecordInv`) to the answer and to the lookup after a lost answer
  (`AnswerInv`, `LookupInv`) to what the client is told (`VerdictInv`). `CacheSound` needs
  `PastInv`: every inventory a session holds, or is about to be sent, is one the database
  has or had.
* `KeepsTheContract`: `Spec => ImplementsContract`. Initial states map to initial
  states, and each of the server's steps maps to `Open`, `Swap`, `Void` or `Spend` of
  the contract or to a stutter: committing an exchange is the contract's swap, wherever
  it happens - in the worker, or late, after the answer was given up - and a trade
  becomes void only when the last way for it to be stored is gone.

`FieldDrops_proofs`

* `TypeCorrect`: includes the field's limit, which needs that the drops on a
  field are a finite set.
* `DropGrantedOnce`: with `OpenApart`, that transactions which may still commit
  concern different drops and owners - the claim row's unique key.
* `ReservationHasPickup`: inductive with the types.
* `TakenDropGranted`, `AnswersStayTrue`: one invariant, `DropInv`. `LiveInv` ties
  each answer to the request it reaches: a job not abandoned is the one its owner
  waits for. `TruthInv` carries the truth of an answer from the commit
  (`CommittedClaims`) to the session (`RepliesTrue`) to the client (`ToldTrue`).
  The hard case is `NoRecord`: `Never` says the claim is not this owner's *and* no
  transaction that may still commit would make it so, and `PickupsUntold` says a
  new attempt starts with nothing told.

`FieldCombat_proofs`

* `SwingsAreSpaced`, `RevivalsAreAlone`, `PausedHaveHits`: one invariant of single
  players, `AllSound`, which ties a player's death, its queued hits and its revival
  together; every action changes one player, or treats all alike (a tick, time).
* `TypeCorrect`: for any players, monsters and delays.
* `ShownNeverBack`: what a client shows is never newer than the monster, and what
  was cached or sent is never newer than that. The step of an attack is the hard
  one: its event overtakes every snapshot built before, so the cache is dropped.
* `BroadcastIsComplete`: whom a broadcast passes over was sent the same list of what is
  in its sight, and nothing has been shown to it since. For any number of monsters, of
  which a client is promised all in a field of at most `Part`, and those within 16 m in
  a larger one.

`GameEntry_proofs` (of `GameEntry` and of `Chat`)

* `TypeCorrect`, `IndexesAlwaysAgree`, `KeysAreSpentOnce`: one invariant,
  `GameInv`. `Sound` says of a game that each connection that loads or plays has
  its seat in both indexes and in one map, and each seat its connection; it is
  proved for each function of `PlayerManager` and `Map`, and handlers compose them.
  `AllLodged` is what holds between handlers only. `TicketInv` ties a key to the
  character it was issued for.
* `IndexesAgreeInTalk`, `KeysSpentOnceInTalk`: the same of `ChatSpec`, whose steps
  only close connections (`TalkStep`).
* `NoGhostsNobodyUnseen`, `PresenceInTalk`: `PresenceAgrees`, on top of `GameInv`.
  Between handlers everybody on a map has on its screen exactly the others there
  (`Presence`). In the middle of a handler of s that holds of everybody but s:
  `Around` when s may or may not have been shown, `Without` when all is as if it
  were not there. `Leave` turns the one into the other, `Enter` turns that back into
  `Presence` - or, when a send to s fails half-way, into `Around`, and then s is
  closed, which takes it off the map.
* `SpeechIsExact`: with `ChatInv`, that an erased bucket belongs to an account with full
  credit. Refilling rounds at the capacity, so that it may be done at any time.

`Registration_proofs`

* `TypeCorrect`, `AnswersStayTrue`, `NeverHalfAnAccount`, `StaleMakesNothing`:
  one invariant, `RegInv`. Whoever has written holds the key of an id without an
  account, and no two the same one (`KeyInv`); so an account, once there, never changes.
  `WriteInv` follows the transaction statement by statement: what the worker's attempt
  has written is just what its phase says, a commit in doubt has both rows, and nothing
  of it is visible before; so the only commits there are publish two rows, and an attempt
  that fails after the first insert publishes none - which is where the rollback comes
  in: the mutant that forgets it leaves an account without a character, for ever.
  Assumed is that a rollback fails only together with its connection.
  `EarlyInv`: an attempt that was stale in time is not past the second check and
  made nothing. `TruthInv` carries the truth of a result from the worker's end to
  the client, where *Busy* means that the attempt is nowhere any more.

`SessionIO_proofs`

* `NoDanglingOperation`, `SendBufferStays`, `NoStall`, `OneDisconnect`: one
  invariant, `Core` of each session (the flags agree with what the kernel really
  has, which is at most one operation of each kind) and `Flow` (packets of a
  connected session wait only for a send under way). A handler's sends, which may
  come in the middle of anything, keep both and leave a session's life alone
  (`Keeps`); closing is proved once for whatever went before (`CloseStep`).
* `StreamsStayIntact`: with `StreamInv` on top. Out: the bytes on the wire are those
  of the packets dropped from the queue and the counted ones of the packet in front.
  In: what was received is the packets handled and what the buffer holds, and a
  packet begins where the buffer's data does. That a client is never cut off for a
  full buffer needs that a full one holds a whole packet or garbage (`RoomLeft`).
  Sums of packet sizes and the bytes of packets are recursive functions.

`MovementRelay_proofs`

* `NothingLostOnTheWay`: `RelayExact`. `ViewInv` says of each pair of players who
  share a map that one has heard of the other up to some number and has exactly the
  later actions in its queue; `MadeInv` that numbers increase, by which handing out
  the front packet leaves just what is later than its last action (`HandedOut`).
* `NoJumpInTheAir`: `JumpsAlternate`. Not inductive: `JumpState` adds that a player
  in the air is in its last jump and has only moved since, and that one on the ground
  has landed from every jump. What survives one action of a batch survives the batch
  (`OutcomeIn`).

`InventoryRows_proofs` (of `InventoryRules`, `InventoryStore` and `InventoryRows`)

* `EveryRowLoads`, `NoStatementRefused`: `StoredLoads` and `NothingRefused`. `StoredLoads`
  is about the loader itself, `Validate` with its test of the revision, and names the one
  row that is not loaded: that of the last revision.
  The invariant `IInv` says that each character's rows are a well-formed inventory of
  gear that `owner` gives it (`Sound(Tables)`), and that nothing was refused so far.
  It is inductive, but only by what both layers do:
  * *What the rules do.* A request makes of an inventory a well-formed one with the
    same gear or less, and what is granted to it (`Follows`); a trade makes two of two,
    each with its own gear less what it gives and with what it is given (`Traded`).
    Shown for each operation, and for adding and taking by induction over the places.
  * *What `Write` does.* With the rows of the old inventory, and the new one any the
    rules make of it (`Ready`), it leaves the rows of the new one (`Written`). On
    the way (`Midway`) the places already visited are right, those to come hold the
    old rows, and gear is either where it belongs or in no row: every place whose
    gear changes is cleared before anything is inserted. Without that, an insert
    would meet the old row of the same instance and be refused, or overwrite it.
  * *What an exchange does before.* Piece by piece, the given gear of both sides is
    taken from its row and only then changes its owner (`Regiven`), which the foreign
    keys accept only because no row holds it; in the end the rows lack what was given
    and nothing else (`Surrendered`, `Freed`, `Tidy`).
* `RowsImplementStore`: `Spec => ImplementsStore`. `Read` of the rows that `Write` left
  is the inventory that was written, so each transaction is the store's own. The store's
  operators that both modules use mean the same in both (`Same...`).

* `PiecesOnlyMove`, `ExchangesAreExact`: `ItemsConserved` and `ExchangeExact`. What there
  is of an item is a sum over places, bags and characters, and every step changes two or
  three terms of it. `Total(K, s)` is how much an inventory holds of a set `K` of items
  with their instances, so that one lemma for each operation serves both for the pieces of
  an item (`All(i)`) and for a single piece of gear (`{<<m, n>>}`): what an operation
  takes and leaves (`ApplyTurned`, `MutateTurned`, `Settled`; a deposit and a sort are
  recursions over the places, `DepositAmounts` and `PackedAmounts`). The invariant is
  `KInv`, which is `IInv` and
  * `Balanced`: who has no inventory yet counts for the starter that the first request
    will create, so that creating it changes no sum;
  * `GearKept`: the owner that the table names holds the instance. `ItemsConserved` only
    says that each instance is in one place *somewhere*, which a trade does not keep
    unless the given piece is known to lie with the giver;
  * `Bounded`: mesos fit their column and revisions are not 0, by which the mesos that
    `Deliver` adds up are really those that were paid, and a trade is never refused for
    its total.

  That an instance is in *one* place follows from `IInv` (the gear of a row is its
  character's own, and no character has it twice).
* `RefusedOnlyWhenFull`: `FullMeansFull`, from `KInv`. A deposit first fills stacks and
  then empty places, and what is left over is 0 exactly if the pieces fit into both
  together (`DepositAmounts`: each place is visited, and left at its brim unless nothing
  is left). For the swap, the place from which a piece was given is free before the other
  one arrives (`RoomForOne`), and the inventory that results passes `Validate` because
  no two characters have an instance in common (`StillGood`).

The last three modules prove things about recursive functions. The library's induction
theorems take a predicate, which the provers cannot instantiate, so they prove
induction over *sets* of numbers, of sequences and of finite sets first (`Induction`,
`SeqInduction`, `SetInduction`). That a recursive function over `0..n` exists at all is
`Recursion`; that the sum of the community modules, which adds up in an order it
chooses, may be taken apart at any element is `SumWithout`.

Only model-checked, because it is out of the prover's reach: liveness under fairness
(`CommitSettles`, `RecoveryEnds`, `ClosedIsDestroyed`, `MonsterReturns`, `EntrySettles`,
`AnswersCome`) and anything with `ENABLED`. Every safety property that a passing run
checks is proved.

## 6. Where code and documents disagree

* **`landing_lost`.** `docs/MOVEMENT_3D.md` (line 27) says that after landing a new press
  makes the next jump, and `docs/FIELD_EXPANSION_2026-10-13.md` (line 17) that stored state
  and position are brought together before a paused fight goes on. A hit whose answer is
  lost pauses its player's combat at any time, also in the middle of a jump
  (`GameSession.cpp:126-133`). Until a repetition is answered every batch is
  dropped (`Map3D.cpp:50`), the one with the landing too. `docs/MOVEMENT_3D.md` (line 29)
  has only a landing with the same number, or a respawn, end the lock of the air; when the fight
  goes on (`GameSession.cpp:139-144`) the server still has the player in the air, and
  refuses its walking, its next jump and that jump's landing (`Player.cpp:40-49`) until a
  respawn, a revival or a map change. The client is not in this repository. The run
  assumes one that goes on falling while it is paused, reports each of its own actions once,
  and does not apply `MovementState3D` to itself
  (`docs/HEADLESS_FIELD_VALIDATION_2026-10-16.md`, line 100); a client that
  hangs in the air until the fight goes on would not meet this. A trade cannot do it:
  both members stand when it begins.

Not a contradiction either, but worth knowing:

* A row with the last revision, `UINT64_MAX`, is committed by the change before it and never
  loads again: `Apply` and `Mutate` do not validate their result
  (`InventoryService.cpp:31` is only asked when reading), while a trade does. It takes
  more changes than anybody makes; `StoredLoads` says so instead of leaving it out.
* The comment at `TradeManager.cpp:149` says combat is stopped while a trade is being
  stored. The pause is set once, on the `Player` objects of that moment; a member who
  disconnects and enters again while the worker still commits has a new `Player` that
  nobody paused. What the pause is for holds nevertheless: damage is refused while
  `TradeManager::Locked` says so (`GameSession.cpp:90`), which is
  `CommittingUndisturbed`.

## 7. What is abstracted, and what is left out

Everywhere: time is abstracted, so a deadline may pass at any moment after it
was set; rate limits, logging, metrics and error replies that change nothing are
left out.

* **Trading.** A good is indivisible (an equipment, a stack, an amount); stacks and
  slots are within a capacity. Being in one map and near is taken as both being able
  to fight, and a trade may be found apart at any up-to-date request
  (`FoundApart`). Queries come from members of ids that were handed out. An
  answer computed earlier may set a cached inventory back; the code allows it, and
  `CacheSound` says what may still be relied on. `OnDisconnected` cancels trades
  except those being committed, as the code does.
* **Inventories.** Places per category, stacks, HP, revisions and mesos are scaled down;
  items are a few of each category. What a character may wear, eat and offer is all
  tried. Rollback, repetition after a lost answer and locking of rows are in
  `TradeExchange` and `FieldDrops`, where a transaction is one step of the database.
* **Combat.** Positions are places, of which some are within 16 m of each other; walls, angles
  and the reach of attacks only decide who is hit: anyone within 16 m may be. Wandering is a
  choice of places (one in the run). A record of a snapshot is kept where the code keeps its
  hash: two different snapshots with one hash are left out. The numbers of attacks are
  bounded per client.
* **Drops.** Positions, pickup range and what is dropped. `Full` promises nothing: the
  slots are tried before the claim is looked up (what `Full` does mean is
  `FullMeansFull`). `CleanupRecords` (`InventoryRepository.cpp:209-231`) deletes claims after 30
  days; a drop lies for 60 s (`docs/FIELD_EXPANSION_2026-10-13.md:25,31`), so none can be
  granted again for it. `NoRecord` speaks of what is still to be granted; about the past
  the same document warns not to read it so.
* **Sessions.** Bytes are counted and have no addresses: that a queued packet's bytes do
  not move is the container's promise. A packet dropped at the queue's limit without closing
  the connection would break no property. A handler sends one packet to each session
  it reaches before it accepts or refuses. A failure of `WSASend` or `WSARecv` may happen at
  any call. Failing `AcceptEx` ends the server program and is left out.
* **Entry.** Loads finish in any order (the FIFO would only restrict this). A full
  database queue is one outcome of `EnterGame`, and costs the ticket. Cancelled
  loads have no effect. Keys are random 64-bit numbers: none is issued twice
  or guessed. A name that cannot be copied ends an entry as a failing send does, before
  anybody was told. A revival is a change to one's own map. The branch of
  `HandleChangeMap` for a failing `AddPlayer` cannot be reached and is left out. A request
  of the login server may arrive after it gave up.
* **Chat.** Texts are readable or not; time is counted in the units that a bucket fills
  in. The buckets of players who come from elsewhere are like any other.
* **Relay.** Positions and clocks. A batch refused for number, clock or format
  changes nothing; an action refused for its clock is as good as absent from its batch;
  a dead, paused or locked player's batches are ignored. The 200 ms between
  packets are a free choice of who is served. Platform maps and 3D maps share one
  model since their code does the same.
* **Registration.** Format errors and the 2 s throttle, with its *Busy*, change nothing; the
  account that *DuplicateId* speaks of may be the same client's, of an earlier attempt that
  timed out. The worker's deadline may pass at any moment. `ServerError` promises nothing in
  the code, and nothing is claimed for it.

Not modelled: the formulas of positions, ranges and damage, free movement and
`MovementValidator`, channel lists and capacities, geometry and CSV loading,
`MovementSimulation` (tests only), the wire structures, password hashing and key
generation, configuration and start-up, the pool of `AcceptEx`, the character list
of the login server, migrations, tests, the test client and tools. These are
floating-point computations, reads without effect, or calls into libraries.
`components` in `PROJECT.json` gives the reason for each.

## 8. Plan

Order: what players can lose value by first. Done: trading with contract, the
connections beneath everything, inventories with their rows and store, drops,
entry, presence and chat, combat, relay, registration; proofs of everything the runs
check about safety in them.

Left, modelling:

1. Damage together with pickups in one session: `QueueFieldMutation` carries both,
   and `FieldDrops` and `TradeExchange` see one kind each.
2. Channel capacity and portals, if they prove to be more than one rule each.

Left, proving: the liveness properties, for which the installed provers have no
`ENABLED`; and a refinement that joins the two developments of trading, with a good of
`TradeExchange` as a piece that `InventoryStore!Exchange` moves.

## Running

    tlc -config MCTradeFaults.cfg MCTradeExchange.tla
    tlapm TradeExchange_proofs.tla

The names of the runs with their modules and configurations are in
`PROJECT.json`.
