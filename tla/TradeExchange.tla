--------------------------- MODULE TradeExchange ---------------------------
(***************************************************************************)
(* Player-to-player trading in the GameServer: TradeManager on the IOCP    *)
(* thread, the inventory request and damage queue of each GameSession, the *)
(* single database worker of CharacterRepository with its bounded FIFO,    *)
(* and the transactions InventoryRepository runs for it.                   *)
(*                                                                         *)
(* One action is one handler running to completion on the IOCP thread, one *)
(* iteration of TradeManager::Update, or one step of the worker.  Time is  *)
(* abstracted: a deadline may pass at any moment.  A COMMIT whose answer   *)
(* never came leaves an open transaction ("orphan") that still holds its   *)
(* row locks until the database commits it or rolls it back.               *)
(*                                                                         *)
(* Goods are indivisible things of value (an equipment instance, a stack,  *)
(* an amount of mesos): an inventory is a revision and a set of goods.     *)
(***************************************************************************)
EXTENDS Naturals, Sequences, FiniteSets

CONSTANTS Characters,    \* the characters that may be online
          TradeIds,      \* the ids NewFieldOperationId hands out, each once
          Goods,         \* everything that can be owned
          InitialGoods,  \* who owns what at the start
          Capacity,      \* how much an inventory holds
          QueueLimit,    \* jobs the database worker queues (64)
          HitLimit,      \* damage mutations a session queues (8)
          Operations,    \* what happens to each character in this instance
          Faults,        \* the faults that happen in this instance
          MaxRevision,   \* bound: negotiation steps of one trade
          MaxInventory   \* bound: inventory revisions reached by play

ASSUME TradeAssumption ==
  /\ InitialGoods \in [Characters -> SUBSET Goods]
  /\ \A c, d \in Characters : c # d => InitialGoods[c] \cap InitialGoods[d] = {}
  /\ Capacity \in Nat /\ QueueLimit \in Nat /\ HitLimit \in Nat
  /\ MaxRevision \in Nat /\ MaxInventory \in Nat
  /\ Operations \in [Characters -> SUBSET {"refresh", "change", "damage", "query"}]
  /\ Faults \subseteq {"storage", "timeout", "disconnect", "crash"}
  /\ "none" \notin TradeIds

VARIABLES
  stored,    \* database: the committed inventory of each character
  receipts,  \* database: character_trade_records, one row per exchange
  orphans,   \* database: open transactions whose connection was given up
  queue,     \* worker: the jobs waiting in CharacterRepository::_jobs
  running,   \* worker: the job whose COMMIT it is waiting for
  trades,    \* TradeManager's map of trades
  parties,   \* TradeState.characters of every trade id handed out
  session,   \* GameSession and Player of each character
  view,      \* client: the last open TradeState it has read
  agreed,    \* history: the offers each side was looking at when it confirmed
  verdicts   \* history: the outcomes told to clients

db == <<stored, receipts, orphans>>
worker == <<queue, running>>
vars == <<stored, receipts, orphans, queue, running, trades, parties, session,
          view, agreed, verdicts>>

Sides == {1, 2}
Snapshot == [rev : Nat, goods : SUBSET Goods]
Offers == [Sides -> Snapshot]
Pairs == {p \in Characters \X Characters : p[1] # p[2]}
Request == [id : TradeIds, chars : Pairs, offers : Offers]

ExchangeJob(r) == [kind |-> "exchange", request |-> r]
ApplyJob(c, op, rev) ==
  [kind |-> "apply", owner |-> c, op |-> op, rev |-> rev, live |-> TRUE]
LookupJob(c, t) == [kind |-> "lookup", owner |-> c, trade |-> t, live |-> TRUE]

Idle == [job |-> "none"]
NoOffers == [s \in Sides |-> [rev |-> 0, goods |-> {}]]
NoPending == [result |-> "none"]
Pending == [result |-> "waiting"]
Absent == [stage |-> "absent", revision |-> 0, confirmed |-> {},
           offers |-> NoOffers, pending |-> NoPending]
NoView == [trade |-> "none"]
Waiting == [answer |-> "waiting"]
Failed == [answer |-> "error"]
Loaded(s) == [answer |-> "loaded", state |-> s]
NoRequest == [op |-> "none", reply |-> Waiting]
NoLookup == [trade |-> "none", reply |-> Waiting]
Answer(r, s) == [result |-> r, states |-> s]

-----------------------------------------------------------------------------
(* What the handlers look up. *)

Open(t) == trades[t].stage \in {"Invited", "Editing", "Committing"}
Members(t) == {parties[t][1], parties[t][2]}
ActiveOf(c) == {t \in TradeIds : Open(t) /\ c \in Members(t)}
Active(c) == ActiveOf(c) # {}
Locked(c) == \E t \in ActiveOf(c) : trades[t].stage # "Invited"
RequestOnly(c) == session[c].request # NoRequest
FieldBusy(c) ==
  \/ session[c].request # NoRequest
  \/ session[c].lookup # NoLookup
  \/ session[c].hits > 0
  \/ session[c].recovering
CanAttack(c) == session[c].online /\ session[c].ready /\ ~session[c].paused
QueueHasRoom == Len(queue) < QueueLimit

Offline == [online |-> FALSE, ready |-> FALSE, paused |-> FALSE,
            inv |-> [rev |-> 1, goods |-> {}], request |-> NoRequest,
            hits |-> 0, recovering |-> FALSE, lookup |-> NoLookup]

-----------------------------------------------------------------------------
(* GameSession: what one connection does with an inventory answer. *)

ForgetHit(s) ==
  [s EXCEPT !.request = NoRequest, !.recovering = TRUE, !.paused = TRUE, !.ready = FALSE]
Recover(s) ==
  [s EXCEPT !.request = NoRequest, !.hits = @ + 1, !.recovering = TRUE,
            !.paused = TRUE, !.ready = FALSE]

\* FinishInventory
Finish(s, reply) ==
  IF reply.answer = "error"
  THEN IF s.request.op = "damage" THEN Recover(s)
                                  ELSE [s EXCEPT !.request = NoRequest]
  ELSE [s EXCEPT !.request = NoRequest, !.inv = reply.state, !.ready = TRUE,
                 !.recovering = @ /\ s.request.op # "damage",
                 !.paused = @ /\ ~(s.recovering /\ s.request.op = "damage")]

ApplyTradeInventory(s, state) ==
  [s EXCEPT !.inv = state, !.ready = TRUE, !.paused = s.recovering]

\* PumpMutation once it is due: the front mutation goes to the worker.
Submit(c, s) ==
  IF QueueHasRoom
  THEN /\ session' = [session EXCEPT ![c] =
                        [s EXCEPT !.hits = @ - 1,
                                  !.request = [op |-> "damage", reply |-> Waiting]]]
       /\ queue' = Append(queue, ApplyJob(c, "damage", s.inv.rev))
  ELSE /\ session' = [session EXCEPT ![c] =
                        Recover([s EXCEPT !.hits = @ - 1])]
       /\ UNCHANGED queue

Pump(c, s) ==
  IF s.request = NoRequest /\ s.hits > 0 /\ ~s.recovering
  THEN Submit(c, s)
  ELSE session' = [session EXCEPT ![c] = s] /\ UNCHANGED queue

\* The future is dropped and the shared cancel flag is set.
Abandon(j, c) ==
  IF j.kind # "exchange" /\ j.owner = c THEN [j EXCEPT !.live = FALSE] ELSE j
AbandonRequest(j, c) == IF j.kind = "apply" THEN Abandon(j, c) ELSE j
AbandonIn(q, c) == [i \in DOMAIN q |-> Abandon(q[i], c)]
AbandonRequestIn(q, c) == [i \in DOMAIN q |-> AbandonRequest(q[i], c)]

-----------------------------------------------------------------------------
(* TradeManager: ending a trade. *)

End(t) == [trades[t] EXCEPT !.stage = "Cancelled", !.revision = @ + 1]

\* TradeManager::Cancel: a trade handed to the database is left to its answer.
CancelEverything(c) == ActiveOf(c)
Cancellable(c) == {t \in ActiveOf(c) : trades[t].stage # "Committing"}
Cancel(c) ==
  /\ trades' = [t \in TradeIds |-> IF t \in Cancellable(c) THEN End(t) ELSE trades[t]]
  /\ verdicts' = [t \in TradeIds |->
                    IF t \in Cancellable(c) THEN verdicts[t] \cup {"Cancelled"}
                                            ELSE verdicts[t]]

-----------------------------------------------------------------------------
(* Connections and inventory requests. *)

Enter(c) ==
  /\ ~session[c].online
  /\ session' = [session EXCEPT ![c] = [Offline EXCEPT !.online = TRUE]]
  /\ UNCHANGED <<db, worker, trades, parties, view, agreed, verdicts>>

Disconnect(c) ==
  /\ "disconnect" \in Faults
  /\ session[c].online
  /\ Cancel(c)
  /\ session' = [session EXCEPT ![c] = Offline]
  /\ queue' = AbandonIn(queue, c)
  /\ running' = IF running = Idle THEN Idle
                ELSE [running EXCEPT !.job = Abandon(@, c)]
  /\ view' = [view EXCEPT ![c] = NoView]
  /\ UNCHANGED <<db, parties, agreed>>

\* BeginInventoryRequest; the client sends the revision it was last shown.  A
\* character that has no inventory yet asks for it in every instance.
RequestInventory(c, op) ==
  /\ op \in Operations[c] \cup (IF session[c].ready THEN {} ELSE {"refresh"})
  /\ session[c].online /\ ~FieldBusy(c)
  /\ Locked(c) => op = "refresh"
  /\ op = "change" => session[c].inv.rev < MaxInventory
  /\ QueueHasRoom
  /\ queue' = Append(queue, ApplyJob(c, op, session[c].inv.rev))
  /\ session' = [session EXCEPT ![c].request = [op |-> op, reply |-> Waiting]]
  /\ UNCHANGED <<db, running, trades, parties, view, agreed, verdicts>>

\* Player::RequestDamage, then QueueFieldMutation: a hit ends a trade that is
\* still being edited and is refused while one is being committed.
TakeDamage(c) ==
  /\ "damage" \in Operations[c]
  /\ CanAttack(c)
  /\ Locked(c) => Cancellable(c) # {}
  /\ IF Locked(c) THEN Cancel(c) ELSE UNCHANGED <<trades, verdicts>>
  /\ IF session[c].hits < HitLimit /\ ~session[c].recovering
     THEN Pump(c, [session[c] EXCEPT !.hits = @ + 1])
     ELSE UNCHANGED <<session, queue>>
  /\ UNCHANGED <<db, running, parties, view, agreed>>

\* GameSession::Update: the retry delay of an unresolved hit is over.
RetryDamage(c) ==
  /\ session[c].recovering /\ session[c].request = NoRequest /\ session[c].hits > 0
  /\ Submit(c, session[c])
  /\ UNCHANGED <<db, running, trades, parties, view, agreed, verdicts>>

InventoryAnswered(c) ==
  /\ session[c].request # NoRequest
  /\ session[c].request.reply # Waiting
  /\ Pump(c, Finish(session[c], session[c].request.reply))
  /\ UNCHANGED <<db, running, trades, parties, view, agreed, verdicts>>

\* The five-second deadline: the answer will be ignored.
InventoryTimeout(c) ==
  /\ "timeout" \in Faults
  /\ session[c].request # NoRequest
  /\ session' = [session EXCEPT ![c] = Finish(session[c], Failed)]
  /\ queue' = AbandonRequestIn(queue, c)
  /\ running' = IF running = Idle THEN Idle
                ELSE [running EXCEPT !.job = AbandonRequest(@, c)]
  /\ UNCHANGED <<db, trades, parties, view, agreed, verdicts>>

\* A Query for a trade that is no longer in memory, or is Completed there.
QueryTrade(c, t) ==
  /\ "query" \in Operations[c]
  /\ session[c].online /\ session[c].lookup = NoLookup
  /\ parties[t] # <<>> /\ c \in Members(t)
  /\ ~Active(c)
  /\ trades[t].stage \in {"absent", "Completed"}
  /\ QueueHasRoom
  /\ queue' = Append(queue, LookupJob(c, t))
  /\ session' = [session EXCEPT ![c].lookup = [trade |-> t, reply |-> Waiting]]
  /\ UNCHANGED <<db, running, trades, parties, view, agreed, verdicts>>

\* GameSession::Update: the lookup's answer is applied and sent on.
LookupAnswered(c) ==
  /\ session[c].lookup # NoLookup
  /\ session[c].lookup.reply # Waiting
  /\ LET t == session[c].lookup.trade
         reply == session[c].lookup.reply
         done == [session[c] EXCEPT !.lookup = NoLookup]
     IN /\ session' = [session EXCEPT ![c] =
                         IF reply.answer = "error" THEN done
                         ELSE ApplyTradeInventory(done, reply.state)]
        /\ verdicts' = IF reply.answer = "error" THEN verdicts
                       ELSE [verdicts EXCEPT ![t] = @ \cup {reply.verdict}]
  /\ UNCHANGED <<db, worker, trades, parties, view, agreed>>

-----------------------------------------------------------------------------
(* TradeManager::Handle.  A request that is refused changes nothing, so the  *)
(* actions below are the accepted requests and the ones that end the trade.  *)

Invite(a, b, t) ==
  /\ <<a, b>> \in Pairs
  /\ parties[t] = <<>>
  /\ CanAttack(a) /\ CanAttack(b)
  /\ ~Active(a) /\ ~Active(b) /\ ~FieldBusy(a) /\ ~FieldBusy(b)
  /\ parties' = [parties EXCEPT ![t] = <<a, b>>]
  /\ trades' = [trades EXCEPT ![t] =
                  [Absent EXCEPT !.stage = "Invited", !.revision = 1]]
  /\ UNCHANGED <<db, worker, session, view, agreed, verdicts>>

\* The client reads the state TradeManager last published to it.
ReadState(c, t) ==
  /\ Open(t) /\ c \in Members(t) /\ session[c].online
  /\ view' = [view EXCEPT ![c] = [trade |-> t, revision |-> trades[t].revision,
                                  offers |-> trades[t].offers]]
  /\ UNCHANGED <<db, worker, trades, parties, session, agreed, verdicts>>

\* The request names a trade of this character and the revision it was reading.
UpToDate(c, t) ==
  /\ view[c] # NoView /\ view[c].trade = t
  /\ view[c].revision = trades[t].revision
SideOf(c, t) == IF parties[t][1] = c THEN 1 ELSE 2
Together(t) == \A c \in Members(t) : CanAttack(c)
Negotiating(c, t, stage) ==
  /\ parties[t] # <<>> /\ c \in Members(t)
  /\ session[c].online
  /\ trades[t].stage = stage
  /\ UpToDate(c, t)
  /\ Together(t)
  /\ trades[t].revision < MaxRevision

Accept(c, t) ==
  /\ Negotiating(c, t, "Invited")
  /\ SideOf(c, t) = 2
  /\ \A m \in Members(t) : ~FieldBusy(m)
  /\ trades' = [trades EXCEPT
       ![t].stage = "Editing", ![t].revision = @ + 1,
       ![t].offers = [s \in Sides |->
                        [rev |-> session[parties[t][s]].inv.rev, goods |-> {}]]]
  /\ UNCHANGED <<db, worker, parties, session, view, agreed, verdicts>>

\* Changing an offer takes back both confirmations.
KeepOther(confirmed, s) == confirmed \ {s}
Reconfirm(confirmed, s) == {}
Offer(c, t, goods) ==
  /\ Negotiating(c, t, "Editing")
  /\ goods \subseteq session[c].inv.goods
  /\ LET s == SideOf(c, t)
     IN trades' = [trades EXCEPT
          ![t].offers[s] = [rev |-> session[c].inv.rev, goods |-> goods],
          ![t].confirmed = Reconfirm(@, s),
          ![t].revision = @ + 1]
  /\ UNCHANGED <<db, worker, parties, session, view, agreed, verdicts>>

RequestOf(t) == [id |-> t, chars |-> parties[t], offers |-> trades[t].offers]

FirstConfirm(c, t) ==
  /\ Negotiating(c, t, "Editing")
  /\ LET s == SideOf(c, t)
     IN /\ trades[t].confirmed \cup {s} # Sides
        /\ trades' = [trades EXCEPT ![t].confirmed = @ \cup {s},
                                    ![t].revision = @ + 1]
        /\ agreed' = [agreed EXCEPT ![t][s] = view[c].offers]
  /\ UNCHANGED <<db, worker, parties, session, view, verdicts>>

\* The second confirmation hands the exchange to the worker and stops combat.
\* With a full queue the future is invalid and Update submits it later.
LastConfirm(c, t) ==
  /\ Negotiating(c, t, "Editing")
  /\ \A m \in Members(t) : ~FieldBusy(m)
  /\ \E s \in Sides : trades[t].offers[s].goods # {}
  /\ LET s == SideOf(c, t)
     IN /\ trades[t].confirmed \cup {s} = Sides
        /\ agreed' = [agreed EXCEPT ![t][s] = view[c].offers]
  /\ trades' = [trades EXCEPT ![t].stage = "Committing", ![t].confirmed = Sides,
                              ![t].revision = @ + 1,
                              ![t].pending = IF QueueHasRoom THEN Pending ELSE @]
  /\ queue' = IF QueueHasRoom THEN Append(queue, ExchangeJob(RequestOf(t))) ELSE queue
  /\ session' = [m \in Characters |->
                   IF m \in Members(t) THEN [session[m] EXCEPT !.paused = TRUE]
                                       ELSE session[m]]
  /\ UNCHANGED <<db, running, parties, view, verdicts>>

EndTrade(t) ==
  /\ trades' = [trades EXCEPT ![t] = End(t)]
  /\ verdicts' = [verdicts EXCEPT ![t] = @ \cup {"Cancelled"}]

\* A Cancel request needs no current revision.
CancelRequest(c, t) ==
  /\ parties[t] # <<>> /\ c \in Members(t) /\ session[c].online
  /\ trades[t].stage \in {"Invited", "Editing"}
  /\ EndTrade(t)
  /\ UNCHANGED <<db, worker, parties, session, view, agreed>>

\* An up-to-date request finds the members apart, falling, dead or paused; a
\* map or channel change cancels an invitation the same way.
FoundApart(c, t) ==
  /\ parties[t] # <<>> /\ c \in Members(t) /\ session[c].online
  /\ trades[t].stage \in {"Invited", "Editing"}
  /\ UpToDate(c, t)
  /\ EndTrade(t)
  /\ UNCHANGED <<db, worker, parties, session, view, agreed>>

LeaveMap(c) ==
  /\ session[c].online /\ ~Locked(c) /\ ~session[c].paused
  /\ Cancellable(c) # {}
  /\ Cancel(c)
  /\ UNCHANGED <<db, worker, parties, session, view, agreed>>

-----------------------------------------------------------------------------
(* TradeManager::Update, one trade. *)

RetryExchange(t) ==
  /\ trades[t].stage = "Committing" /\ trades[t].pending = NoPending
  /\ QueueHasRoom
  /\ queue' = Append(queue, ExchangeJob(RequestOf(t)))
  /\ trades' = [trades EXCEPT ![t].pending = Pending]
  /\ UNCHANGED <<db, running, parties, session, view, agreed, verdicts>>

\* The answer is unknown: keep the trade and its id, and ask again later.
GiveUp(t) ==
  /\ EndTrade(t)
  /\ UNCHANGED session
NeverRetry(t) ==
  /\ trades' = [trades EXCEPT ![t].pending = Pending]
  /\ UNCHANGED <<session, verdicts>>
KeepAsking(t) ==
  /\ trades' = [trades EXCEPT ![t].pending = NoPending]
  /\ UNCHANGED <<session, verdicts>>

Outcome(result) == IF result = "Success" THEN "Completed" ELSE "Cancelled"
Settle(t) ==
  LET answer == trades[t].pending
      outcome == Outcome(answer.result)
      side(c) == SideOf(c, t)
  IN /\ trades' = [trades EXCEPT ![t].stage = outcome, ![t].revision = @ + 1,
                                 ![t].pending = NoPending]
     /\ verdicts' = [verdicts EXCEPT ![t] = @ \cup {outcome}]
     /\ session' = [c \in Characters |->
          IF c \in Members(t) /\ session[c].online
          THEN ApplyTradeInventory(session[c], answer.states[SideOf(c, t)])
          ELSE session[c]]

ExchangeAnswered(t) ==
  /\ trades[t].stage = "Committing"
  /\ trades[t].pending \notin {NoPending, Pending}
  /\ IF trades[t].pending.result = "StorageError" THEN KeepAsking(t) ELSE Settle(t)
  /\ UNCHANGED <<db, worker, parties, view, agreed>>

ExpireTrade(t) ==
  /\ trades[t].stage \in {"Invited", "Editing"}
  /\ EndTrade(t)
  /\ UNCHANGED <<db, worker, parties, session, view, agreed>>

EraseTrade(t) ==
  /\ trades[t].stage \in {"Completed", "Cancelled"}
  /\ trades' = [trades EXCEPT ![t] = Absent]
  /\ UNCHANGED <<db, worker, parties, session, view, agreed, verdicts>>

-----------------------------------------------------------------------------
(* The database worker and the transactions it runs. *)

RowsOf(j) == IF j.kind = "exchange" THEN {j.request.chars[1], j.request.chars[2]}
                                    ELSE {j.owner}
OpenJobs == orphans \cup
  (IF running # Idle /\ running.outcome = "open" THEN {running.job} ELSE {})
LockedRows == UNION {RowsOf(j) : j \in OpenJobs}
Unlocked(j) == RowsOf(j) \cap LockedRows = {}

HasReceipt(t) == \E r \in receipts : r.id = t

\* ApplyTrade: both removals first, then both deliveries.
DeliverOnly(r, s) == stored[r.chars[s]].goods \cup r.offers[3 - s].goods
GoodsAfter(r, s) ==
  (stored[r.chars[s]].goods \ r.offers[s].goods) \cup r.offers[3 - s].goods
TrustOffer(r) == "Success"
ApplyTrade(r) ==
  IF \E s \in Sides : \/ r.offers[s].rev # stored[r.chars[s]].rev
                      \/ ~(r.offers[s].goods \subseteq stored[r.chars[s]].goods)
  THEN "Stale"
  ELSE IF \E s \in Sides : Cardinality(GoodsAfter(r, s)) > Capacity THEN "Full"
  ELSE "Success"

StatesOf(r) == [s \in Sides |-> stored[r.chars[s]]]

\* The promise of a finished job; an abandoned future receives nothing.
FulfilExchange(r, answer) ==
  /\ trades' = [trades EXCEPT ![r.id].pending = answer]
  /\ UNCHANGED session
FulfilRequest(j, reply) ==
  /\ session' = IF j.live THEN [session EXCEPT ![j.owner].request.reply = reply]
                          ELSE session
  /\ UNCHANGED trades
FulfilLookup(j, reply) ==
  /\ session' = IF j.live THEN [session EXCEPT ![j.owner].lookup.reply = reply]
                          ELSE session
  /\ UNCHANGED trades

Fail(j) ==
  CASE j.kind = "exchange" ->
         FulfilExchange(j.request, Answer("StorageError", StatesOf(j.request)))
    [] j.kind = "apply" -> FulfilRequest(j, Failed)
    [] j.kind = "lookup" -> FulfilLookup(j, Failed)

\* The connection, a statement or a lock wait fails, or the job was cancelled.
JobFails ==
  /\ running = Idle /\ queue # <<>>
  /\ \/ "storage" \in Faults
     \/ Head(queue).kind = "apply" /\ ~Head(queue).live
  /\ queue' = Tail(queue)
  /\ Fail(Head(queue))
  /\ UNCHANGED <<db, running, parties, view, agreed, verdicts>>

\* Exchange: a recorded id is answered from the record, whatever came since.
ExchangeResult(r) == IF HasReceipt(r.id) THEN "Recorded" ELSE ApplyTrade(r)

RunExchange ==
  /\ running = Idle /\ queue # <<>>
  /\ LET j == Head(queue)
     IN /\ j.kind = "exchange" /\ Unlocked(j)
        /\ LET result == ExchangeResult(j.request)
           IN IF result = "Success"
              THEN /\ running' = [job |-> j, outcome |-> "open"]
                   /\ UNCHANGED <<trades, session>>
              ELSE /\ FulfilExchange(j.request,
                        Answer(IF result = "Recorded" THEN "Success" ELSE result,
                               StatesOf(j.request)))
                   /\ UNCHANGED running
  /\ queue' = Tail(queue)
  /\ UNCHANGED <<db, parties, view, agreed, verdicts>>

\* Apply: a refresh or a request for an old revision only reads.
RunApply ==
  /\ running = Idle /\ queue # <<>>
  /\ LET j == Head(queue)
     IN /\ j.kind = "apply" /\ j.live /\ Unlocked(j)
        /\ IF j.op = "refresh" \/ (j.op = "change" /\ j.rev # stored[j.owner].rev)
           THEN FulfilRequest(j, Loaded(stored[j.owner])) /\ UNCHANGED running
           ELSE /\ running' = [job |-> j, outcome |-> "open"]
                /\ UNCHANGED <<trades, session>>
  /\ queue' = Tail(queue)
  /\ UNCHANGED <<db, parties, view, agreed, verdicts>>

\* LookupTrade waits for the character row, then reads record and inventory.
RunLookup ==
  /\ running = Idle /\ queue # <<>>
  /\ LET j == Head(queue)
     IN /\ j.kind = "lookup" /\ Unlocked(j)
        /\ FulfilLookup(j, [answer |-> "loaded", state |-> stored[j.owner],
             verdict |-> IF HasReceipt(j.trade) THEN "Completed" ELSE "Cancelled"])
  /\ queue' = Tail(queue)
  /\ UNCHANGED <<db, running, parties, view, agreed, verdicts>>

Unversioned(s, used) == [rev |-> s.rev, goods |-> s.goods \ used]
Changed(s, used) == [rev |-> s.rev + 1, goods |-> s.goods \ used]

\* What a transaction's COMMIT makes durable.  A repeated hit is recognised by
\* its mutation id and changes nothing; using an item may consume it.
Effect(j) ==
  \/ /\ j.kind = "exchange"
     /\ stored' = [c \in Characters |->
          IF c \notin RowsOf(j) THEN stored[c]
          ELSE [rev |-> stored[c].rev + 1,
                goods |-> GoodsAfter(j.request,
                            IF j.request.chars[1] = c THEN 1 ELSE 2)]]
     /\ receipts' = receipts \cup {j.request}
  \/ /\ j.kind = "apply" /\ j.op = "change"
     /\ \E used \in SUBSET stored[j.owner].goods :
          /\ Cardinality(used) <= 1
          /\ stored' = [stored EXCEPT ![j.owner] = Changed(@, used)]
     /\ UNCHANGED receipts
  \/ /\ j.kind = "apply" /\ j.op = "damage"
     /\ stored[j.owner].rev < MaxInventory
     /\ stored' = [stored EXCEPT ![j.owner] = Changed(@, {})]
     /\ UNCHANGED receipts
  \/ /\ j.kind = "apply" /\ j.op = "damage"
     /\ UNCHANGED <<stored, receipts>>

CommitRunning ==
  /\ running # Idle /\ running.outcome = "open"
  /\ Effect(running.job)
  /\ running' = [running EXCEPT !.outcome = "committed"]
  /\ UNCHANGED <<orphans, queue, trades, parties, session, view, agreed, verdicts>>

RollbackRunning ==
  /\ "storage" \in Faults
  /\ running # Idle /\ running.outcome = "open"
  /\ running' = [running EXCEPT !.outcome = "rolledBack"]
  /\ UNCHANGED <<db, queue, trades, parties, session, view, agreed, verdicts>>

Succeed(j) ==
  IF j.kind = "exchange"
  THEN FulfilExchange(j.request, Answer("Success", StatesOf(j.request)))
  ELSE FulfilRequest(j, Loaded(stored[j.owner]))

ReplyCommitted ==
  /\ running # Idle /\ running.outcome = "committed"
  /\ Succeed(running.job)
  /\ running' = Idle
  /\ UNCHANGED <<db, queue, parties, view, agreed, verdicts>>

\* An SQL error, or an exception after the commit: the caller is told of a
\* storage error whatever became of the transaction.
ReplyUnknown ==
  /\ "storage" \in Faults
  /\ running # Idle
  /\ Fail(running.job)
  /\ orphans' = IF running.outcome = "open" THEN orphans \cup {running.job}
                                            ELSE orphans
  /\ running' = Idle
  /\ UNCHANGED <<stored, receipts, queue, parties, view, agreed, verdicts>>

OrphanCommits(j) ==
  /\ j \in orphans
  /\ Effect(j)
  /\ orphans' = orphans \ {j}
  /\ UNCHANGED <<worker, trades, parties, session, view, agreed, verdicts>>

OrphanRollsBack(j) ==
  /\ j \in orphans
  /\ orphans' = orphans \ {j}
  /\ UNCHANGED <<stored, receipts, worker, trades, parties, session, view, agreed,
                 verdicts>>

\* The process dies and restarts: memory and the job queue are lost.
Crash ==
  /\ "crash" \in Faults
  /\ orphans' = OpenJobs
  /\ queue' = <<>> /\ running' = Idle
  /\ trades' = [t \in TradeIds |-> Absent]
  /\ session' = [c \in Characters |-> Offline]
  /\ view' = [c \in Characters |-> NoView]
  /\ UNCHANGED <<stored, receipts, parties, agreed, verdicts>>
-----------------------------------------------------------------------------

Init ==
  /\ stored = [c \in Characters |-> [rev |-> 1, goods |-> InitialGoods[c]]]
  /\ receipts = {} /\ orphans = {}
  /\ queue = <<>> /\ running = Idle
  /\ trades = [t \in TradeIds |-> Absent]
  /\ parties = [t \in TradeIds |-> <<>>]
  /\ session = [c \in Characters |-> Offline]
  /\ view = [c \in Characters |-> NoView]
  /\ agreed = [t \in TradeIds |-> [s \in Sides |-> <<>>]]
  /\ verdicts = [t \in TradeIds |-> {}]

SessionStep ==
  \E c \in Characters :
    \/ Enter(c) \/ Disconnect(c)
    \/ \E op \in {"refresh", "change"} : RequestInventory(c, op)
    \/ TakeDamage(c) \/ RetryDamage(c)
    \/ InventoryAnswered(c) \/ InventoryTimeout(c)
    \/ \E t \in TradeIds : QueryTrade(c, t)
    \/ LookupAnswered(c) \/ LeaveMap(c)

HandleTrade ==
  \/ \E a, b \in Characters, t \in TradeIds : Invite(a, b, t)
  \/ \E c \in Characters, t \in TradeIds :
       \/ ReadState(c, t) \/ Accept(c, t)
       \/ \E goods \in SUBSET Goods : Offer(c, t, goods)
       \/ FirstConfirm(c, t) \/ LastConfirm(c, t)
       \/ CancelRequest(c, t) \/ FoundApart(c, t)

UpdateTrade ==
  \E t \in TradeIds :
    RetryExchange(t) \/ ExchangeAnswered(t) \/ ExpireTrade(t) \/ EraseTrade(t)

WorkerStep ==
  \/ RunExchange \/ RunApply \/ RunLookup \/ JobFails
  \/ CommitRunning \/ RollbackRunning \/ ReplyCommitted \/ ReplyUnknown

DatabaseStep == \E j \in orphans : OrphanCommits(j) \/ OrphanRollsBack(j)

Next == SessionStep \/ HandleTrade \/ UpdateTrade \/ WorkerStep \/ DatabaseStep \/ Crash

Spec == Init /\ [][Next]_vars

(* The worker thread, the main loop and orphaned transactions are never idle   *)
(* for ever; beyond that the database is assumed to recover: an operation that *)
(* is tried again and again is not refused for ever (strong fairness).         *)
RunExchangeOf(t) ==
  RunExchange /\ Head(queue).request.id = t
CommitExchangeOf(t) ==
  CommitRunning /\ running.job.kind = "exchange" /\ running.job.request.id = t
RunApplyOf(c) == RunApply /\ Head(queue).owner = c
CommitApplyOf(c) ==
  CommitRunning /\ running.job.kind = "apply" /\ running.job.owner = c
ReplyApplyOf(c) ==
  ReplyCommitted /\ running.job.kind = "apply" /\ running.job.owner = c

Fairness ==
  /\ WF_vars(WorkerStep) /\ WF_vars(DatabaseStep)
  /\ \A t \in TradeIds :
       /\ SF_vars(RetryExchange(t)) /\ WF_vars(ExchangeAnswered(t))
       /\ SF_vars(RunExchangeOf(t)) /\ SF_vars(CommitExchangeOf(t))
  /\ \A c \in {d \in Characters : "damage" \in Operations[d]} :
       /\ SF_vars(RetryDamage(c) /\ QueueHasRoom) /\ WF_vars(InventoryAnswered(c))
       /\ SF_vars(RunApplyOf(c)) /\ SF_vars(CommitApplyOf(c)) /\ SF_vars(ReplyApplyOf(c))

FairSpec == Spec /\ Fairness

-----------------------------------------------------------------------------
(* Types.                                                                   *)

Job ==
  [kind : {"exchange"}, request : Request] \cup
  [kind : {"apply"}, owner : Characters, op : {"refresh", "change", "damage"},
   rev : Nat, live : BOOLEAN] \cup
  [kind : {"lookup"}, owner : Characters, trade : TradeIds, live : BOOLEAN]

Reply == {Waiting, Failed} \cup [answer : {"loaded"}, state : Snapshot]
LookupReply == {Waiting, Failed} \cup
  [answer : {"loaded"}, state : Snapshot, verdict : {"Completed", "Cancelled"}]
PendingResult == {NoPending, Pending} \cup
  [result : {"Success", "Stale", "Full", "StorageError"}, states : Offers]

SessionState ==
  [online : BOOLEAN, ready : BOOLEAN, paused : BOOLEAN, inv : Snapshot,
   request : [op : {"none", "refresh", "change", "damage"}, reply : Reply],
   hits : Nat, recovering : BOOLEAN,
   lookup : [trade : TradeIds \cup {"none"}, reply : LookupReply]]

TradeRecord ==
  [stage : {"absent", "Invited", "Editing", "Committing", "Completed", "Cancelled"},
   revision : Nat, confirmed : SUBSET Sides, offers : Offers, pending : PendingResult]

\* Every variable has its type (the records above follow the C++ structures).
TypeOK ==
  /\ stored \in [Characters -> Snapshot]
  /\ receipts \subseteq Request
  /\ orphans \subseteq Job
  /\ queue \in Seq(Job)
  /\ running \in {Idle} \cup [job : Job, outcome : {"open", "committed", "rolledBack"}]
  /\ trades \in [TradeIds -> TradeRecord]
  /\ parties \in [TradeIds -> Pairs \cup {<<>>}]
  /\ session \in [Characters -> SessionState]
  /\ view \in [Characters -> {NoView} \cup
                             [trade : TradeIds, revision : Nat, offers : Offers]]
  /\ agreed \in [TradeIds -> [Sides -> Offers \cup {<<>>}]]
  /\ verdicts \in [TradeIds -> SUBSET {"Completed", "Cancelled"}]
-----------------------------------------------------------------------------
(* What must not go wrong.                                                  *)

\* A character takes part in at most one trade that can still exchange goods,
\* so no good can be promised to two partners (TradeManager.cpp:72).
OneActiveTrade ==
  \A c \in Characters : Cardinality(ActiveOf(c)) <= 1

\* Nothing is duplicated: whatever is lost, retried or committed late, a good
\* is in one committed inventory only (TradeRules.h:9, TradeRepository.cpp:32).
NoDuplication ==
  \A c, d \in Characters :
    c # d => stored[c].goods \cap stored[d].goods = {}

\* No step brings a good back that was used up, and an exchange hands over
\* goods without losing any: only one inventory changing alone may shrink.
GoodsConserved ==
  LET all == UNION {stored[c].goods : c \in Characters}
      changed == {c \in Characters : stored'[c] # stored[c]}
  IN /\ all' \subseteq all
     /\ Cardinality(changed) > 1 => all' = all
NothingConjured == [][GoodsConserved]_vars

\* What is exchanged is what each side was looking at when it confirmed: an
\* offer changed behind a confirmation is never executed (TradeManager.cpp:103,
\* TradeManager.cpp:132).
ExchangedAsConfirmed ==
  \A r \in receipts : \A s \in Sides : agreed[r.id][s] = r.offers

\* A client told that a trade is completed or cancelled was told the truth, and
\* stays right: no late commit, retry or restart contradicts an answer already
\* given (TradeManager.cpp:171, TradeRepository.cpp:72).
VerdictsTruthful ==
  \A t \in TradeIds :
    /\ "Completed" \in verdicts[t] => HasReceipt(t)
    /\ "Cancelled" \in verdicts[t] => ~HasReceipt(t)

\* While a trade is being committed its members have nothing under way that
\* could overwrite the exchanged inventories: no change, hit, lookup or recovery
\* (GameSession.cpp:74, GameSession.cpp:90, TradeManager.cpp:143).
CommittingUndisturbed ==
  \A t \in TradeIds :
    trades[t].stage = "Committing" =>
      \A c \in Members(t) :
        /\ session[c].request # NoRequest => session[c].request.op = "refresh"
        /\ session[c].lookup = NoLookup
        /\ session[c].hits = 0 /\ ~session[c].recovering

\* A cached inventory of the committed revision is the committed inventory:
\* comparing revisions alone makes an offer's goods trustworthy.
CacheSound ==
  \A c \in Characters :
    session[c].ready =>
      /\ session[c].inv.rev <= stored[c].rev
      /\ session[c].inv.rev = stored[c].rev => session[c].inv = stored[c]

\* How a trade stands for its players: decided by the record, and still open
\* while it is negotiated or while some transaction may yet commit it.
TransactionOpen(t) ==
  \E j \in OpenJobs : j.kind = "exchange" /\ j.request.id = t
ContractOutcome(t) ==
  IF HasReceipt(t) THEN "swapped"
  ELSE IF parties[t] = <<>> THEN "unused"
  ELSE IF Open(t) \/ TransactionOpen(t) THEN "open"
  ELSE "void"

Contract == INSTANCE TradeContract WITH
  held <- [c \in Characters |-> stored[c].goods],
  between <- parties,
  outcome <- [t \in TradeIds |-> ContractOutcome(t)]

\* Every behaviour of the server is one of the contract: each trade ends once,
\* by one whole swap or by none, whatever fails in between.
ImplementsContract == Contract!Spec

\* A trade handed to the database is settled in the end, so its members do not
\* stay locked out of their inventories (TradeManager.cpp:164).
CommitSettles ==
  \A t \in TradeIds :
    trades[t].stage = "Committing" ~> trades[t].stage # "Committing"

\* An unresolved hit is resolved in the end and combat resumes
\* (GameSession.cpp:126, GameSession.cpp:139).
RecoveryEnds ==
  \A c \in Characters : session[c].recovering ~> ~session[c].recovering
=============================================================================
