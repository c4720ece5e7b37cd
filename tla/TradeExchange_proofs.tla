------------------------ MODULE TradeExchange_proofs ------------------------
(***************************************************************************)
(* Proofs about TradeExchange for every set of characters, trades, goods   *)
(* and every bound: types, one active trade per character, no duplication, *)
(* and what TradeContract promises: every exchange is the one that was     *)
(* confirmed, what clients are told is true and stays true, and every      *)
(* behaviour of the server is one of the contract.                         *)
(***************************************************************************)
EXTENDS TradeExchange, SequenceTheorems, FiniteSetTheorems, TLAPS

USE DEF Sides

(***************************************************************************)
(* The values the handlers build have their types.                         *)
(***************************************************************************)

LEMMA ReplyTypes ==
  /\ Waiting \in Reply /\ Failed \in Reply
  /\ Waiting \in LookupReply /\ Failed \in LookupReply
  /\ \A s \in Snapshot : Loaded(s) \in Reply
  /\ \A r \in Reply : r # Waiting /\ r.answer # "error" => r.state \in Snapshot
  /\ \A r \in LookupReply : r # Waiting /\ r.answer # "error" =>
        r.state \in Snapshot /\ r.verdict \in {"Completed", "Cancelled"}
BY DEF Reply, LookupReply, Waiting, Failed, Loaded, Snapshot

LEMMA OfflineType ==
  Offline \in SessionState /\ [Offline EXCEPT !.online = TRUE] \in SessionState
BY ReplyTypes DEF Offline, SessionState, NoRequest, NoLookup, Snapshot

LEMMA RecoverType ==
  ASSUME NEW s \in SessionState
  PROVE  Recover(s) \in SessionState
<1>1. NoRequest \in [op : {"none", "refresh", "change", "damage"}, reply : Reply]
  BY ReplyTypes DEF NoRequest
<1>2. s.hits + 1 \in Nat
  BY DEF SessionState
<1> QED BY <1>1, <1>2 DEF Recover, SessionState

LEMMA FinishType ==
  ASSUME NEW s \in SessionState, NEW r \in Reply, r # Waiting
  PROVE  Finish(s, r) \in SessionState
<1>1. CASE r.answer = "error"
  BY <1>1, RecoverType, ReplyTypes DEF Finish, SessionState, NoRequest
<1>2. CASE r.answer # "error"
  BY <1>2, ReplyTypes DEF Finish, SessionState, NoRequest
<1> QED BY <1>1, <1>2

LEMMA TradeInventoryType ==
  ASSUME NEW s \in SessionState, NEW state \in Snapshot
  PROVE  ApplyTradeInventory(s, state) \in SessionState
BY DEF ApplyTradeInventory, SessionState

LEMMA SessionFieldTypes ==
  ASSUME NEW s \in SessionState
  PROVE  /\ [s EXCEPT !.hits = @ + 1] \in SessionState
         /\ [s EXCEPT !.paused = TRUE] \in SessionState
         /\ [s EXCEPT !.lookup = NoLookup] \in SessionState
         /\ \A op \in {"refresh", "change", "damage"} :
              [s EXCEPT !.request = [op |-> op, reply |-> Waiting]] \in SessionState
         /\ \A t \in TradeIds :
              [s EXCEPT !.lookup = [trade |-> t, reply |-> Waiting]] \in SessionState
         /\ \A r \in Reply : [s EXCEPT !.request.reply = r] \in SessionState
         /\ \A r \in LookupReply : [s EXCEPT !.lookup.reply = r] \in SessionState
         /\ s.hits > 0 =>
              /\ [s EXCEPT !.hits = @ - 1] \in SessionState
              /\ [s EXCEPT !.hits = @ - 1,
                           !.request = [op |-> "damage", reply |-> Waiting]]
                   \in SessionState
<1>1. [s EXCEPT !.hits = @ + 1] \in SessionState /\ [s EXCEPT !.paused = TRUE] \in SessionState
  <2>1. s.hits + 1 \in Nat
    BY DEF SessionState
  <2> QED BY <2>1 DEF SessionState
<1>2. \A l \in [trade : TradeIds \cup {"none"}, reply : LookupReply] :
        [s EXCEPT !.lookup = l] \in SessionState
  BY DEF SessionState
<1>3. NoLookup \in [trade : TradeIds \cup {"none"}, reply : LookupReply]
  BY ReplyTypes DEF NoLookup
<1>4. \A q \in [op : {"none", "refresh", "change", "damage"}, reply : Reply] :
        [s EXCEPT !.request = q] \in SessionState
  BY DEF SessionState
<1>5. ASSUME NEW r \in Reply PROVE [s EXCEPT !.request.reply = r] \in SessionState
  BY DEF SessionState
<1>6. ASSUME NEW r \in LookupReply PROVE [s EXCEPT !.lookup.reply = r] \in SessionState
  BY DEF SessionState
<1>7. ASSUME s.hits > 0
      PROVE  /\ [s EXCEPT !.hits = @ - 1] \in SessionState
             /\ [s EXCEPT !.hits = @ - 1,
                          !.request = [op |-> "damage", reply |-> Waiting]] \in SessionState
  <2>1. s.hits - 1 \in Nat
    BY <1>7 DEF SessionState
  <2> QED BY <2>1, ReplyTypes DEF SessionState
<1> QED BY <1>1, <1>2, <1>3, <1>4, <1>5, <1>6, <1>7, ReplyTypes

LEMMA JobTypes ==
  /\ \A r \in Request : ExchangeJob(r) \in Job
  /\ \A c \in Characters, op \in {"refresh", "change", "damage"}, rev \in Nat :
       ApplyJob(c, op, rev) \in Job
  /\ \A c \in Characters, t \in TradeIds : LookupJob(c, t) \in Job
BY DEF Job, ExchangeJob, ApplyJob, LookupJob

LEMMA JobKinds ==
  ASSUME NEW j \in Job
  PROVE  /\ j.kind \in {"exchange", "apply", "lookup"}
         /\ j.kind = "exchange" => j.request \in Request
         /\ j.kind # "exchange" => j.owner \in Characters
         /\ j.kind = "lookup" => j.trade \in TradeIds
BY DEF Job

LEMMA AbandonType ==
  ASSUME NEW j \in Job, NEW c
  PROVE  Abandon(j, c) \in Job /\ AbandonRequest(j, c) \in Job
BY DEF Job, Abandon, AbandonRequest

LEMMA AbandonQueueType ==
  ASSUME NEW q \in Seq(Job), NEW c
  PROVE  AbandonIn(q, c) \in Seq(Job) /\ AbandonRequestIn(q, c) \in Seq(Job)
<1>1. PICK n \in Nat : q \in [1..n -> Job]
  BY SeqDef
<1>2. AbandonIn(q, c) \in [1..n -> Job] /\ AbandonRequestIn(q, c) \in [1..n -> Job]
  BY <1>1, AbandonType DEF AbandonIn, AbandonRequestIn
<1> QED BY <1>2, SeqDef

LEMMA QueueTypes ==
  ASSUME NEW q \in Seq(Job)
  PROVE  /\ \A j \in Job : Append(q, j) \in Seq(Job)
         /\ q # <<>> => Head(q) \in Job /\ Tail(q) \in Seq(Job)
BY AppendProperties, HeadTailProperties

LEMMA OfferTypes ==
  /\ NoOffers \in Offers /\ Absent \in TradeRecord
BY DEF NoOffers, Offers, Absent, TradeRecord, PendingResult, Snapshot

LEMMA EndType ==
  ASSUME NEW t \in TradeIds, TypeOK
  PROVE  End(t) \in TradeRecord
<1>1. trades[t] \in TradeRecord /\ trades[t].revision + 1 \in Nat
  BY DEF TypeOK, TradeRecord
<1> QED BY <1>1 DEF End, TradeRecord

LEMMA CancelType ==
  ASSUME NEW c, TypeOK, Cancel(c)
  PROVE  /\ trades' \in [TradeIds -> TradeRecord]
         /\ verdicts' \in [TradeIds -> SUBSET {"Completed", "Cancelled"}]
<1>1. trades' \in [TradeIds -> TradeRecord]
  BY EndType DEF Cancel, TypeOK
<1>2. verdicts' \in [TradeIds -> SUBSET {"Completed", "Cancelled"}]
  BY DEF Cancel, TypeOK
<1> QED BY <1>1, <1>2

LEMMA EndTradeType ==
  ASSUME NEW t \in TradeIds, TypeOK, EndTrade(t)
  PROVE  /\ trades' \in [TradeIds -> TradeRecord]
         /\ verdicts' \in [TradeIds -> SUBSET {"Completed", "Cancelled"}]
BY EndType DEF EndTrade, TypeOK

LEMMA SubmitType ==
  ASSUME TypeOK, NEW c \in Characters, NEW s \in SessionState, s.hits > 0, Submit(c, s)
  PROVE  session' \in [Characters -> SessionState] /\ queue' \in Seq(Job)
<1>1. CASE QueueHasRoom
  <2>1. ApplyJob(c, "damage", s.inv.rev) \in Job
    BY JobTypes DEF SessionState, Snapshot
  <2>2. [s EXCEPT !.hits = @ - 1, !.request = [op |-> "damage", reply |-> Waiting]]
          \in SessionState
    BY SessionFieldTypes
  <2>3. queue' = Append(queue, ApplyJob(c, "damage", s.inv.rev))
    BY <1>1 DEF Submit
  <2>4. session' = [session EXCEPT ![c] = [s EXCEPT !.hits = @ - 1,
                       !.request = [op |-> "damage", reply |-> Waiting]]]
    BY <1>1 DEF Submit
  <2>5. queue' \in Seq(Job)
    BY <2>1, <2>3, QueueTypes DEF TypeOK
  <2>6. session' \in [Characters -> SessionState]
    BY <2>2, <2>4 DEF TypeOK
  <2> QED BY <2>5, <2>6
<1>2. CASE ~QueueHasRoom
  <2>1. Recover([s EXCEPT !.hits = @ - 1]) \in SessionState
    BY SessionFieldTypes, RecoverType
  <2> QED BY <1>2, <2>1 DEF Submit, TypeOK
<1> QED BY <1>1, <1>2

LEMMA PumpType ==
  ASSUME TypeOK, NEW c \in Characters, NEW s \in SessionState, Pump(c, s)
  PROVE  session' \in [Characters -> SessionState] /\ queue' \in Seq(Job)
<1>1. CASE s.request = NoRequest /\ s.hits > 0 /\ ~s.recovering
  BY <1>1, SubmitType DEF Pump
<1>2. CASE ~(s.request = NoRequest /\ s.hits > 0 /\ ~s.recovering)
  BY <1>2 DEF Pump, TypeOK
<1> QED BY <1>1, <1>2

LEMMA FulfilTypes ==
  ASSUME TypeOK
  PROVE  /\ \A r \in Request, answer \in PendingResult :
              FulfilExchange(r, answer) => trades' \in [TradeIds -> TradeRecord]
         /\ \A j \in Job, reply \in Reply :
              j.kind = "apply" /\ FulfilRequest(j, reply) =>
                session' \in [Characters -> SessionState]
         /\ \A j \in Job, reply \in LookupReply :
              j.kind = "lookup" /\ FulfilLookup(j, reply) =>
                session' \in [Characters -> SessionState]
<1>1. ASSUME NEW r \in Request, NEW answer \in PendingResult, FulfilExchange(r, answer)
      PROVE  trades' \in [TradeIds -> TradeRecord]
  <2>1. r.id \in TradeIds /\ trades[r.id] \in TradeRecord
    BY DEF Request, TypeOK
  <2>2. [trades[r.id] EXCEPT !.pending = answer] \in TradeRecord
    BY <2>1 DEF TradeRecord
  <2>3. trades' = [trades EXCEPT ![r.id] = [trades[r.id] EXCEPT !.pending = answer]]
    BY <1>1, <2>1 DEF FulfilExchange
  <2> QED BY <2>1, <2>2, <2>3 DEF TypeOK
<1>2. ASSUME NEW j \in Job, NEW reply \in Reply, j.kind = "apply", FulfilRequest(j, reply)
      PROVE  session' \in [Characters -> SessionState]
  <2>1. j.owner \in Characters /\ session[j.owner] \in SessionState
    BY <1>2, JobKinds DEF TypeOK
  <2>2. [session[j.owner] EXCEPT !.request.reply = reply] \in SessionState
    BY <2>1, SessionFieldTypes
  <2>3. session' \in {session,
          [session EXCEPT ![j.owner] = [session[j.owner] EXCEPT !.request.reply = reply]]}
    BY <1>2 DEF FulfilRequest
  <2> QED BY <2>1, <2>2, <2>3 DEF TypeOK
<1>3. ASSUME NEW j \in Job, NEW reply \in LookupReply, j.kind = "lookup",
             FulfilLookup(j, reply)
      PROVE  session' \in [Characters -> SessionState]
  <2>1. j.owner \in Characters /\ session[j.owner] \in SessionState
    BY <1>3, JobKinds DEF TypeOK
  <2>2. [session[j.owner] EXCEPT !.lookup.reply = reply] \in SessionState
    BY <2>1, SessionFieldTypes
  <2>3. session' \in {session,
          [session EXCEPT ![j.owner] = [session[j.owner] EXCEPT !.lookup.reply = reply]]}
    BY <1>3 DEF FulfilLookup
  <2> QED BY <2>1, <2>2, <2>3 DEF TypeOK
<1> QED BY <1>1, <1>2, <1>3

LEMMA RequestTypes ==
  ASSUME TypeOK
  PROVE  /\ \A t \in TradeIds : parties[t] # <<>> => RequestOf(t) \in Request
         /\ \A r \in Request : StatesOf(r) \in Offers
         /\ \A r \in Request, result \in {"Success", "Stale", "Full", "StorageError"} :
              Answer(result, StatesOf(r)) \in PendingResult
<1>1. \A t \in TradeIds : parties[t] # <<>> => RequestOf(t) \in Request
  BY DEF RequestOf, Request, TypeOK, TradeRecord
<1>2. ASSUME NEW r \in Request PROVE StatesOf(r) \in Offers
  <2>1. r.chars[1] \in Characters /\ r.chars[2] \in Characters
    BY DEF Request, Pairs
  <2> QED BY <2>1 DEF StatesOf, Offers, TypeOK
<1>3. \A r \in Request, result \in {"Success", "Stale", "Full", "StorageError"} :
        Answer(result, StatesOf(r)) \in PendingResult
  BY <1>2 DEF Answer, PendingResult
<1> QED BY <1>1, <1>2, <1>3

LEMMA FailType ==
  ASSUME TypeOK, NEW j \in Job, Fail(j)
  PROVE  /\ trades' \in [TradeIds -> TradeRecord]
         /\ session' \in [Characters -> SessionState]
<1>1. CASE j.kind = "exchange"
  <2>1. j.request \in Request /\ FulfilExchange(j.request, Answer("StorageError", StatesOf(j.request)))
    BY <1>1, JobKinds DEF Fail
  <2> QED BY <2>1, FulfilTypes, RequestTypes DEF FulfilExchange, TypeOK
<1>2. CASE j.kind = "apply"
  <2>1. FulfilRequest(j, Failed)
    BY <1>2 DEF Fail
  <2> QED BY <1>2, <2>1, FulfilTypes, ReplyTypes DEF FulfilRequest, TypeOK
<1>3. CASE j.kind = "lookup"
  <2>1. FulfilLookup(j, Failed)
    BY <1>3 DEF Fail
  <2> QED BY <1>3, <2>1, FulfilTypes, ReplyTypes DEF FulfilLookup, TypeOK
<1> QED BY <1>1, <1>2, <1>3, JobKinds

(***************************************************************************)
(* Type correctness, one lemma for each thread.                            *)
(***************************************************************************)

LEMMA InitType == Init => TypeOK
<1> SUFFICES ASSUME Init PROVE TypeOK
  OBVIOUS
<1>1. stored \in [Characters -> Snapshot]
  BY TradeAssumption DEF Init, TradeAssumption, Snapshot
<1>2. session \in [Characters -> SessionState] /\ trades \in [TradeIds -> TradeRecord]
  BY OfflineType, OfferTypes DEF Init
<1>3. queue \in Seq(Job)
  BY DEF Init
<1> QED BY <1>1, <1>2, <1>3 DEF Init, TypeOK

LEMMA SessionStepType == TypeOK /\ SessionStep => TypeOK'
<1> SUFFICES ASSUME TypeOK, NEW c \in Characters,
      \/ Enter(c) \/ Disconnect(c)
      \/ \E op \in {"refresh", "change"} : RequestInventory(c, op)
      \/ TakeDamage(c) \/ RetryDamage(c)
      \/ InventoryAnswered(c) \/ InventoryTimeout(c)
      \/ \E t \in TradeIds : QueryTrade(c, t)
      \/ LookupAnswered(c) \/ LeaveMap(c)
    PROVE TypeOK'
  BY DEF SessionStep
<1> USE DEF db, worker
<1>0. session[c] \in SessionState
  BY DEF TypeOK
<1>1. CASE Enter(c)
  BY <1>1, OfflineType DEF Enter, TypeOK
<1>2. CASE Disconnect(c)
  <2>1. /\ trades' \in [TradeIds -> TradeRecord]
        /\ verdicts' \in [TradeIds -> SUBSET {"Completed", "Cancelled"}]
    BY <1>2, CancelType DEF Disconnect
  <2>2. queue' \in Seq(Job)
    BY <1>2, AbandonQueueType DEF Disconnect, TypeOK
  <2>3. running' \in {Idle} \cup [job : Job, outcome : {"open", "committed", "rolledBack"}]
    BY <1>2, AbandonType DEF Disconnect, TypeOK
  <2>4. session' \in [Characters -> SessionState]
    BY <1>2, OfflineType DEF Disconnect, TypeOK
  <2> QED BY <1>2, <2>1, <2>2, <2>3, <2>4 DEF Disconnect, TypeOK
<1>3. ASSUME NEW op \in {"refresh", "change"}, RequestInventory(c, op) PROVE TypeOK'
  <2>1. ApplyJob(c, op, session[c].inv.rev) \in Job
    BY <1>0, JobTypes DEF SessionState, Snapshot
  <2>2. queue' \in Seq(Job)
    BY <1>3, <2>1, QueueTypes DEF RequestInventory, TypeOK
  <2>3. session' = [session EXCEPT ![c] =
                      [session[c] EXCEPT !.request = [op |-> op, reply |-> Waiting]]]
    BY <1>3 DEF RequestInventory
  <2>4. session' \in [Characters -> SessionState]
    BY <1>0, <2>3, SessionFieldTypes DEF TypeOK
  <2> QED BY <1>3, <2>2, <2>4 DEF RequestInventory, TypeOK
<1>4. CASE TakeDamage(c)
  <2>1. /\ trades' \in [TradeIds -> TradeRecord]
        /\ verdicts' \in [TradeIds -> SUBSET {"Completed", "Cancelled"}]
    BY <1>4, CancelType DEF TakeDamage, TypeOK
  <2>2. [session[c] EXCEPT !.hits = @ + 1] \in SessionState
    BY <1>0, SessionFieldTypes
  <2>3. session' \in [Characters -> SessionState] /\ queue' \in Seq(Job)
    BY <1>4, <2>2, PumpType DEF TakeDamage, TypeOK
  <2> QED BY <1>4, <2>1, <2>3 DEF TakeDamage, TypeOK
<1>5. CASE RetryDamage(c)
  <2>1. session' \in [Characters -> SessionState] /\ queue' \in Seq(Job)
    BY <1>0, <1>5, SubmitType DEF RetryDamage
  <2> QED BY <1>5, <2>1 DEF RetryDamage, TypeOK
<1>6. CASE InventoryAnswered(c)
  <2>1. session[c].request.reply \in Reply
    BY <1>0 DEF SessionState
  <2>2. Finish(session[c], session[c].request.reply) \in SessionState
    BY <1>0, <1>6, <2>1, FinishType DEF InventoryAnswered
  <2>3. session' \in [Characters -> SessionState] /\ queue' \in Seq(Job)
    BY <1>6, <2>2, PumpType DEF InventoryAnswered
  <2> QED BY <1>6, <2>3 DEF InventoryAnswered, TypeOK
<1>7. CASE InventoryTimeout(c)
  <2>1. Failed # Waiting
    BY DEF Failed, Waiting
  <2>2. Finish(session[c], Failed) \in SessionState
    BY <1>0, <2>1, FinishType, ReplyTypes
  <2>3. queue' \in Seq(Job)
    BY <1>7, AbandonQueueType DEF InventoryTimeout, TypeOK
  <2>4. running' \in {Idle} \cup [job : Job, outcome : {"open", "committed", "rolledBack"}]
    BY <1>7, AbandonType DEF InventoryTimeout, TypeOK
  <2> QED BY <1>7, <2>2, <2>3, <2>4 DEF InventoryTimeout, TypeOK
<1>8. ASSUME NEW t \in TradeIds, QueryTrade(c, t) PROVE TypeOK'
  <2>1. queue' \in Seq(Job)
    BY <1>8, JobTypes, QueueTypes DEF QueryTrade, TypeOK
  <2>2. session' = [session EXCEPT ![c] =
                      [session[c] EXCEPT !.lookup = [trade |-> t, reply |-> Waiting]]]
    BY <1>8 DEF QueryTrade
  <2>3. session' \in [Characters -> SessionState]
    BY <1>0, <2>2, SessionFieldTypes DEF TypeOK
  <2> QED BY <1>8, <2>1, <2>3 DEF QueryTrade, TypeOK
<1>9. CASE LookupAnswered(c)
  <2> DEFINE t == session[c].lookup.trade
             reply == session[c].lookup.reply
             done == [session[c] EXCEPT !.lookup = NoLookup]
  <2>1. reply \in LookupReply /\ reply # Waiting
    BY <1>0, <1>9 DEF SessionState, LookupAnswered
  <2>2. done \in SessionState
    BY <1>0, SessionFieldTypes
  <2>3. reply.answer # "error" =>
          /\ ApplyTradeInventory(done, reply.state) \in SessionState
          /\ reply.verdict \in {"Completed", "Cancelled"}
    BY <2>1, <2>2, ReplyTypes, TradeInventoryType
  <2>4. /\ session' = [session EXCEPT ![c] =
                         IF reply.answer = "error" THEN done
                         ELSE ApplyTradeInventory(done, reply.state)]
        /\ verdicts' = IF reply.answer = "error" THEN verdicts
                       ELSE [verdicts EXCEPT ![t] = @ \cup {reply.verdict}]
    BY <1>9 DEF LookupAnswered
  <2> HIDE DEF t, reply, done
  <2>5. session' \in [Characters -> SessionState]
    BY <2>2, <2>3, <2>4 DEF TypeOK
  <2>6. verdicts' \in [TradeIds -> SUBSET {"Completed", "Cancelled"}]
    BY <2>3, <2>4 DEF TypeOK
  <2> QED BY <1>9, <2>5, <2>6 DEF LookupAnswered, TypeOK
<1>10. CASE LeaveMap(c)
  BY <1>10, CancelType DEF LeaveMap, TypeOK
<1> QED BY <1>1, <1>2, <1>3, <1>4, <1>5, <1>6, <1>7, <1>8, <1>9, <1>10

LEMMA HandleTradeType == TypeOK /\ HandleTrade => TypeOK'
<1> USE DEF db, worker
<1>1. ASSUME TypeOK, NEW x \in Characters, NEW y \in Characters, NEW t \in TradeIds,
             Invite(x, y, t)
      PROVE  TypeOK'
  <2>1. [Absent EXCEPT !.stage = "Invited", !.revision = 1] \in TradeRecord
    BY OfferTypes DEF Absent, TradeRecord, PendingResult
  <2> QED BY <1>1, <2>1 DEF Invite, TypeOK
<1>2. ASSUME TypeOK, NEW c \in Characters, NEW t \in TradeIds, ReadState(c, t)
      PROVE  TypeOK'
  <2>1. [trade |-> t, revision |-> trades[t].revision, offers |-> trades[t].offers] \in
          [trade : TradeIds, revision : Nat, offers : Offers]
    BY <1>2 DEF TypeOK, TradeRecord
  <2> QED BY <1>2, <2>1 DEF ReadState, TypeOK
<1>3. ASSUME TypeOK, NEW c \in Characters, NEW t \in TradeIds, Accept(c, t)
      PROVE  TypeOK'
  <2> DEFINE offers == [s \in Sides |->
                          [rev |-> session[parties[t][s]].inv.rev, goods |-> {}]]
  <2>1. parties[t][1] \in Characters /\ parties[t][2] \in Characters
    BY <1>3 DEF Accept, Negotiating, TypeOK, Pairs
  <2>2. offers \in Offers
    BY <1>3, <2>1 DEF Offers, TypeOK, SessionState, Snapshot
  <2>3. trades[t] \in TradeRecord /\ trades[t].revision + 1 \in Nat
    BY <1>3 DEF TypeOK, TradeRecord
  <2> HIDE DEF offers
  <2>4. [trades[t] EXCEPT !.stage = "Editing", !.revision = @ + 1, !.offers = offers]
          \in TradeRecord
    BY <2>2, <2>3 DEF TradeRecord
  <2>5. trades' = [trades EXCEPT ![t] = [trades[t] EXCEPT !.stage = "Editing",
                                           !.revision = @ + 1, !.offers = offers]]
    BY <1>3 DEF Accept, offers, TypeOK
  <2>6. trades' \in [TradeIds -> TradeRecord]
    BY <1>3, <2>4, <2>5 DEF TypeOK
  <2>7. UNCHANGED <<db, worker, parties, session, view, agreed, verdicts>>
    BY <1>3 DEF Accept
  <2> QED BY <1>3, <2>6, <2>7 DEF TypeOK
<1>4. ASSUME TypeOK, NEW c \in Characters, NEW t \in TradeIds, NEW goods \in SUBSET Goods,
             Offer(c, t, goods)
      PROVE  TypeOK'
  <2> DEFINE s == SideOf(c, t)
             offer == [rev |-> session[c].inv.rev, goods |-> goods]
  <2>1. offer \in Snapshot
    BY <1>4 DEF Snapshot, TypeOK, SessionState
  <2>2. trades[t] \in TradeRecord /\ trades[t].revision + 1 \in Nat
        /\ trades[t].offers \in [Sides -> Snapshot]
    BY <1>4 DEF TypeOK, TradeRecord, Offers
  <2>3. [trades[t].offers EXCEPT ![s] = offer] \in Offers
    BY <2>1, <2>2 DEF Offers
  <2>4. trades' = [trades EXCEPT ![t] =
                     [trades[t] EXCEPT !.offers = [trades[t].offers EXCEPT ![s] = offer],
                                       !.confirmed = {}, !.revision = @ + 1]]
    BY <1>4 DEF Offer, Reconfirm, TypeOK
  <2> HIDE DEF s, offer
  <2>5. [trades[t] EXCEPT !.offers = [trades[t].offers EXCEPT ![s] = offer],
                          !.confirmed = {}, !.revision = @ + 1] \in TradeRecord
    BY <2>2, <2>3 DEF TradeRecord
  <2>6. trades' \in [TradeIds -> TradeRecord]
    BY <1>4, <2>4, <2>5 DEF TypeOK
  <2>7. UNCHANGED <<db, worker, parties, session, view, agreed, verdicts>>
    BY <1>4 DEF Offer
  <2> QED BY <1>4, <2>6, <2>7 DEF TypeOK
<1>5. ASSUME TypeOK, NEW c \in Characters, NEW t \in TradeIds, view[c] # NoView
      PROVE  /\ view[c].offers \in Offers
             /\ [agreed EXCEPT ![t][SideOf(c, t)] = view[c].offers]
                  \in [TradeIds -> [Sides -> Offers \cup {<<>>}]]
  <2>1. view[c].offers \in Offers
    BY <1>5 DEF TypeOK
  <2>2. SideOf(c, t) \in Sides /\ agreed[t] \in [Sides -> Offers \cup {<<>>}]
    BY <1>5 DEF SideOf, TypeOK
  <2>3. [agreed[t] EXCEPT ![SideOf(c, t)] = view[c].offers] \in [Sides -> Offers \cup {<<>>}]
    BY <2>1, <2>2
  <2> QED BY <1>5, <2>1, <2>3 DEF TypeOK
<1>6. ASSUME TypeOK, NEW c \in Characters, NEW t \in TradeIds, FirstConfirm(c, t)
      PROVE  TypeOK'
  <2>1. trades[t] \in TradeRecord /\ trades[t].revision + 1 \in Nat
        /\ trades[t].confirmed \cup {SideOf(c, t)} \in SUBSET Sides
    BY <1>6 DEF TypeOK, TradeRecord, SideOf
  <2>2. [trades[t] EXCEPT !.confirmed = @ \cup {SideOf(c, t)}, !.revision = @ + 1]
          \in TradeRecord
    BY <2>1 DEF TradeRecord
  <2>3. trades' = [trades EXCEPT ![t] =
                     [trades[t] EXCEPT !.confirmed = @ \cup {SideOf(c, t)},
                                       !.revision = @ + 1]]
        /\ agreed' = [agreed EXCEPT ![t][SideOf(c, t)] = view[c].offers]
        /\ view[c] # NoView
        /\ UNCHANGED <<db, worker, parties, session, view, verdicts>>
    BY <1>6 DEF FirstConfirm, Negotiating, UpToDate, TypeOK
  <2>4. agreed' \in [TradeIds -> [Sides -> Offers \cup {<<>>}]]
    BY <1>5, <1>6, <2>3
  <2> QED BY <1>6, <2>2, <2>3, <2>4 DEF TypeOK
<1>7. ASSUME TypeOK, NEW c \in Characters, NEW t \in TradeIds, LastConfirm(c, t)
      PROVE  TypeOK'
  <2> DEFINE pending == IF QueueHasRoom THEN Pending ELSE trades[t].pending
  <2>1. trades[t] \in TradeRecord /\ trades[t].revision + 1 \in Nat
        /\ pending \in PendingResult
    BY <1>7 DEF TypeOK, TradeRecord, PendingResult
  <2>2. trades' = [trades EXCEPT ![t] =
                     [trades[t] EXCEPT !.stage = "Committing", !.confirmed = Sides,
                                       !.revision = @ + 1, !.pending = pending]]
    BY <1>7 DEF LastConfirm, TypeOK
  <2> HIDE DEF pending
  <2>3. [trades[t] EXCEPT !.stage = "Committing", !.confirmed = Sides,
                          !.revision = @ + 1, !.pending = pending] \in TradeRecord
    BY <2>1 DEF TradeRecord
  <2>4. agreed' \in [TradeIds -> [Sides -> Offers \cup {<<>>}]]
    BY <1>5, <1>7 DEF LastConfirm, Negotiating, UpToDate
  <2>5. ExchangeJob(RequestOf(t)) \in Job
    BY <1>7, JobTypes, RequestTypes DEF LastConfirm, Negotiating
  <2>6. queue' \in Seq(Job)
    BY <1>7, <2>5, QueueTypes DEF LastConfirm, TypeOK
  <2>7. session' \in [Characters -> SessionState]
    BY <1>7, SessionFieldTypes DEF LastConfirm, TypeOK
  <2>8. trades' \in [TradeIds -> TradeRecord]
    BY <1>7, <2>2, <2>3 DEF TypeOK
  <2>9. UNCHANGED <<db, running, parties, view, verdicts>>
    BY <1>7 DEF LastConfirm
  <2> QED BY <1>7, <2>4, <2>6, <2>7, <2>8, <2>9 DEF TypeOK
<1>8. ASSUME TypeOK, NEW c \in Characters, NEW t \in TradeIds,
             CancelRequest(c, t) \/ FoundApart(c, t)
      PROVE  TypeOK'
  <2>1. EndTrade(t) /\ UNCHANGED <<db, worker, parties, session, view, agreed>>
    BY <1>8 DEF CancelRequest, FoundApart
  <2> QED BY <1>8, <2>1, EndTradeType DEF TypeOK
<1> QED BY <1>1, <1>2, <1>3, <1>4, <1>6, <1>7, <1>8 DEF HandleTrade

\* A trade that is in memory has its two members.
KnownParties ==
  \A t \in TradeIds : trades[t].stage # "absent" => parties[t] # <<>>
TypeInv == TypeOK /\ KnownParties

LEMMA UpdateTradeType == TypeInv /\ UpdateTrade => TypeOK'
<1> USE DEF db, worker
<1> SUFFICES ASSUME TypeOK, KnownParties, NEW t \in TradeIds,
      RetryExchange(t) \/ ExchangeAnswered(t) \/ ExpireTrade(t) \/ EraseTrade(t)
    PROVE TypeOK'
  BY DEF UpdateTrade, TypeInv
<1>0. trades[t] \in TradeRecord /\ trades[t].revision + 1 \in Nat
  BY DEF TypeOK, TradeRecord
<1>1. NoPending \in PendingResult /\ Pending \in PendingResult
  BY DEF PendingResult
<1>2. \A p \in PendingResult : [trades[t] EXCEPT !.pending = p] \in TradeRecord
  BY <1>0 DEF TradeRecord
<1>3. CASE RetryExchange(t)
  <2>1. ExchangeJob(RequestOf(t)) \in Job
    BY <1>3, JobTypes, RequestTypes DEF RetryExchange, KnownParties
  <2>2. queue' \in Seq(Job)
    BY <1>3, <2>1, QueueTypes DEF RetryExchange, TypeOK
  <2>3. trades' = [trades EXCEPT ![t] = [trades[t] EXCEPT !.pending = Pending]]
    BY <1>3 DEF RetryExchange, TypeOK
  <2>4. trades' \in [TradeIds -> TradeRecord]
    BY <1>1, <1>2, <2>3 DEF TypeOK
  <2>5. UNCHANGED <<db, running, parties, session, view, agreed, verdicts>>
    BY <1>3 DEF RetryExchange
  <2> QED BY <2>2, <2>4, <2>5 DEF TypeOK
<1>4. CASE ExchangeAnswered(t) /\ trades[t].pending.result = "StorageError"
  <2>1. /\ trades' = [trades EXCEPT ![t] = [trades[t] EXCEPT !.pending = NoPending]]
        /\ UNCHANGED <<db, worker, parties, session, view, agreed, verdicts>>
    BY <1>4 DEF ExchangeAnswered, KeepAsking, TypeOK
  <2>2. trades' \in [TradeIds -> TradeRecord]
    BY <1>1, <1>2, <2>1 DEF TypeOK
  <2> QED BY <2>1, <2>2 DEF TypeOK
<1>5. CASE ExchangeAnswered(t) /\ trades[t].pending.result # "StorageError"
  <2> DEFINE answer == trades[t].pending
             outcome == Outcome(answer.result)
             settled == [trades[t] EXCEPT !.stage = outcome, !.revision = @ + 1,
                                          !.pending = NoPending]
  <2>1. Settle(t) /\ UNCHANGED <<db, worker, parties, view, agreed>>
    BY <1>5 DEF ExchangeAnswered
  <2>2. answer.states \in Offers
    BY <1>0, <1>5 DEF ExchangeAnswered, TradeRecord, PendingResult
  <2>3. outcome \in {"Completed", "Cancelled"}
    BY DEF Outcome
  <2>4. /\ trades' = [trades EXCEPT ![t] = settled]
        /\ verdicts' = [verdicts EXCEPT ![t] = @ \cup {outcome}]
        /\ session' = [c \in Characters |->
             IF c \in Members(t) /\ session[c].online
             THEN ApplyTradeInventory(session[c], answer.states[SideOf(c, t)])
             ELSE session[c]]
    BY <2>1 DEF Settle, TypeOK
  <2>5. ASSUME NEW c \in Characters
        PROVE  ApplyTradeInventory(session[c], answer.states[SideOf(c, t)]) \in SessionState
    <3>1. answer.states[SideOf(c, t)] \in Snapshot
      BY <2>2 DEF Offers, SideOf
    <3> QED BY <3>1, TradeInventoryType DEF TypeOK
  <2> HIDE DEF answer, outcome
  <2>6. settled \in TradeRecord
    BY <1>0, <1>1, <2>3 DEF TradeRecord
  <2> HIDE DEF settled
  <2>7. trades' \in [TradeIds -> TradeRecord]
    BY <2>4, <2>6 DEF TypeOK
  <2>8. session' \in [Characters -> SessionState]
    BY <2>4, <2>5 DEF TypeOK
  <2>9. verdicts' \in [TradeIds -> SUBSET {"Completed", "Cancelled"}]
    BY <2>3, <2>4 DEF TypeOK
  <2> QED BY <2>1, <2>7, <2>8, <2>9 DEF TypeOK
<1>6. CASE ExpireTrade(t)
  BY <1>6, EndTradeType DEF ExpireTrade, TypeOK
<1>7. CASE EraseTrade(t)
  BY <1>7, OfferTypes DEF EraseTrade, TypeOK
<1> QED BY <1>3, <1>4, <1>5, <1>6, <1>7

LEMMA EffectType ==
  ASSUME TypeOK, NEW j \in Job, Effect(j)
  PROVE  stored' \in [Characters -> Snapshot] /\ receipts' \subseteq Request
<1>1. CASE j.kind = "exchange"
  <2> DEFINE side(c) == IF j.request.chars[1] = c THEN 1 ELSE 2
  <2>1. j.request \in Request /\ j.request.offers \in [Sides -> [rev : Nat, goods : SUBSET Goods]]
        /\ j.request.chars[1] \in Characters /\ j.request.chars[2] \in Characters
    BY <1>1, JobKinds DEF Request, Offers, Snapshot, Pairs
  <2>2. \A s \in Sides : GoodsAfter(j.request, s) \in SUBSET Goods
    BY <2>1 DEF GoodsAfter, TypeOK, Snapshot
  <2>3. \A c \in Characters :
          [rev |-> stored[c].rev + 1, goods |-> GoodsAfter(j.request, side(c))] \in Snapshot
    BY <2>2 DEF TypeOK, Snapshot
  <2>4. /\ stored' = [c \in Characters |->
              IF c \notin RowsOf(j) THEN stored[c]
              ELSE [rev |-> stored[c].rev + 1, goods |-> GoodsAfter(j.request, side(c))]]
        /\ receipts' = receipts \cup {j.request}
    BY <1>1 DEF Effect
  <2> HIDE DEF side
  <2> QED BY <2>1, <2>3, <2>4 DEF TypeOK
<1>2. CASE j.kind = "apply" /\ j.op = "change"
  <2>1. PICK used \in SUBSET stored[j.owner].goods :
          stored' = [stored EXCEPT ![j.owner] = Changed(@, used)]
    BY <1>2 DEF Effect
  <2>2. j.owner \in Characters /\ receipts' = receipts
    BY <1>2, JobKinds DEF Effect
  <2>3. Changed(stored[j.owner], used) \in Snapshot
    BY <2>2 DEF Changed, TypeOK, Snapshot
  <2> QED BY <2>1, <2>2, <2>3 DEF TypeOK
<1>3. CASE j.kind = "apply" /\ j.op = "damage"
  <2>1. /\ receipts' = receipts /\ j.owner \in Characters
        /\ stored' = stored \/ stored' = [stored EXCEPT ![j.owner] = Changed(@, {})]
    BY <1>3, JobKinds DEF Effect
  <2>2. Changed(stored[j.owner], {}) \in Snapshot
    BY <2>1 DEF Changed, TypeOK, Snapshot
  <2> QED BY <2>1, <2>2 DEF TypeOK
<1> QED BY <1>1, <1>2, <1>3 DEF Effect

LEMMA RunningType ==
  ASSUME TypeOK
  PROVE  /\ running # Idle => running.job \in Job
         /\ \A j \in Job : [job |-> j, outcome |-> "open"] \in
              [job : Job, outcome : {"open", "committed", "rolledBack"}]
         /\ running # Idle => \A o \in {"open", "committed", "rolledBack"} :
              [running EXCEPT !.outcome = o] \in
                [job : Job, outcome : {"open", "committed", "rolledBack"}]
         /\ queue # <<>> => Head(queue) \in Job /\ Tail(queue) \in Seq(Job)
BY QueueTypes DEF TypeOK

LEMMA WorkerStepType == TypeOK /\ WorkerStep => TypeOK'
<1> SUFFICES ASSUME TypeOK, WorkerStep PROVE TypeOK'
  OBVIOUS
<1> USE DEF db, worker
<1> DEFINE j == Head(queue)
<1>1. CASE RunExchange
  <2>1. /\ j \in Job /\ queue' \in Seq(Job) /\ j.request \in Request
        /\ UNCHANGED <<db, parties, view, agreed, verdicts>>
    BY <1>1, RunningType, JobKinds DEF RunExchange
  <2>2. CASE ExchangeResult(j.request) = "Success"
    <3>1. running' = [job |-> j, outcome |-> "open"] /\ UNCHANGED <<trades, session>>
      BY <1>1, <2>2 DEF RunExchange
    <3> QED BY <2>1, <3>1, RunningType DEF TypeOK
  <2>3. CASE ExchangeResult(j.request) # "Success"
    <3> DEFINE result == ExchangeResult(j.request)
               answer == IF result = "Recorded" THEN "Success" ELSE result
    <3>1. answer \in {"Success", "Stale", "Full", "StorageError"}
      BY DEF ExchangeResult, ApplyTrade
    <3>2. FulfilExchange(j.request, Answer(answer, StatesOf(j.request)))
          /\ running' = running
      BY <1>1, <2>3 DEF RunExchange
    <3> HIDE DEF answer
    <3>3. trades' \in [TradeIds -> TradeRecord] /\ session' = session
      BY <2>1, <3>1, <3>2, FulfilTypes, RequestTypes DEF FulfilExchange
    <3> QED BY <2>1, <3>2, <3>3 DEF TypeOK
  <2> QED BY <2>2, <2>3
<1>2. CASE RunApply
  <2>1. /\ j \in Job /\ queue' \in Seq(Job) /\ j.kind = "apply" /\ j.owner \in Characters
        /\ UNCHANGED <<db, parties, view, agreed, verdicts>>
    BY <1>2, RunningType, JobKinds DEF RunApply
  <2>2. Loaded(stored[j.owner]) \in Reply
    BY <2>1, ReplyTypes DEF TypeOK
  <2>3. CASE FulfilRequest(j, Loaded(stored[j.owner])) /\ UNCHANGED running
    BY <2>1, <2>2, <2>3, FulfilTypes DEF FulfilRequest, TypeOK
  <2>4. CASE running' = [job |-> j, outcome |-> "open"] /\ UNCHANGED <<trades, session>>
    BY <2>1, <2>4, RunningType DEF TypeOK
  <2> QED BY <1>2, <2>3, <2>4 DEF RunApply
<1>3. CASE RunLookup
  <2> DEFINE reply == [answer |-> "loaded", state |-> stored[j.owner],
             verdict |-> IF HasReceipt(j.trade) THEN "Completed" ELSE "Cancelled"]
  <2>1. /\ j \in Job /\ queue' \in Seq(Job) /\ j.kind = "lookup" /\ j.owner \in Characters
        /\ FulfilLookup(j, reply)
        /\ UNCHANGED <<db, running, parties, view, agreed, verdicts>>
    BY <1>3, RunningType, JobKinds DEF RunLookup
  <2>2. reply \in LookupReply
    BY <2>1 DEF LookupReply, TypeOK
  <2> HIDE DEF reply
  <2> QED BY <2>1, <2>2, FulfilTypes DEF FulfilLookup, TypeOK
<1>4. CASE JobFails
  <2>1. /\ j \in Job /\ queue' \in Seq(Job) /\ Fail(j)
        /\ UNCHANGED <<db, running, parties, view, agreed, verdicts>>
    BY <1>4, RunningType DEF JobFails
  <2> QED BY <2>1, FailType DEF TypeOK
<1>5. CASE CommitRunning
  <2>1. stored' \in [Characters -> Snapshot] /\ receipts' \subseteq Request
    BY <1>5, RunningType, EffectType DEF CommitRunning
  <2> QED BY <1>5, <2>1, RunningType DEF CommitRunning, TypeOK
<1>6. CASE RollbackRunning
  BY <1>6, RunningType DEF RollbackRunning, TypeOK
<1>7. CASE ReplyCommitted
  <2> DEFINE k == running.job
  <2>1. /\ k \in Job /\ Succeed(k) /\ running' = Idle
        /\ UNCHANGED <<db, queue, parties, view, agreed, verdicts>>
    BY <1>7, RunningType DEF ReplyCommitted
  <2> HIDE DEF k
  <2>2. CASE k.kind = "exchange"
    <3>1. /\ FulfilExchange(k.request, Answer("Success", StatesOf(k.request)))
          /\ k.request \in Request
      BY <2>1, <2>2, JobKinds DEF Succeed
    <3> QED BY <2>1, <3>1, FulfilTypes, RequestTypes DEF FulfilExchange, TypeOK
  <2>3. CASE k.kind # "exchange"
    <3>1. FulfilRequest(k, Loaded(stored[k.owner])) /\ k.owner \in Characters
      BY <2>1, <2>3, JobKinds DEF Succeed
    <3>2. Loaded(stored[k.owner]) \in Reply
      BY <3>1, ReplyTypes DEF TypeOK
    <3>3. session[k.owner] \in SessionState
      BY <3>1 DEF TypeOK
    <3>4. [session[k.owner] EXCEPT !.request.reply = Loaded(stored[k.owner])] \in SessionState
      BY <3>2, <3>3, SessionFieldTypes
    <3>5. session' \in {session, [session EXCEPT ![k.owner] =
            [session[k.owner] EXCEPT !.request.reply = Loaded(stored[k.owner])]]}
      BY <3>1 DEF FulfilRequest
    <3>6. session' \in [Characters -> SessionState] /\ trades' = trades
      BY <3>1, <3>4, <3>5 DEF FulfilRequest, TypeOK
    <3> QED BY <2>1, <3>6 DEF TypeOK
  <2> QED BY <2>2, <2>3
<1>8. CASE ReplyUnknown
  <2>1. Fail(running.job) /\ running.job \in Job /\ orphans' \subseteq Job
    BY <1>8, RunningType DEF ReplyUnknown, TypeOK
  <2> QED BY <1>8, <2>1, FailType DEF ReplyUnknown, TypeOK
<1> QED BY <1>1, <1>2, <1>3, <1>4, <1>5, <1>6, <1>7, <1>8 DEF WorkerStep

LEMMA DatabaseStepType == TypeOK /\ DatabaseStep => TypeOK'
<1> USE DEF db, worker
<1>1. ASSUME TypeOK, NEW j \in orphans, OrphanCommits(j) PROVE TypeOK'
  <2>1. j \in Job
    BY <1>1 DEF TypeOK
  <2>2. stored' \in [Characters -> Snapshot] /\ receipts' \subseteq Request
    BY <1>1, <2>1, EffectType DEF OrphanCommits
  <2> QED BY <1>1, <2>2 DEF OrphanCommits, TypeOK
<1>2. ASSUME TypeOK, NEW j \in orphans, OrphanRollsBack(j) PROVE TypeOK'
  BY <1>2 DEF OrphanRollsBack, TypeOK
<1> QED BY <1>1, <1>2 DEF DatabaseStep

LEMMA CrashType == TypeOK /\ Crash => TypeOK'
<1> SUFFICES ASSUME TypeOK, Crash PROVE TypeOK'
  OBVIOUS
<1>1. orphans' \subseteq Job
  BY RunningType DEF Crash, OpenJobs, TypeOK
<1>2. queue' \in Seq(Job)
  BY DEF Crash
<1> QED BY <1>1, <1>2, OfflineType, OfferTypes DEF Crash, TypeOK, db, worker

LEMMA NextType == TypeInv /\ [Next]_vars => TypeOK'
<1>1. TypeOK /\ UNCHANGED vars => TypeOK'
  BY DEF TypeOK, vars
<1> QED BY <1>1, SessionStepType, HandleTradeType, UpdateTradeType, WorkerStepType,
           DatabaseStepType, CrashType DEF Next, TypeInv

(***************************************************************************)
(* One active trade: trades open only in Invite, which requires both       *)
(* members to be free; every other step keeps an open trade open or ends   *)
(* it.                                                                     *)
(***************************************************************************)

\* No trade appears and none reopens.
OnlyCloses ==
  /\ parties' = parties
  /\ \A t \in TradeIds :
       /\ trades'[t].stage # "absent" => trades[t].stage # "absent"
       /\ Open(t)' => Open(t)

LEMMA SameStages ==
  ASSUME parties' = parties, \A t \in TradeIds : trades'[t].stage = trades[t].stage
  PROVE  OnlyCloses
BY DEF OnlyCloses, Open

LEMMA EndStage ==
  ASSUME NEW t \in TradeIds, TypeOK
  PROVE  End(t).stage = "Cancelled"
BY DEF End, TypeOK, TradeRecord

LEMMA CancelCloses ==
  ASSUME NEW c, TypeOK, Cancel(c), parties' = parties
  PROVE  OnlyCloses
<1> SUFFICES ASSUME NEW t \in TradeIds
             PROVE  /\ trades'[t].stage # "absent" => trades[t].stage # "absent"
                    /\ Open(t)' => Open(t)
  BY DEF OnlyCloses
<1>1. CASE t \in Cancellable(c)
  <2>1. trades'[t].stage = "Cancelled" /\ Open(t)
    BY <1>1, EndStage DEF Cancel, Cancellable, ActiveOf
  <2> QED BY <2>1 DEF Open
<1>2. CASE t \notin Cancellable(c)
  <2>1. trades'[t] = trades[t]
    BY <1>2 DEF Cancel
  <2> QED BY <2>1 DEF Open
<1> QED BY <1>1, <1>2

LEMMA EndTradeCloses ==
  ASSUME NEW t \in TradeIds, TypeOK, EndTrade(t), parties' = parties,
         trades[t].stage \in {"Invited", "Editing"}
  PROVE  OnlyCloses
<1> SUFFICES ASSUME NEW u \in TradeIds
             PROVE  /\ trades'[u].stage # "absent" => trades[u].stage # "absent"
                    /\ Open(u)' => Open(u)
  BY DEF OnlyCloses
<1>1. CASE u = t
  BY <1>1, EndStage DEF EndTrade, TypeOK, Open
<1>2. CASE u # t
  BY <1>2 DEF EndTrade, TypeOK, Open
<1> QED BY <1>1, <1>2

LEMMA SessionStepCloses == TypeOK /\ SessionStep => OnlyCloses
<1> SUFFICES ASSUME TypeOK, NEW c \in Characters,
      \/ Enter(c) \/ Disconnect(c)
      \/ \E op \in {"refresh", "change"} : RequestInventory(c, op)
      \/ TakeDamage(c) \/ RetryDamage(c)
      \/ InventoryAnswered(c) \/ InventoryTimeout(c)
      \/ \E t \in TradeIds : QueryTrade(c, t)
      \/ LookupAnswered(c) \/ LeaveMap(c)
    PROVE OnlyCloses
  BY DEF SessionStep
<1>1. ASSUME \/ Enter(c)
             \/ \E op \in {"refresh", "change"} : RequestInventory(c, op)
             \/ RetryDamage(c)
             \/ InventoryAnswered(c) \/ InventoryTimeout(c)
             \/ \E t \in TradeIds : QueryTrade(c, t)
             \/ LookupAnswered(c)
      PROVE  OnlyCloses
  <2>1. trades' = trades /\ parties' = parties
    BY <1>1 DEF Enter, RequestInventory, RetryDamage, InventoryAnswered,
                InventoryTimeout, QueryTrade, LookupAnswered
  <2> QED BY <2>1, SameStages
<1>2. CASE Disconnect(c) \/ LeaveMap(c)
  BY <1>2, CancelCloses DEF Disconnect, LeaveMap
<1>3. CASE TakeDamage(c)
  <2>1. parties' = parties /\ (Cancel(c) \/ trades' = trades)
    BY <1>3 DEF TakeDamage
  <2> QED BY <2>1, CancelCloses, SameStages
<1> QED BY <1>1, <1>2, <1>3

LEMMA HandleTradeCloses ==
  ASSUME TypeOK, NEW c \in Characters, NEW t \in TradeIds,
         \/ ReadState(c, t) \/ Accept(c, t)
         \/ \E goods \in SUBSET Goods : Offer(c, t, goods)
         \/ FirstConfirm(c, t) \/ LastConfirm(c, t)
         \/ CancelRequest(c, t) \/ FoundApart(c, t)
  PROVE  OnlyCloses
<1>0. trades[t] \in TradeRecord
  BY DEF TypeOK
<1>1. CASE ReadState(c, t)
  BY <1>1, SameStages DEF ReadState
<1>2. CASE CancelRequest(c, t) \/ FoundApart(c, t)
  BY <1>2, EndTradeCloses DEF CancelRequest, FoundApart
<1>3. ASSUME \/ Accept(c, t) \/ \E goods \in SUBSET Goods : Offer(c, t, goods)
             \/ FirstConfirm(c, t) \/ LastConfirm(c, t)
      PROVE  OnlyCloses
  <2>1. /\ parties' = parties
        /\ trades[t].stage \in {"Invited", "Editing"}
        /\ \A u \in TradeIds : u # t => trades'[u] = trades[u]
    BY <1>3 DEF Accept, Offer, FirstConfirm, LastConfirm, Negotiating, TypeOK
  <2> QED BY <2>1 DEF OnlyCloses, Open
<1> QED BY <1>1, <1>2, <1>3

LEMMA UpdateTradeCloses == TypeOK /\ UpdateTrade => OnlyCloses
<1> SUFFICES ASSUME TypeOK, NEW t \in TradeIds,
      RetryExchange(t) \/ ExchangeAnswered(t) \/ ExpireTrade(t) \/ EraseTrade(t)
    PROVE OnlyCloses
  BY DEF UpdateTrade
<1>1. CASE RetryExchange(t) \/ ExchangeAnswered(t)
  <2>1. /\ parties' = parties
        /\ trades[t].stage = "Committing"
        /\ \A u \in TradeIds : u # t => trades'[u] = trades[u]
    BY <1>1 DEF RetryExchange, ExchangeAnswered, KeepAsking, Settle, TypeOK
  <2> QED BY <2>1 DEF OnlyCloses, Open
<1>2. CASE ExpireTrade(t)
  BY <1>2, EndTradeCloses DEF ExpireTrade
<1>3. CASE EraseTrade(t)
  BY <1>3 DEF EraseTrade, OnlyCloses, Open, Absent, TypeOK
<1> QED BY <1>1, <1>2, <1>3

LEMMA FulfilStages ==
  ASSUME TypeOK, NEW r \in Request, NEW answer, FulfilExchange(r, answer)
  PROVE  \A t \in TradeIds : trades'[t].stage = trades[t].stage
<1> SUFFICES ASSUME NEW t \in TradeIds PROVE trades'[t].stage = trades[t].stage
  OBVIOUS
<1>1. trades[t] \in TradeRecord
  BY DEF TypeOK
<1>2. trades'[t] = trades[t] \/ trades'[t] = [trades[t] EXCEPT !.pending = answer]
  BY DEF FulfilExchange, TypeOK
<1> QED BY <1>1, <1>2 DEF TradeRecord

LEMMA FailStages ==
  ASSUME TypeOK, NEW j \in Job, Fail(j)
  PROVE  \A t \in TradeIds : trades'[t].stage = trades[t].stage
<1>1. CASE j.kind = "exchange"
  <2>1. j.request \in Request /\ FulfilExchange(j.request, Answer("StorageError", StatesOf(j.request)))
    BY <1>1, JobKinds DEF Fail
  <2> QED BY <2>1, FulfilStages
<1>2. CASE j.kind # "exchange"
  <2>1. trades' = trades
    BY <1>2, JobKinds DEF Fail, FulfilRequest, FulfilLookup
  <2> QED BY <2>1
<1> QED BY <1>1, <1>2

LEMMA WorkerStepCloses == TypeOK /\ WorkerStep => OnlyCloses
<1> SUFFICES ASSUME TypeOK, WorkerStep PROVE OnlyCloses
  OBVIOUS
<1>0. parties' = parties
  BY DEF WorkerStep, RunExchange, RunApply, RunLookup, JobFails, CommitRunning,
         RollbackRunning, ReplyCommitted, ReplyUnknown
<1>1. CASE RunExchange
  <2>1. Head(queue) \in Job /\ Head(queue).request \in Request
    BY <1>1, RunningType, JobKinds DEF RunExchange
  <2>2. \/ trades' = trades
        \/ \E answer : FulfilExchange(Head(queue).request, answer)
    BY <1>1 DEF RunExchange
  <2> QED BY <1>0, <2>1, <2>2, FulfilStages, SameStages
<1>2. CASE RunApply \/ RunLookup \/ CommitRunning \/ RollbackRunning
  <2>1. trades' = trades
    BY <1>2 DEF RunApply, RunLookup, CommitRunning, RollbackRunning,
                FulfilRequest, FulfilLookup
  <2> QED BY <1>0, <2>1, SameStages
<1>3. CASE JobFails
  BY <1>0, <1>3, RunningType, FailStages, SameStages DEF JobFails
<1>4. CASE ReplyCommitted
  <2>1. running.job \in Job /\ Succeed(running.job)
    BY <1>4, RunningType DEF ReplyCommitted
  <2>2. CASE running.job.kind = "exchange"
    BY <1>0, <2>1, <2>2, JobKinds, FulfilStages, SameStages DEF Succeed
  <2>3. CASE running.job.kind # "exchange"
    BY <1>0, <2>1, <2>3, SameStages DEF Succeed, FulfilRequest
  <2> QED BY <2>2, <2>3
<1>5. CASE ReplyUnknown
  BY <1>0, <1>5, RunningType, FailStages, SameStages DEF ReplyUnknown
<1> QED BY <1>1, <1>2, <1>3, <1>4, <1>5 DEF WorkerStep

LEMMA OtherStepsClose ==
  ASSUME TypeOK, DatabaseStep \/ Crash \/ UNCHANGED vars
  PROVE  OnlyCloses
<1>1. CASE DatabaseStep
  BY <1>1, SameStages DEF DatabaseStep, OrphanCommits, OrphanRollsBack
<1>2. CASE Crash
  BY <1>2 DEF Crash, OnlyCloses, Open, Absent
<1>3. CASE UNCHANGED vars
  BY <1>3, SameStages DEF vars
<1> QED BY <1>1, <1>2, <1>3

LEMMA StepCloses ==
  ASSUME TypeOK, [Next]_vars
  PROVE  \/ OnlyCloses
         \/ \E x, y \in Characters, t \in TradeIds : Invite(x, y, t)
BY SessionStepCloses, HandleTradeCloses, UpdateTradeCloses, WorkerStepCloses,
   OtherStepsClose DEF Next, HandleTrade

\* Two open trades with a member in common are the same trade.
UniqueTrade ==
  \A t, u \in TradeIds : \A c \in Characters :
    Open(t) /\ Open(u) /\ c \in Members(t) /\ c \in Members(u) => t = u

LEMMA InvitePreserves ==
  ASSUME TypeInv, UniqueTrade, NEW x \in Characters, NEW y \in Characters,
         NEW t \in TradeIds, Invite(x, y, t)
  PROVE  KnownParties' /\ UniqueTrade'
<1>1. /\ parties'[t] = <<x, y>> /\ trades'[t].stage = "Invited"
      /\ \A u \in TradeIds : u # t => parties'[u] = parties[u] /\ trades'[u] = trades[u]
  BY DEF Invite, TypeInv, TypeOK, Absent
<1>2. \A u \in TradeIds : u # t => Open(u)' = Open(u) /\ Members(u)' = Members(u)
  BY <1>1 DEF Open, Members
<1>3. Members(t)' = {x, y}
  BY <1>1 DEF Members
<1>4. \A u \in TradeIds : Open(u) => x \notin Members(u) /\ y \notin Members(u)
  BY DEF Invite, Active, ActiveOf
<1>5. KnownParties'
  BY <1>1 DEF KnownParties, TypeInv
<1>6. UniqueTrade'
  BY <1>2, <1>3, <1>4 DEF UniqueTrade
<1> QED BY <1>5, <1>6

LEMMA ClosingPreserves ==
  ASSUME KnownParties, UniqueTrade, OnlyCloses
  PROVE  KnownParties' /\ UniqueTrade'
<1>1. KnownParties'
  BY DEF KnownParties, OnlyCloses
<1>2. \A u \in TradeIds : Members(u)' = Members(u) /\ (Open(u)' => Open(u))
  BY DEF OnlyCloses, Members
<1>3. UniqueTrade'
  BY <1>2 DEF UniqueTrade
<1> QED BY <1>1, <1>3

TradeInv == TypeInv /\ UniqueTrade

LEMMA TradeInvInductive ==
  /\ Init => TradeInv
  /\ TradeInv /\ [Next]_vars => TradeInv'
<1>1. Init => TradeInv
  BY InitType DEF Init, TradeInv, TypeInv, KnownParties, UniqueTrade, Open, Absent
<1>2. ASSUME TradeInv, [Next]_vars PROVE TradeInv'
  <2>1. TypeOK' /\ TypeOK
    BY <1>2, NextType DEF TradeInv, TypeInv
  <2>2. KnownParties' /\ UniqueTrade'
    BY <1>2, <2>1, StepCloses, InvitePreserves, ClosingPreserves DEF TradeInv, TypeInv
  <2> QED BY <2>1, <2>2 DEF TradeInv, TypeInv
<1> QED BY <1>1, <1>2

\* The server's data keeps its types, whoever trades with whom and whatever
\* fails (TradeManager.h:20, GameSession.h:60).
THEOREM TypeCorrect == Spec => []TypeOK
<1>1. TradeInv => TypeOK
  BY DEF TradeInv, TypeInv
<1> QED BY <1>1, TradeInvInductive, PTL DEF Spec

\* A character takes part in at most one trade that may still exchange goods,
\* for any number of characters and trades (TradeManager.cpp:72).
THEOREM AtMostOneTrade == Spec => []OneActiveTrade
<1>1. TradeInv => OneActiveTrade
  <2> SUFFICES ASSUME UniqueTrade, NEW c \in Characters
               PROVE  Cardinality(ActiveOf(c)) <= 1
    BY DEF TradeInv, OneActiveTrade
  <2>1. CASE ActiveOf(c) = {}
    BY <2>1, FS_EmptySet
  <2>2. CASE ActiveOf(c) # {}
    <3>1. PICK t : t \in ActiveOf(c)
      BY <2>2
    <3>2. \A u \in ActiveOf(c) : u = t
      BY <3>1 DEF ActiveOf, UniqueTrade
    <3>3. ActiveOf(c) = {t}
      BY <3>1, <3>2
    <3> QED BY <3>3, FS_Singleton
  <2> QED BY <2>1, <2>2
<1> QED BY <1>1, TradeInvInductive, PTL DEF Spec

(***************************************************************************)
(* No duplication.  An exchange is validated before its COMMIT, maybe long *)
(* before; what it saw stays true because open transactions lock disjoint  *)
(* rows, the ones whose connection was given up included.                  *)
(***************************************************************************)

RunningOpen == running # Idle /\ running.outcome = "open"

\* An exchange that may still commit hands over goods its sides do hold.
Covered(j) ==
  j.kind = "exchange" =>
    \A s \in Sides : j.request.offers[s].goods \subseteq stored[j.request.chars[s]].goods

Apart(j, k) == RowsOf(j) \cap RowsOf(k) = {}

OffersHeld ==
  /\ \A j \in orphans : Covered(j)
  /\ RunningOpen => Covered(running.job)
RowsApart ==
  /\ \A j, k \in orphans : j # k => Apart(j, k)
  /\ RunningOpen => \A k \in orphans : Apart(running.job, k)

StorageInv == NoDuplication /\ OffersHeld /\ RowsApart

LEMMA ExchangeTypes ==
  ASSUME NEW j \in Job, j.kind = "exchange"
  PROVE  /\ j.request.chars[1] \in Characters /\ j.request.chars[2] \in Characters
         /\ j.request.chars[1] # j.request.chars[2]
         /\ RowsOf(j) = {j.request.chars[1], j.request.chars[2]}
         /\ \A s \in Sides : j.request.chars[s] \in RowsOf(j)
BY JobKinds DEF Request, Pairs, RowsOf

LEMMA EffectElsewhere ==
  ASSUME TypeOK, NEW j \in Job, Effect(j), NEW c \in Characters, c \notin RowsOf(j)
  PROVE  stored'[c] = stored[c]
<1>1. CASE j.kind = "exchange"
  BY <1>1 DEF Effect
<1>2. CASE j.kind = "apply"
  BY <1>2 DEF Effect, RowsOf, TypeOK
<1> QED BY <1>1, <1>2 DEF Effect

LEMMA EffectKeepsCovered ==
  ASSUME TypeOK, NEW j \in Job, Effect(j), NEW k \in Job, Covered(k), Apart(j, k)
  PROVE  Covered(k)'
<1> SUFFICES ASSUME k.kind = "exchange", NEW s \in Sides
             PROVE  k.request.offers[s].goods \subseteq stored'[k.request.chars[s]].goods
  BY DEF Covered
<1>1. k.request.chars[s] \in Characters /\ k.request.chars[s] \notin RowsOf(j)
  BY ExchangeTypes DEF Apart
<1> QED BY <1>1, EffectElsewhere DEF Covered

LEMMA EffectNoDuplication ==
  ASSUME TypeOK, NEW j \in Job, Effect(j), Covered(j), NoDuplication
  PROVE  NoDuplication'
<1>1. CASE j.kind = "exchange"
  <2> DEFINE x == j.request.chars[1]
             y == j.request.chars[2]
             givenX == j.request.offers[1].goods
             givenY == j.request.offers[2].goods
  <2>1. x \in Characters /\ y \in Characters /\ x # y /\ RowsOf(j) = {x, y}
    BY <1>1, ExchangeTypes
  <2>2. givenX \subseteq stored[x].goods /\ givenY \subseteq stored[y].goods
    BY <1>1 DEF Covered
  <2>3. /\ stored'[x].goods = (stored[x].goods \ givenX) \cup givenY
        /\ stored'[y].goods = (stored[y].goods \ givenY) \cup givenX
    BY <1>1, <2>1 DEF Effect, GoodsAfter
  <2>4. \A c \in Characters : c # x /\ c # y => stored'[c] = stored[c]
    BY <2>1, EffectElsewhere
  <2> HIDE DEF x, y, givenX, givenY
  <2>5. stored[x].goods \cap stored[y].goods = {}
    BY <2>1 DEF NoDuplication
  <2>6. \A c \in Characters : c # x /\ c # y =>
          stored[c].goods \cap stored[x].goods = {} /\ stored[c].goods \cap stored[y].goods = {}
    BY <2>1 DEF NoDuplication
  <2>7. stored'[x].goods \cap stored'[y].goods = {}
    BY <2>2, <2>3, <2>5
  <2>8. \A c \in Characters : c # x /\ c # y =>
          stored'[c].goods \cap stored'[x].goods = {} /\ stored'[c].goods \cap stored'[y].goods = {}
    BY <2>2, <2>3, <2>4, <2>6
  <2>9. \A c, d \in Characters : c # x /\ c # y /\ d # x /\ d # y /\ c # d =>
          stored'[c].goods \cap stored'[d].goods = {}
    BY <2>4 DEF NoDuplication
  <2> QED BY <2>7, <2>8, <2>9 DEF NoDuplication
<1>2. CASE j.kind = "apply"
  <2>1. j.owner \in Characters
    BY <1>2, JobKinds
  <2>2. \A c \in Characters : stored'[c].goods \subseteq stored[c].goods
    <3>1. CASE j.op = "change"
      <4>1. PICK used \in SUBSET stored[j.owner].goods :
              stored' = [stored EXCEPT ![j.owner] = Changed(@, used)]
        BY <1>2, <3>1 DEF Effect
      <4> QED BY <2>1, <4>1 DEF Changed, TypeOK
    <3>2. CASE j.op # "change"
      <4>1. stored' = stored \/ stored' = [stored EXCEPT ![j.owner] = Changed(@, {})]
        BY <1>2, <3>2 DEF Effect
      <4> QED BY <2>1, <4>1 DEF Changed, TypeOK
    <3> QED BY <3>1, <3>2
  <2> QED BY <2>2 DEF NoDuplication
<1> QED BY <1>1, <1>2 DEF Effect

LEMMA UnlockedApart ==
  ASSUME NEW j, Unlocked(j)
  PROVE  \A k \in orphans : Apart(j, k)
BY DEF Unlocked, LockedRows, OpenJobs, Apart

LEMMA StorageUntouched ==
  ASSUME StorageInv, stored' = stored, orphans' = orphans, running' = running
  PROVE  StorageInv'
BY DEF StorageInv, NoDuplication, OffersHeld, RowsApart, RunningOpen, Covered, Apart, RowsOf

\* Dropping the future of the running job changes nothing of its transaction.
LEMMA AbandonPreserves ==
  ASSUME TypeOK, StorageInv, stored' = stored, orphans' = orphans, NEW c,
         running' = IF running = Idle THEN Idle
                    ELSE [running EXCEPT !.job = Abandon(@, c)]
  PROVE  StorageInv'
<1>1. CASE running = Idle
  BY <1>1, StorageUntouched
<1>2. CASE running # Idle
  <2> DEFINE j == running.job
             k == Abandon(j, c)
  <2>1. j \in Job
    BY <1>2, RunningType
  <2>2. /\ k.kind = j.kind /\ RowsOf(k) = RowsOf(j)
        /\ j.kind = "exchange" => k = j
    BY <2>1 DEF Abandon, RowsOf, Job
  <2>3. running'.job = k /\ running'.outcome = running.outcome
    BY <1>2 DEF TypeOK
  <2> HIDE DEF k
  <2>4. RunningOpen' => RunningOpen
    BY <1>2, <2>3 DEF RunningOpen
  <2>5. RunningOpen' => Covered(k)
    BY <1>2, <2>2, <2>4 DEF StorageInv, OffersHeld, Covered
  <2>6. \A o : Covered(o)' = Covered(o)
    BY DEF Covered
  <2>7. OffersHeld'
    BY <2>3, <2>5, <2>6 DEF StorageInv, OffersHeld, Covered
  <2>8. \A o \in orphans : RunningOpen' => Apart(k, o)
    BY <1>2, <2>2, <2>4 DEF StorageInv, RowsApart, Apart
  <2>9. RowsApart'
    BY <2>3, <2>8 DEF StorageInv, RowsApart, Apart, RowsOf
  <2> QED BY <2>7, <2>9 DEF StorageInv, NoDuplication
<1> QED BY <1>1, <1>2

LEMMA AbandonRequestPreserves ==
  ASSUME TypeOK, StorageInv, stored' = stored, orphans' = orphans, NEW c,
         running' = IF running = Idle THEN Idle
                    ELSE [running EXCEPT !.job = AbandonRequest(@, c)]
  PROVE  StorageInv'
<1>1. CASE running = Idle
  BY <1>1, StorageUntouched
<1>2. CASE running # Idle /\ running.job.kind = "apply"
  BY <1>2, AbandonPreserves DEF AbandonRequest
<1>3. CASE running # Idle /\ running.job.kind # "apply"
  <2>1. running' = [running EXCEPT !.job = running.job]
    BY <1>3 DEF AbandonRequest
  <2>2. running' = running
    BY <1>3, <2>1 DEF TypeOK
  <2> QED BY <2>2, StorageUntouched
<1> QED BY <1>1, <1>2, <1>3

\* A job begins its transaction on rows no other open transaction holds.
LEMMA BeginPreserves ==
  ASSUME StorageInv, NEW j, running = Idle, Unlocked(j), Covered(j),
         running' = [job |-> j, outcome |-> "open"], stored' = stored, orphans' = orphans
  PROVE  StorageInv'
<1>1. RunningOpen' /\ running'.job = j
  BY DEF RunningOpen, Idle
<1>2. \A k : Covered(k) => Covered(k)'
  BY DEF Covered
<1>3. OffersHeld'
  BY <1>1, <1>2 DEF StorageInv, OffersHeld
<1>4. \A k \in orphans : Apart(j, k)
  BY UnlockedApart
<1>5. RowsApart'
  BY <1>1, <1>4 DEF StorageInv, RowsApart, Apart, RowsOf
<1> QED BY <1>3, <1>5 DEF StorageInv, NoDuplication

LEMMA FinishPreserves ==
  ASSUME StorageInv, ~RunningOpen', stored' = stored, orphans' \subseteq orphans
  PROVE  StorageInv'
<1>1. \A k : Covered(k) => Covered(k)'
  BY DEF Covered
<1> QED BY <1>1 DEF StorageInv, NoDuplication, OffersHeld, RowsApart, Apart, RowsOf

\* The connection of an open transaction is given up, or the process dies.
LEMMA OrphanPreserves ==
  ASSUME StorageInv, RunningOpen, running' = Idle, stored' = stored,
         orphans' = orphans \cup {running.job}
  PROVE  StorageInv'
<1>1. ~RunningOpen'
  BY DEF RunningOpen, Idle
<1>2. \A k : Covered(k) => Covered(k)'
  BY DEF Covered
<1>3. OffersHeld'
  BY <1>1, <1>2 DEF StorageInv, OffersHeld
<1>4. \A j, k \in orphans' : j # k => Apart(j, k)
  BY DEF StorageInv, RowsApart, Apart
<1>5. RowsApart'
  BY <1>1, <1>4 DEF RowsApart, Apart, RowsOf
<1> QED BY <1>3, <1>5 DEF StorageInv, NoDuplication

LEMMA SessionStepStorage == TypeOK /\ StorageInv /\ SessionStep => StorageInv'
<1> SUFFICES ASSUME TypeOK, StorageInv, NEW c \in Characters,
      \/ Enter(c) \/ Disconnect(c)
      \/ \E op \in {"refresh", "change"} : RequestInventory(c, op)
      \/ TakeDamage(c) \/ RetryDamage(c)
      \/ InventoryAnswered(c) \/ InventoryTimeout(c)
      \/ \E t \in TradeIds : QueryTrade(c, t)
      \/ LookupAnswered(c) \/ LeaveMap(c)
    PROVE StorageInv'
  BY DEF SessionStep
<1>1. CASE Disconnect(c)
  BY <1>1, AbandonPreserves DEF Disconnect, db
<1>2. CASE InventoryTimeout(c)
  BY <1>2, AbandonRequestPreserves DEF InventoryTimeout, db
<1>3. ASSUME ~Disconnect(c), ~InventoryTimeout(c) PROVE StorageInv'
  <2>1. UNCHANGED <<stored, orphans, running>>
    BY <1>3 DEF Enter, RequestInventory, TakeDamage, RetryDamage, InventoryAnswered,
                QueryTrade, LookupAnswered, LeaveMap, db, worker
  <2> QED BY <2>1, StorageUntouched
<1> QED BY <1>1, <1>2, <1>3

LEMMA TradeStepStorage == StorageInv /\ (HandleTrade \/ UpdateTrade) => StorageInv'
<1>1. HandleTrade => UNCHANGED <<stored, orphans, running>>
  <2>1. ASSUME NEW x, NEW y, NEW t, Invite(x, y, t)
        PROVE  UNCHANGED <<stored, orphans, running>>
    BY <2>1 DEF Invite, db, worker
  <2>2. ASSUME NEW c, NEW t,
               \/ ReadState(c, t) \/ Accept(c, t)
               \/ \E goods \in SUBSET Goods : Offer(c, t, goods)
               \/ FirstConfirm(c, t) \/ LastConfirm(c, t)
               \/ CancelRequest(c, t) \/ FoundApart(c, t)
        PROVE  UNCHANGED <<stored, orphans, running>>
    BY <2>2 DEF ReadState, Accept, Offer, FirstConfirm, LastConfirm, CancelRequest,
                FoundApart, db, worker
  <2> QED BY <2>1, <2>2 DEF HandleTrade
<1>2. UpdateTrade => UNCHANGED <<stored, orphans, running>>
  BY DEF UpdateTrade, RetryExchange, ExchangeAnswered, ExpireTrade, EraseTrade, db, worker
<1> QED BY <1>1, <1>2, StorageUntouched

LEMMA WorkerStepStorage == TypeOK /\ StorageInv /\ WorkerStep => StorageInv'
<1> SUFFICES ASSUME TypeOK, StorageInv, WorkerStep PROVE StorageInv'
  OBVIOUS
<1>1. CASE RunExchange
  <2> DEFINE j == Head(queue)
  <2>1. UNCHANGED <<stored, orphans>> /\ running = Idle /\ Unlocked(j) /\ j.kind = "exchange"
    BY <1>1 DEF RunExchange, db
  <2>2. CASE ExchangeResult(j.request) = "Success"
    <3>1. running' = [job |-> j, outcome |-> "open"]
      BY <1>1, <2>2 DEF RunExchange
    <3>2. Covered(j)
      BY <2>2 DEF ExchangeResult, ApplyTrade, Covered
    <3> QED BY <2>1, <3>1, <3>2, BeginPreserves
  <2>3. CASE ExchangeResult(j.request) # "Success"
    BY <1>1, <2>1, <2>3, StorageUntouched DEF RunExchange
  <2> QED BY <2>2, <2>3
<1>2. CASE RunApply
  <2> DEFINE j == Head(queue)
  <2>1. UNCHANGED <<stored, orphans>> /\ running = Idle /\ Unlocked(j) /\ j.kind = "apply"
        /\ (running' = running \/ running' = [job |-> j, outcome |-> "open"])
    BY <1>2 DEF RunApply, db
  <2>2. Covered(j)
    BY <2>1 DEF Covered
  <2> QED BY <2>1, <2>2, BeginPreserves, StorageUntouched
<1>3. CASE RunLookup \/ JobFails
  BY <1>3, StorageUntouched DEF RunLookup, JobFails, db
<1>4. CASE CommitRunning
  <2> DEFINE j == running.job
  <2>1. j \in Job /\ Effect(j) /\ Covered(j) /\ orphans' = orphans
        /\ \A k \in orphans : Apart(j, k)
    BY <1>4, RunningType
    DEF CommitRunning, StorageInv, OffersHeld, RowsApart, RunningOpen
  <2>2. ~RunningOpen'
    BY <1>4 DEF CommitRunning, RunningOpen, TypeOK
  <2> HIDE DEF j
  <2>3. NoDuplication'
    BY <2>1, EffectNoDuplication DEF StorageInv
  <2>4. \A k \in orphans : Covered(k)'
    BY <2>1, EffectKeepsCovered DEF StorageInv, OffersHeld, TypeOK
  <2>5. OffersHeld' /\ RowsApart'
    BY <2>1, <2>2, <2>4 DEF OffersHeld, RowsApart, StorageInv, Apart, RowsOf
  <2> QED BY <2>3, <2>5 DEF StorageInv
<1>5. CASE RollbackRunning
  <2>1. ~RunningOpen' /\ UNCHANGED <<stored, orphans>>
    BY <1>5 DEF RollbackRunning, RunningOpen, TypeOK, db
  <2> QED BY <2>1, FinishPreserves
<1>6. CASE ReplyCommitted
  <2>1. ~RunningOpen' /\ UNCHANGED <<stored, orphans>>
    BY <1>6 DEF ReplyCommitted, RunningOpen, db
  <2> QED BY <2>1, FinishPreserves
<1>7. CASE ReplyUnknown
  <2>1. running' = Idle /\ stored' = stored /\ ~RunningOpen'
    BY <1>7 DEF ReplyUnknown, RunningOpen
  <2>2. CASE RunningOpen
    BY <1>7, <2>1, <2>2, OrphanPreserves DEF ReplyUnknown, RunningOpen
  <2>3. CASE ~RunningOpen
    BY <1>7, <2>1, <2>3, FinishPreserves DEF ReplyUnknown, RunningOpen
  <2> QED BY <2>2, <2>3
<1> QED BY <1>1, <1>2, <1>3, <1>4, <1>5, <1>6, <1>7 DEF WorkerStep

LEMMA DatabaseStepStorage == TypeOK /\ StorageInv /\ DatabaseStep => StorageInv'
<1>1. ASSUME TypeOK, StorageInv, NEW j \in orphans, OrphanCommits(j) PROVE StorageInv'
  <2>1. /\ j \in Job /\ Effect(j) /\ Covered(j) /\ orphans' = orphans \ {j}
        /\ running' = running
    BY <1>1 DEF OrphanCommits, TypeOK, StorageInv, OffersHeld, worker
  <2>2. NoDuplication'
    BY <1>1, <2>1, EffectNoDuplication DEF StorageInv
  <2>3. \A k \in orphans' : k \in Job /\ Covered(k) /\ Apart(j, k)
    BY <1>1, <2>1 DEF StorageInv, OffersHeld, RowsApart, TypeOK
  <2>4. \A k \in orphans' : Covered(k)'
    BY <1>1, <2>1, <2>3, EffectKeepsCovered
  <2>5. RunningOpen => running.job \in Job /\ Covered(running.job) /\ Apart(j, running.job)
    BY <1>1, RunningType DEF StorageInv, OffersHeld, RowsApart, Apart, RunningOpen
  <2>6. RunningOpen => Covered(running.job)'
    BY <1>1, <2>1, <2>5, EffectKeepsCovered
  <2>7. OffersHeld' /\ RowsApart'
    BY <1>1, <2>1, <2>4, <2>6
    DEF OffersHeld, RowsApart, StorageInv, Apart, RowsOf, RunningOpen, Covered
  <2> QED BY <2>2, <2>7 DEF StorageInv
<1>2. ASSUME StorageInv, NEW j \in orphans, OrphanRollsBack(j) PROVE StorageInv'
  <2>1. stored' = stored /\ running' = running /\ orphans' = orphans \ {j}
    BY <1>2 DEF OrphanRollsBack, worker
  <2> QED BY <1>2, <2>1
      DEF StorageInv, NoDuplication, OffersHeld, RowsApart, RunningOpen, Covered, Apart, RowsOf
<1> QED BY <1>1, <1>2 DEF DatabaseStep

LEMMA CrashStorage == StorageInv /\ Crash => StorageInv'
<1> SUFFICES ASSUME StorageInv, Crash PROVE StorageInv'
  OBVIOUS
<1>1. CASE RunningOpen
  BY <1>1, OrphanPreserves DEF Crash, OpenJobs, RunningOpen
<1>2. CASE ~RunningOpen
  <2>1. ~RunningOpen' /\ stored' = stored /\ orphans' = orphans
    BY <1>2 DEF Crash, OpenJobs, RunningOpen
  <2> QED BY <2>1, FinishPreserves
<1> QED BY <1>1, <1>2

\* Whatever is lost, retried, timed out or committed late, a good is in one
\* committed inventory only (TradeRules.h:9, TradeRepository.cpp:32).
THEOREM NeverDuplicated == Spec => []NoDuplication
<1>1. Init => StorageInv
  BY TradeAssumption
  DEF Init, TradeAssumption, StorageInv, NoDuplication, OffersHeld, RowsApart, RunningOpen
<1>2. TradeInv /\ StorageInv /\ [Next]_vars => StorageInv'
  <2>1. StorageInv /\ UNCHANGED vars => StorageInv'
    BY StorageUntouched DEF vars
  <2> QED BY <2>1, SessionStepStorage, TradeStepStorage, WorkerStepStorage,
             DatabaseStepStorage, CrashStorage DEF Next, TradeInv, TypeInv
<1>3. StorageInv => NoDuplication
  BY DEF StorageInv
<1> QED BY <1>1, <1>2, <1>3, TradeInvInductive, PTL DEF Spec

-----------------------------------------------------------------------------
(* The contract: TradeExchange keeps what TradeContract promises, what is    *)
(* exchanged is what was confirmed, and what clients are told stays true.    *)

(***************************************************************************)
(* Which steps change what a trade offers.  All but the steps of a         *)
(* negotiation leave a trade as it is, end it or forget it.                *)
(***************************************************************************)

Steady(t) ==
  /\ parties'[t] = parties[t] /\ agreed'[t] = agreed[t]
  /\ \/ trades'[t].stage = "absent"
     \/ /\ trades'[t].stage = trades[t].stage
        /\ trades'[t].revision = trades[t].revision
        /\ trades'[t].confirmed = trades[t].confirmed
        /\ trades'[t].offers = trades[t].offers
     \/ /\ trades'[t].stage \in {"Completed", "Cancelled"} /\ Open(t)
        /\ trades'[t].revision = trades[t].revision + 1

\* A client forgets what it read when its connection ends.
NoNewView == \A c \in Characters : view'[c] \in {view[c], NoView}

AllSteady == NoNewView /\ \A t \in TradeIds : Steady(t)

\* A step of the negotiation of t.
Negotiated(t) ==
  \/ \E x, y \in Characters : Invite(x, y, t)
  \/ \E c \in Characters :
       \/ ReadState(c, t) \/ Accept(c, t)
       \/ \E goods \in SUBSET Goods : Offer(c, t, goods)
       \/ FirstConfirm(c, t) \/ LastConfirm(c, t)

LEMMA SameTradesSteady ==
  ASSUME trades' = trades, parties' = parties, agreed' = agreed
  PROVE  \A t \in TradeIds : Steady(t)
BY DEF Steady

LEMMA CancelSteady ==
  ASSUME NEW c, TypeOK, Cancel(c), parties' = parties, agreed' = agreed
  PROVE  \A t \in TradeIds : Steady(t)
<1> SUFFICES ASSUME NEW t \in TradeIds PROVE Steady(t)
  OBVIOUS
<1>1. CASE t \in Cancellable(c)
  <2>1. trades'[t] = End(t) /\ Open(t) /\ trades[t] \in TradeRecord
    BY <1>1 DEF Cancel, Cancellable, ActiveOf, TypeOK
  <2>2. trades'[t].stage = "Cancelled" /\ trades'[t].revision = trades[t].revision + 1
    BY <2>1 DEF End, TradeRecord
  <2> QED BY <2>1, <2>2 DEF Steady
<1>2. CASE t \notin Cancellable(c)
  BY <1>2 DEF Cancel, Steady
<1> QED BY <1>1, <1>2

LEMMA EndTradeSteady ==
  ASSUME NEW t \in TradeIds, TypeOK, EndTrade(t), parties' = parties, agreed' = agreed,
         trades[t].stage \in {"Invited", "Editing"}
  PROVE  \A u \in TradeIds : Steady(u)
<1> SUFFICES ASSUME NEW u \in TradeIds PROVE Steady(u)
  OBVIOUS
<1>1. CASE u = t
  <2>1. trades'[t] = End(t) /\ Open(t) /\ trades[t] \in TradeRecord
    BY DEF EndTrade, TypeOK, Open
  <2>2. trades'[t].stage = "Cancelled" /\ trades'[t].revision = trades[t].revision + 1
    BY <2>1 DEF End, TradeRecord
  <2> QED BY <1>1, <2>1, <2>2 DEF Steady
<1>2. CASE u # t
  BY <1>2 DEF EndTrade, TypeOK, Steady
<1> QED BY <1>1, <1>2

LEMMA FulfilSteady ==
  ASSUME TypeOK, NEW r \in Request, NEW answer, FulfilExchange(r, answer),
         parties' = parties, agreed' = agreed
  PROVE  \A t \in TradeIds : Steady(t)
<1> SUFFICES ASSUME NEW t \in TradeIds PROVE Steady(t)
  OBVIOUS
<1>1. trades[t] \in TradeRecord
  BY DEF TypeOK
<1>2. trades'[t] = trades[t] \/ trades'[t] = [trades[t] EXCEPT !.pending = answer]
  BY DEF FulfilExchange, TypeOK
<1> QED BY <1>1, <1>2 DEF TradeRecord, Steady

LEMMA FailSteady ==
  ASSUME TypeOK, NEW j \in Job, Fail(j), parties' = parties, agreed' = agreed
  PROVE  \A t \in TradeIds : Steady(t)
<1>1. CASE j.kind = "exchange"
  BY <1>1, JobKinds, FulfilSteady DEF Fail
<1>2. CASE j.kind # "exchange"
  <2>1. trades' = trades
    BY <1>2, JobKinds DEF Fail, FulfilRequest, FulfilLookup
  <2> QED BY <2>1, SameTradesSteady
<1> QED BY <1>1, <1>2

LEMMA SessionStepSteady == TypeOK /\ SessionStep => AllSteady
<1> SUFFICES ASSUME TypeOK, NEW c \in Characters,
      \/ Enter(c) \/ Disconnect(c)
      \/ \E op \in {"refresh", "change"} : RequestInventory(c, op)
      \/ TakeDamage(c) \/ RetryDamage(c)
      \/ InventoryAnswered(c) \/ InventoryTimeout(c)
      \/ \E t \in TradeIds : QueryTrade(c, t)
      \/ LookupAnswered(c) \/ LeaveMap(c)
    PROVE AllSteady
  BY DEF SessionStep
<1>1. CASE Disconnect(c)
  <2>1. NoNewView
    BY <1>1 DEF Disconnect, NoNewView, TypeOK
  <2> QED BY <1>1, <2>1, CancelSteady DEF Disconnect, AllSteady
<1>2. ASSUME ~Disconnect(c) PROVE AllSteady
  <2>1. view' = view /\ parties' = parties /\ agreed' = agreed
    BY <1>2 DEF Enter, RequestInventory, TakeDamage, RetryDamage, InventoryAnswered,
                InventoryTimeout, QueryTrade, LookupAnswered, LeaveMap
  <2>2. trades' = trades \/ Cancel(c)
    BY <1>2 DEF Enter, RequestInventory, TakeDamage, RetryDamage, InventoryAnswered,
                InventoryTimeout, QueryTrade, LookupAnswered, LeaveMap
  <2> QED BY <2>1, <2>2, SameTradesSteady, CancelSteady DEF AllSteady, NoNewView
<1> QED BY <1>1, <1>2

LEMMA UpdateTradeSteady == TypeOK /\ UpdateTrade => AllSteady
<1> SUFFICES ASSUME TypeOK, NEW t \in TradeIds,
      RetryExchange(t) \/ ExchangeAnswered(t) \/ ExpireTrade(t) \/ EraseTrade(t)
    PROVE AllSteady
  BY DEF UpdateTrade
<1>0. NoNewView /\ parties' = parties /\ agreed' = agreed /\ trades[t] \in TradeRecord
  BY DEF RetryExchange, ExchangeAnswered, ExpireTrade, EraseTrade, NoNewView, TypeOK
<1>1. CASE RetryExchange(t) \/ ExchangeAnswered(t)
  <2>1. \A u \in TradeIds : u # t => trades'[u] = trades[u]
    BY <1>1 DEF RetryExchange, ExchangeAnswered, KeepAsking, Settle, TypeOK
  <2>2. ASSUME RetryExchange(t) \/ (ExchangeAnswered(t) /\ KeepAsking(t)) PROVE Steady(t)
    <3>1. \E p : trades'[t] = [trades[t] EXCEPT !.pending = p]
      BY <2>2 DEF RetryExchange, KeepAsking, TypeOK
    <3> QED BY <1>0, <3>1 DEF Steady, TradeRecord
  <2>3. ASSUME ExchangeAnswered(t), Settle(t) PROVE Steady(t)
    <3>1. PICK o \in {"Completed", "Cancelled"} :
            trades'[t] = [trades[t] EXCEPT !.stage = o, !.revision = trades[t].revision + 1,
                                           !.pending = NoPending]
      BY <2>3 DEF Settle, Outcome, TypeOK
    <3>2. Open(t)
      BY <2>3 DEF ExchangeAnswered, Open
    <3> QED BY <1>0, <3>1, <3>2 DEF Steady, TradeRecord
  <2>4. Steady(t)
    BY <1>1, <2>2, <2>3 DEF ExchangeAnswered
  <2> QED BY <1>0, <2>1, <2>4 DEF AllSteady, Steady
<1>2. CASE ExpireTrade(t)
  BY <1>0, <1>2, EndTradeSteady DEF ExpireTrade, AllSteady
<1>3. CASE EraseTrade(t)
  <2>1. trades'[t].stage = "absent" /\ \A u \in TradeIds : u # t => trades'[u] = trades[u]
    BY <1>3 DEF EraseTrade, Absent, TypeOK
  <2> QED BY <1>0, <2>1 DEF AllSteady, Steady
<1> QED BY <1>1, <1>2, <1>3

LEMMA WorkerStepSteady == TypeOK /\ WorkerStep => AllSteady
<1> SUFFICES ASSUME TypeOK, WorkerStep PROVE AllSteady
  OBVIOUS
<1>0. NoNewView /\ parties' = parties /\ agreed' = agreed
  BY DEF WorkerStep, RunExchange, RunApply, RunLookup, JobFails, CommitRunning,
         RollbackRunning, ReplyCommitted, ReplyUnknown, NoNewView
<1>1. CASE RunExchange
  <2>1. Head(queue).request \in Request
    BY <1>1, RunningType, JobKinds DEF RunExchange
  <2>2. trades' = trades \/ \E answer : FulfilExchange(Head(queue).request, answer)
    BY <1>1 DEF RunExchange
  <2> QED BY <1>0, <2>1, <2>2, FulfilSteady, SameTradesSteady DEF AllSteady
<1>2. CASE RunApply \/ RunLookup \/ CommitRunning \/ RollbackRunning
  <2>1. trades' = trades
    BY <1>2 DEF RunApply, RunLookup, CommitRunning, RollbackRunning,
                FulfilRequest, FulfilLookup
  <2> QED BY <1>0, <2>1, SameTradesSteady DEF AllSteady
<1>3. CASE JobFails
  BY <1>0, <1>3, RunningType, FailSteady DEF JobFails, AllSteady
<1>4. CASE ReplyCommitted
  <2>1. running.job \in Job /\ Succeed(running.job)
    BY <1>4, RunningType DEF ReplyCommitted
  <2>2. CASE running.job.kind = "exchange"
    BY <1>0, <2>1, <2>2, JobKinds, FulfilSteady DEF Succeed, AllSteady
  <2>3. CASE running.job.kind # "exchange"
    BY <1>0, <2>1, <2>3, SameTradesSteady DEF Succeed, FulfilRequest, AllSteady
  <2> QED BY <2>2, <2>3
<1>5. CASE ReplyUnknown
  BY <1>0, <1>5, RunningType, FailSteady DEF ReplyUnknown, AllSteady
<1> QED BY <1>1, <1>2, <1>3, <1>4, <1>5 DEF WorkerStep

LEMMA StepSteady ==
  ASSUME TypeOK, [Next]_vars
  PROVE  AllSteady \/ \E t \in TradeIds : Negotiated(t)
<1>1. CASE DatabaseStep \/ UNCHANGED vars
  <2>1. trades' = trades /\ parties' = parties /\ agreed' = agreed /\ NoNewView
    BY <1>1 DEF DatabaseStep, OrphanCommits, OrphanRollsBack, vars, NoNewView
  <2> QED BY <2>1, SameTradesSteady DEF AllSteady
<1>2. CASE Crash
  BY <1>2 DEF Crash, AllSteady, NoNewView, Steady, Absent
<1>3. CASE HandleTrade
  <2>1. ASSUME NEW c \in Characters, NEW t \in TradeIds, CancelRequest(c, t) \/ FoundApart(c, t)
        PROVE  AllSteady
    BY <2>1, EndTradeSteady DEF CancelRequest, FoundApart, AllSteady, NoNewView
  <2> QED BY <1>3, <2>1 DEF HandleTrade, Negotiated
<1> QED BY <1>1, <1>2, <1>3, SessionStepSteady, UpdateTradeSteady, WorkerStepSteady DEF Next

(***************************************************************************)
(* Confirming.  A client confirms the revision it names, and a revision    *)
(* stands for one pair of offers; so what a side has confirmed is what it  *)
(* was shown, until the trade ends.                                        *)
(***************************************************************************)

\* What a client has read of a trade is out of date or still the offers.
ViewInv ==
  \A c \in Characters : view[c] # NoView =>
    LET t == view[c].trade
    IN /\ parties[t] # <<>>
       /\ trades[t].stage # "absent" =>
            /\ view[c].revision <= trades[t].revision
            /\ view[c].revision = trades[t].revision => view[c].offers = trades[t].offers

\* A side that has confirmed looked at the offers as they are; a trade is
\* handed to the database only when both have, and for some good.
ConfirmInv ==
  \A t \in TradeIds :
    /\ trades[t].stage = "Invited" => trades[t].confirmed = {}
    /\ trades[t].stage \in {"Editing", "Committing"} =>
         \A s \in trades[t].confirmed : agreed[t][s] = trades[t].offers
    /\ trades[t].stage = "Committing" =>
         trades[t].confirmed = Sides /\ \E s \in Sides : trades[t].offers[s].goods # {}

LEMMA ViewTypes ==
  ASSUME TypeOK, NEW c \in Characters, view[c] # NoView
  PROVE  /\ view[c].trade \in TradeIds /\ view[c].revision \in Nat
         /\ view[c].offers \in Offers
BY DEF TypeOK

LEMMA TradeTypes ==
  ASSUME TypeOK, NEW t \in TradeIds
  PROVE  /\ trades[t] \in TradeRecord /\ trades[t].revision \in Nat
         /\ trades[t].offers \in Offers /\ trades[t].confirmed \in SUBSET Sides
         /\ agreed[t] \in [Sides -> Offers \cup {<<>>}]
BY DEF TypeOK, TradeRecord

\* An accepted request of the negotiation takes the next revision.
LEMMA NegotiationBumps ==
  ASSUME TypeOK, NEW c \in Characters, NEW t \in TradeIds,
         \/ Accept(c, t) \/ \E goods \in SUBSET Goods : Offer(c, t, goods)
         \/ FirstConfirm(c, t) \/ LastConfirm(c, t)
  PROVE  /\ view' = view /\ parties' = parties
         /\ parties[t] # <<>> /\ c \in Members(t)
         /\ trades[t].stage \in {"Invited", "Editing"}
         /\ trades'[t].revision = trades[t].revision + 1
         /\ view[c] # NoView /\ view[c].trade = t /\ view[c].revision = trades[t].revision
         /\ \A u \in TradeIds : u # t => trades'[u] = trades[u] /\ agreed'[u] = agreed[u]
<1>1. trades[t] \in TradeRecord
  BY TradeTypes
<1>2. CASE Accept(c, t)
  BY <1>1, <1>2 DEF Accept, Negotiating, UpToDate, TypeOK, TradeRecord
<1>3. ASSUME NEW goods \in SUBSET Goods, Offer(c, t, goods)
      PROVE  /\ trades'[t].revision = trades[t].revision + 1
             /\ \A u \in TradeIds : u # t => trades'[u] = trades[u]
             /\ Negotiating(c, t, "Editing")
             /\ view' = view /\ parties' = parties /\ agreed' = agreed
  BY <1>1, <1>3 DEF Offer, TypeOK, TradeRecord
<1>4. CASE FirstConfirm(c, t)
  BY <1>1, <1>4 DEF FirstConfirm, Negotiating, UpToDate, TypeOK, TradeRecord
<1>5. CASE LastConfirm(c, t)
  BY <1>1, <1>5 DEF LastConfirm, Negotiating, UpToDate, TypeOK, TradeRecord
<1>6. CASE \E goods \in SUBSET Goods : Offer(c, t, goods)
  BY <1>3, <1>6 DEF Negotiating, UpToDate
<1> QED BY <1>2, <1>4, <1>5, <1>6

LEMMA InviteOpens ==
  ASSUME TypeOK, NEW x \in Characters, NEW y \in Characters, NEW t \in TradeIds,
         Invite(x, y, t)
  PROVE  /\ parties[t] = <<>> /\ parties'[t] = <<x, y>> /\ x # y
         /\ trades'[t].stage = "Invited" /\ trades'[t].confirmed = {}
         /\ trades'[t].pending = NoPending
         /\ \A u \in TradeIds : u # t => parties'[u] = parties[u] /\ trades'[u] = trades[u]
         /\ UNCHANGED <<db, worker, session, view, agreed, verdicts>>
BY DEF Invite, TypeOK, Absent, Pairs

LEMMA ViewInvNext ==
  ASSUME TypeInv, ViewInv, [Next]_vars
  PROVE  ViewInv'
<1>0. TypeOK
  BY DEF TypeInv
<1>1. CASE AllSteady
  <2> SUFFICES ASSUME NEW c \in Characters, view'[c] # NoView
               PROVE  LET t == view'[c].trade
                      IN /\ parties'[t] # <<>>
                         /\ trades'[t].stage # "absent" =>
                              /\ view'[c].revision <= trades'[t].revision
                              /\ view'[c].revision = trades'[t].revision =>
                                   view'[c].offers = trades'[t].offers
    BY DEF ViewInv
  <2>1. view'[c] = view[c] /\ view[c] # NoView
    BY <1>1 DEF AllSteady, NoNewView
  <2> DEFINE t == view[c].trade
  <2>2. t \in TradeIds /\ view[c].revision \in Nat /\ trades[t].revision \in Nat
    BY <1>0, <2>1, ViewTypes, TradeTypes
  <2>3. Steady(t)
    BY <1>1, <2>2 DEF AllSteady
  <2> QED BY <2>1, <2>2, <2>3 DEF Steady, ViewInv, Open
<1>2. ASSUME NEW x \in Characters, NEW y \in Characters, NEW t \in TradeIds, Invite(x, y, t)
      PROVE  ViewInv'
  <2>1. \A c \in Characters : view[c] # NoView => view[c].trade \in TradeIds \ {t}
    BY <1>0, <1>2, InviteOpens, ViewTypes DEF ViewInv
  <2> QED BY <1>0, <1>2, <2>1, InviteOpens DEF ViewInv
<1>3. ASSUME NEW c \in Characters, NEW t \in TradeIds, ReadState(c, t)
      PROVE  ViewInv'
  <2>1. trades[t].stage # "absent" /\ parties[t] # <<>> /\ trades[t].revision \in Nat
    BY <1>0, <1>3, TradeTypes DEF ReadState, Open, KnownParties, TypeInv
  <2>2. /\ view'[c] = [trade |-> t, revision |-> trades[t].revision,
                       offers |-> trades[t].offers]
        /\ \A d \in Characters : d # c => view'[d] = view[d]
        /\ trades' = trades /\ parties' = parties
    BY <1>0, <1>3 DEF ReadState, TypeOK
  <2> QED BY <2>1, <2>2 DEF ViewInv
<1>4. ASSUME NEW c \in Characters, NEW t \in TradeIds,
             \/ Accept(c, t) \/ \E goods \in SUBSET Goods : Offer(c, t, goods)
             \/ FirstConfirm(c, t) \/ LastConfirm(c, t)
      PROVE  ViewInv'
  <2>1. /\ view' = view /\ parties' = parties
        /\ trades[t].stage \in {"Invited", "Editing"}
        /\ trades'[t].revision = trades[t].revision + 1 /\ trades[t].revision \in Nat
        /\ \A u \in TradeIds : u # t => trades'[u] = trades[u]
    BY <1>0, <1>4, NegotiationBumps, TradeTypes
  <2>2. \A d \in Characters : view[d] # NoView =>
          view[d].trade \in TradeIds /\ view[d].revision \in Nat
    BY <1>0, ViewTypes
  <2> QED BY <2>1, <2>2 DEF ViewInv
<1> QED BY <1>0, <1>1, <1>2, <1>3, <1>4, StepSteady DEF Negotiated

LEMMA ConfirmInvNext ==
  ASSUME TypeInv, ViewInv, ConfirmInv, [Next]_vars
  PROVE  ConfirmInv'
<1>0. TypeOK
  BY DEF TypeInv
<1> DEFINE Holds(t) ==
      /\ trades'[t].stage = "Invited" => trades'[t].confirmed = {}
      /\ trades'[t].stage \in {"Editing", "Committing"} =>
           \A s \in trades'[t].confirmed : agreed'[t][s] = trades'[t].offers
      /\ trades'[t].stage = "Committing" =>
           trades'[t].confirmed = Sides /\ \E s \in Sides : trades'[t].offers[s].goods # {}
<1>1. CASE AllSteady
  BY <1>1 DEF AllSteady, Steady, ConfirmInv
<1>2. ASSUME NEW x \in Characters, NEW y \in Characters, NEW t \in TradeIds, Invite(x, y, t)
      PROVE  ConfirmInv'
  BY <1>0, <1>2, InviteOpens DEF ConfirmInv
<1>3. ASSUME NEW c \in Characters, NEW t \in TradeIds, ReadState(c, t)
      PROVE  ConfirmInv'
  BY <1>3 DEF ReadState, ConfirmInv
<1>4. ASSUME NEW c \in Characters, NEW t \in TradeIds,
             \/ Accept(c, t) \/ \E goods \in SUBSET Goods : Offer(c, t, goods)
             \/ FirstConfirm(c, t) \/ LastConfirm(c, t)
      PROVE  ConfirmInv'
  <2>0. trades[t] \in TradeRecord /\ agreed[t] \in [Sides -> Offers \cup {<<>>}]
        /\ SideOf(c, t) \in Sides
    BY <1>0, TradeTypes DEF SideOf
  <2>1. view[c].offers = trades[t].offers
    BY <1>0, <1>4, NegotiationBumps DEF ViewInv
  <2>2. Holds(t)
    <3>1. CASE Accept(c, t)
      <4>1. trades'[t].stage = "Editing" /\ trades'[t].confirmed = {}
        BY <1>0, <2>0, <3>1 DEF Accept, Negotiating, ConfirmInv, TypeOK, TradeRecord
      <4> QED BY <4>1
    <3>2. CASE \E goods \in SUBSET Goods : Offer(c, t, goods)
      <4>1. trades'[t].stage = "Editing" /\ trades'[t].confirmed = {}
        BY <1>0, <2>0, <3>2 DEF Offer, Negotiating, Reconfirm, TypeOK, TradeRecord
      <4> QED BY <4>1
    <3>3. CASE FirstConfirm(c, t)
      <4>1. /\ trades'[t].stage = "Editing" /\ trades[t].stage = "Editing"
            /\ trades'[t].confirmed = trades[t].confirmed \cup {SideOf(c, t)}
            /\ trades'[t].offers = trades[t].offers
        BY <1>0, <2>0, <3>3 DEF FirstConfirm, Negotiating, TypeOK, TradeRecord
      <4>2. agreed'[t] = [agreed[t] EXCEPT ![SideOf(c, t)] = trades[t].offers]
        BY <1>0, <2>1, <3>3 DEF FirstConfirm, TypeOK
      <4> QED BY <2>0, <4>1, <4>2, TradeTypes DEF ConfirmInv, TradeRecord
    <3>4. CASE LastConfirm(c, t)
      <4>1. /\ trades'[t].stage = "Committing" /\ trades[t].stage = "Editing"
            /\ trades'[t].confirmed = Sides
            /\ trades[t].confirmed \cup {SideOf(c, t)} = Sides
            /\ trades'[t].offers = trades[t].offers
            /\ \E s \in Sides : trades[t].offers[s].goods # {}
        BY <1>0, <2>0, <3>4 DEF LastConfirm, Negotiating, TypeOK, TradeRecord
      <4>2. agreed'[t] = [agreed[t] EXCEPT ![SideOf(c, t)] = trades[t].offers]
        BY <1>0, <2>1, <3>4 DEF LastConfirm, TypeOK
      <4> QED BY <2>0, <4>1, <4>2 DEF ConfirmInv, TradeRecord
    <3> QED BY <1>4, <3>1, <3>2, <3>3, <3>4
  <2>3. \A u \in TradeIds : u # t => trades'[u] = trades[u] /\ agreed'[u] = agreed[u]
    BY <1>0, <1>4, NegotiationBumps
  <2> QED BY <2>2, <2>3 DEF ConfirmInv
<1> QED BY <1>0, <1>1, <1>2, <1>3, <1>4, StepSteady DEF Negotiated

\* An exchange as both sides confirmed it.
AsConfirmed(r) ==
  /\ r.chars = parties[r.id]
  /\ \A s \in Sides : agreed[r.id][s] = r.offers
  /\ trades[r.id].stage \notin {"Invited", "Editing"}
  /\ \E s \in Sides : r.offers[s].goods # {}

\* Once both have confirmed nothing more is confirmed under that id.
LEMMA AsConfirmedStays ==
  ASSUME TypeInv, [Next]_vars, NEW r \in Request, AsConfirmed(r)
  PROVE  AsConfirmed(r)'
<1>0. TypeOK /\ r.id \in TradeIds /\ parties[r.id] # <<>>
  BY DEF TypeInv, Request, AsConfirmed, Pairs
<1>1. CASE AllSteady
  BY <1>0, <1>1 DEF AllSteady, Steady, AsConfirmed
<1>2. ASSUME NEW x \in Characters, NEW y \in Characters, NEW t \in TradeIds, Invite(x, y, t)
      PROVE  AsConfirmed(r)'
  BY <1>0, <1>2, InviteOpens DEF AsConfirmed
<1>3. ASSUME NEW c \in Characters, NEW t \in TradeIds, ReadState(c, t)
      PROVE  AsConfirmed(r)'
  BY <1>3 DEF ReadState, AsConfirmed
<1>4. ASSUME NEW c \in Characters, NEW t \in TradeIds,
             \/ Accept(c, t) \/ \E goods \in SUBSET Goods : Offer(c, t, goods)
             \/ FirstConfirm(c, t) \/ LastConfirm(c, t)
      PROVE  AsConfirmed(r)'
  <2>1. /\ parties' = parties /\ trades[t].stage \in {"Invited", "Editing"}
        /\ \A u \in TradeIds : u # t => trades'[u] = trades[u] /\ agreed'[u] = agreed[u]
    BY <1>0, <1>4, NegotiationBumps
  <2>2. r.id # t
    BY <2>1 DEF AsConfirmed
  <2> QED BY <1>0, <2>1, <2>2 DEF AsConfirmed
<1> QED BY <1>0, <1>1, <1>2, <1>3, <1>4, StepSteady DEF Negotiated

(***************************************************************************)
(* Where exchanges are.  A trade handed to the database has one job, in    *)
(* the queue or with the worker, until its answer arrives; only what the   *)
(* database was left with (orphans) may exist besides.                     *)
(***************************************************************************)

IsExchange(j) == j.kind = "exchange"

\* The exchanges that were or may still be carried out.
Requested(r) ==
  \/ r \in receipts
  \/ ExchangeJob(r) \in orphans
  \/ running # Idle /\ running.job = ExchangeJob(r)
  \/ \E i \in DOMAIN queue : queue[i] = ExchangeJob(r)

\* Each of them is one that was confirmed.
ConfirmedInv == \A r \in Request : Requested(r) => AsConfirmed(r)

\* Only a trade handed to the database waits for an answer or has one.
WaitInv ==
  \A t \in TradeIds : trades[t].pending # NoPending => trades[t].stage = "Committing"

\* A trade has at most one job that will answer it, and then it waits for it.
AloneInv ==
  /\ \A i \in DOMAIN queue :
       IsExchange(queue[i]) => trades[queue[i].request.id].pending = Pending
  /\ running # Idle /\ IsExchange(running.job) =>
       trades[running.job.request.id].pending = Pending
  /\ \A i, k \in DOMAIN queue :
       /\ IsExchange(queue[i]) /\ IsExchange(queue[k])
       /\ queue[i].request.id = queue[k].request.id
       => i = k
  /\ \A i \in DOMAIN queue :
       running # Idle /\ IsExchange(running.job) /\ IsExchange(queue[i]) =>
         queue[i].request.id # running.job.request.id

LEMMA QueueJobs ==
  ASSUME TypeOK
  PROVE  /\ DOMAIN queue = 1..Len(queue) /\ Len(queue) \in Nat
         /\ \A i \in DOMAIN queue : queue[i] \in Job
         /\ running # Idle =>
              running.job \in Job /\ running.outcome \in {"open", "committed", "rolledBack"}
BY ElementOfSeq, LenProperties DEF TypeOK

LEMMA AppendJobs ==
  ASSUME TypeOK, NEW j \in Job, queue' = Append(queue, j)
  PROVE  /\ DOMAIN queue' = DOMAIN queue \cup {Len(queue) + 1}
         /\ Len(queue) + 1 \notin DOMAIN queue
         /\ \A i \in DOMAIN queue : queue'[i] = queue[i]
         /\ queue'[Len(queue) + 1] = j
BY QueueJobs, AppendProperties DEF TypeOK

LEMMA TailJobs ==
  ASSUME TypeOK, queue # <<>>, queue' = Tail(queue)
  PROVE  /\ 1 \in DOMAIN queue /\ Head(queue) = queue[1]
         /\ \A i \in DOMAIN queue' : /\ i + 1 \in DOMAIN queue /\ i + 1 # 1
                                     /\ i \in Nat /\ queue'[i] = queue[i + 1]
<1>1. queue \in Seq(Job) /\ Len(queue) \in Nat /\ Len(queue) # 0
  BY EmptySeq, LenProperties DEF TypeOK
<1>2. /\ Tail(queue) \in Seq(Job) /\ Len(Tail(queue)) = Len(queue) - 1
      /\ \A i \in 1..Len(Tail(queue)) : Tail(queue)[i] = queue[i + 1]
      /\ Head(queue) = queue[1]
  BY <1>1, HeadTailProperties
<1>3. DOMAIN Tail(queue) = 1..Len(Tail(queue)) /\ DOMAIN queue = 1..Len(queue)
  BY <1>1, <1>2, LenProperties
<1> QED BY <1>1, <1>2, <1>3

\* No exchange appears or moves.
NoExchangeMoves ==
  /\ UNCHANGED <<stored, receipts, orphans>>
  /\ \A i \in DOMAIN queue' : IsExchange(queue'[i]) => i \in DOMAIN queue /\ queue'[i] = queue[i]
  /\ running' # Idle /\ IsExchange(running'.job) => running' = running

LEMMA AbandonSame ==
  ASSUME NEW j \in Job, NEW c
  PROVE  /\ IsExchange(Abandon(j, c)) => Abandon(j, c) = j
         /\ IsExchange(AbandonRequest(j, c)) => AbandonRequest(j, c) = j
BY DEF Abandon, AbandonRequest, IsExchange, Job

LEMMA SessionStepMovesNone == TypeOK /\ SessionStep => NoExchangeMoves
<1> SUFFICES ASSUME TypeOK, NEW c \in Characters,
      \/ Enter(c) \/ Disconnect(c)
      \/ \E op \in {"refresh", "change"} : RequestInventory(c, op)
      \/ TakeDamage(c) \/ RetryDamage(c)
      \/ InventoryAnswered(c) \/ InventoryTimeout(c)
      \/ \E t \in TradeIds : QueryTrade(c, t)
      \/ LookupAnswered(c) \/ LeaveMap(c)
    PROVE NoExchangeMoves
  BY DEF SessionStep
<1>1. CASE Disconnect(c)
  <2>1. /\ DOMAIN queue' = DOMAIN queue /\ \A i \in DOMAIN queue : queue'[i] = Abandon(queue[i], c)
        /\ UNCHANGED <<stored, receipts, orphans>>
    BY <1>1 DEF Disconnect, AbandonIn, db
  <2>2. running' # Idle => /\ running # Idle /\ running'.job = Abandon(running.job, c)
                           /\ running' = [running EXCEPT !.job = Abandon(running.job, c)]
    BY <1>1, QueueJobs DEF Disconnect, TypeOK
  <2>3. running' # Idle /\ running'.job = running.job => running' = running
    BY <2>2 DEF TypeOK
  <2> QED BY <2>1, <2>2, <2>3, QueueJobs, AbandonSame DEF NoExchangeMoves
<1>2. CASE InventoryTimeout(c)
  <2>1. /\ DOMAIN queue' = DOMAIN queue
        /\ \A i \in DOMAIN queue : queue'[i] = AbandonRequest(queue[i], c)
        /\ UNCHANGED <<stored, receipts, orphans>>
    BY <1>2 DEF InventoryTimeout, AbandonRequestIn, db
  <2>2. running' # Idle => /\ running # Idle /\ running'.job = AbandonRequest(running.job, c)
                           /\ running' = [running EXCEPT !.job = AbandonRequest(running.job, c)]
    BY <1>2, QueueJobs DEF InventoryTimeout, TypeOK
  <2>3. running' # Idle /\ running'.job = running.job => running' = running
    BY <2>2 DEF TypeOK
  <2> QED BY <2>1, <2>2, <2>3, QueueJobs, AbandonSame DEF NoExchangeMoves
<1>3. ASSUME ~Disconnect(c), ~InventoryTimeout(c) PROVE NoExchangeMoves
  <2>1. UNCHANGED <<stored, receipts, orphans, running>>
    BY <1>3 DEF Enter, RequestInventory, TakeDamage, RetryDamage, InventoryAnswered,
                QueryTrade, LookupAnswered, LeaveMap, db, worker
  <2>2. queue' = queue \/ \E j \in Job : ~IsExchange(j) /\ queue' = Append(queue, j)
    <3>1. \A op \in {"refresh", "change", "damage"}, rev \in Nat :
            ApplyJob(c, op, rev) \in Job /\ ~IsExchange(ApplyJob(c, op, rev))
      BY JobTypes DEF ApplyJob, IsExchange
    <3>2. \A t \in TradeIds : LookupJob(c, t) \in Job /\ ~IsExchange(LookupJob(c, t))
      BY JobTypes DEF LookupJob, IsExchange
    <3>3. session[c] \in SessionState /\ session[c].inv.rev \in Nat
      BY DEF TypeOK, SessionState, Snapshot
    <3>4. \A s \in SessionState :
            Submit(c, s) \/ Pump(c, s) =>
              queue' = queue \/ queue' = Append(queue, ApplyJob(c, "damage", s.inv.rev))
      BY DEF Submit, Pump
    <3>5. \A s \in SessionState : s.inv.rev \in Nat
      BY DEF SessionState, Snapshot
    <3>6. InventoryAnswered(c) => Finish(session[c], session[c].request.reply) \in SessionState
      BY <3>3, FinishType DEF InventoryAnswered, SessionState
    <3>7. [session[c] EXCEPT !.hits = @ + 1] \in SessionState
      BY <3>3, SessionFieldTypes
    <3>8. CASE TakeDamage(c) \/ RetryDamage(c) \/ InventoryAnswered(c)
      <4>1. \/ queue' = queue
            \/ \E s \in SessionState : Submit(c, s) \/ Pump(c, s)
        BY <3>3, <3>6, <3>7, <3>8 DEF TakeDamage, RetryDamage, InventoryAnswered
      <4> QED BY <3>1, <3>4, <3>5, <4>1
    <3>9. CASE \E op \in {"refresh", "change"} : RequestInventory(c, op)
      BY <3>1, <3>3, <3>9 DEF RequestInventory
    <3>10. CASE \E t \in TradeIds : QueryTrade(c, t)
      BY <3>2, <3>10 DEF QueryTrade
    <3>11. CASE Enter(c) \/ LookupAnswered(c) \/ LeaveMap(c)
      BY <3>11 DEF Enter, LookupAnswered, LeaveMap, worker
    <3> QED BY <1>3, <3>8, <3>9, <3>10, <3>11
  <2> QED BY <2>1, <2>2, AppendJobs DEF NoExchangeMoves
<1> QED BY <1>1, <1>2, <1>3

(***************************************************************************)
(* What the steps do with exchanges.  The quiet ones do nothing with them, *)
(* two actions hand one to the worker, and a worker step takes a job or    *)
(* answers it.                                                             *)
(***************************************************************************)

HandsOver(t) ==
  /\ trades[t].stage \in {"Editing", "Committing"} /\ trades'[t].stage = "Committing"
  /\ trades[t].pending = NoPending
  /\ trades'[t].offers = trades[t].offers /\ parties'[t] = parties[t] /\ parties[t] # <<>>
  /\ \A u \in TradeIds : u # t => trades'[u] = trades[u]
  /\ UNCHANGED <<stored, receipts, orphans, running, parties, view, verdicts>>
  /\ \/ queue' = queue /\ trades'[t].pending = trades[t].pending
     \/ queue' = Append(queue, ExchangeJob(RequestOf(t))) /\ trades'[t].pending = Pending

\* The answers the worker gives: only a recorded exchange is called a success,
\* and one is refused only when nothing of it can still be under way.
Told(j) ==
  \/ /\ IsExchange(j)
     /\ \E result \in {"Success", "Stale", "Full", "StorageError"} :
          /\ FulfilExchange(j.request, Answer(result, StatesOf(j.request)))
          /\ result = "Success" =>
               \/ HasReceipt(j.request.id)
               \/ running # Idle /\ running.job = j /\ running.outcome = "committed"
          /\ result \in {"Stale", "Full"} =>
               ~HasReceipt(j.request.id) /\ Unlocked(j) /\ running = Idle
  \/ /\ j.kind = "apply"
     /\ \E reply \in {Failed, Loaded(stored[j.owner])} : FulfilRequest(j, reply)
  \/ /\ j.kind = "lookup"
     /\ \/ FulfilLookup(j, Failed)
        \/ /\ Unlocked(j)
           /\ FulfilLookup(j, [answer |-> "loaded", state |-> stored[j.owner],
                verdict |-> IF HasReceipt(j.trade) THEN "Completed" ELSE "Cancelled"])

Begins(j) ==
  /\ Unlocked(j) /\ j.kind \in {"exchange", "apply"}
  /\ IsExchange(j) => ExchangeResult(j.request) = "Success"
  /\ running' = [job |-> j, outcome |-> "open"]
  /\ UNCHANGED <<trades, session>>

TakesJob ==
  /\ running = Idle /\ queue # <<>> /\ queue' = Tail(queue)
  /\ UNCHANGED <<stored, receipts, orphans, parties, view, agreed, verdicts>>
  /\ Begins(Head(queue)) \/ (running' = Idle /\ Told(Head(queue)))

EndsJob ==
  /\ running # Idle /\ running' = Idle
  /\ UNCHANGED <<stored, receipts, queue, parties, view, agreed, verdicts>>
  /\ orphans' = IF running.outcome = "open" THEN orphans \cup {running.job} ELSE orphans
  /\ Told(running.job)

LEMMA FailTold ==
  ASSUME NEW j \in Job, Fail(j)
  PROVE  Told(j)
<1>1. CASE j.kind = "exchange"
  BY <1>1 DEF Fail, Told, IsExchange
<1>2. CASE j.kind = "apply"
  BY <1>2 DEF Fail, Told
<1>3. CASE j.kind = "lookup"
  BY <1>3 DEF Fail, Told
<1> QED BY <1>1, <1>2, <1>3, JobKinds

\* A lookup never waits for a COMMIT.
NoLookupRuns == running # Idle => running.job.kind # "lookup"

LEMMA WorkerSplits ==
  ASSUME TypeOK, NoLookupRuns, WorkerStep
  PROVE  TakesJob \/ EndsJob \/ CommitRunning \/ RollbackRunning
<1>0. UNCHANGED <<parties, view, agreed, verdicts>>
  BY DEF WorkerStep, RunExchange, RunApply, RunLookup, JobFails, CommitRunning,
         RollbackRunning, ReplyCommitted, ReplyUnknown
<1>1. CASE RunExchange
  <2> DEFINE j == Head(queue)
             r == j.request
  <2>1. /\ running = Idle /\ queue # <<>> /\ queue' = Tail(queue) /\ Unlocked(j)
        /\ UNCHANGED <<stored, receipts, orphans>> /\ j.kind = "exchange"
    BY <1>1 DEF RunExchange, db
  <2>2. CASE ExchangeResult(r) = "Success"
    BY <1>1, <2>1, <2>2 DEF RunExchange, TakesJob, Begins
  <2>3. CASE ExchangeResult(r) = "Recorded"
    <3>1. HasReceipt(r.id)
      BY <2>3 DEF ExchangeResult, ApplyTrade
    <3>2. FulfilExchange(r, Answer("Success", StatesOf(r))) /\ running' = Idle
      BY <1>1, <2>1, <2>3 DEF RunExchange
    <3> QED BY <1>0, <2>1, <3>1, <3>2 DEF TakesJob, Told, IsExchange
  <2>4. CASE ExchangeResult(r) \in {"Stale", "Full"}
    <3>1. ~HasReceipt(r.id)
      BY <2>4 DEF ExchangeResult
    <3>2. FulfilExchange(r, Answer(ExchangeResult(r), StatesOf(r))) /\ running' = Idle
      BY <1>1, <2>1, <2>4 DEF RunExchange
    <3> QED BY <1>0, <2>1, <2>4, <3>1, <3>2 DEF TakesJob, Told, IsExchange
  <2> QED BY <1>0, <2>2, <2>3, <2>4 DEF ExchangeResult, ApplyTrade
<1>2. CASE RunApply
  <2> DEFINE j == Head(queue)
  <2>1. /\ running = Idle /\ queue # <<>> /\ queue' = Tail(queue) /\ Unlocked(j)
        /\ UNCHANGED <<stored, receipts, orphans>> /\ j.kind = "apply" /\ ~IsExchange(j)
    BY <1>2 DEF RunApply, db, IsExchange
  <2>2. \/ FulfilRequest(j, Loaded(stored[j.owner])) /\ running' = Idle
        \/ running' = [job |-> j, outcome |-> "open"] /\ UNCHANGED <<trades, session>>
    BY <1>2, <2>1 DEF RunApply
  <2> QED BY <1>0, <2>1, <2>2 DEF TakesJob, Told, Begins
<1>3. CASE RunLookup
  BY <1>0, <1>3 DEF RunLookup, TakesJob, Told, db
<1>4. CASE JobFails
  <2>1. Head(queue) \in Job
    BY <1>4, RunningType DEF JobFails
  <2> QED BY <1>0, <1>4, <2>1, FailTold DEF JobFails, TakesJob, db
<1>5. CASE ReplyCommitted
  <2> DEFINE j == running.job
  <2>1. /\ running # Idle /\ running' = Idle /\ running.outcome = "committed"
        /\ UNCHANGED <<stored, receipts, orphans, queue>> /\ j \in Job /\ Succeed(j)
        /\ j.kind \in {"exchange", "apply"}
    BY <1>5, RunningType, JobKinds DEF ReplyCommitted, NoLookupRuns, db
  <2>2. CASE j.kind = "exchange"
    <3>1. FulfilExchange(j.request, Answer("Success", StatesOf(j.request)))
      BY <2>1, <2>2 DEF Succeed
    <3>2. Told(j)
      BY <2>1, <2>2, <3>1 DEF Told, IsExchange
    <3> QED BY <1>0, <2>1, <3>2 DEF EndsJob
  <2>3. CASE j.kind # "exchange"
    <3>1. FulfilRequest(j, Loaded(stored[j.owner]))
      BY <2>1, <2>3 DEF Succeed
    <3> QED BY <1>0, <2>1, <2>3, <3>1 DEF EndsJob, Told
  <2> QED BY <2>2, <2>3
<1>6. CASE ReplyUnknown
  <2>1. running.job \in Job
    BY <1>6, RunningType DEF ReplyUnknown
  <2> QED BY <1>0, <1>6, <2>1, FailTold DEF ReplyUnknown, EndsJob
<1> QED BY <1>0, <1>1, <1>2, <1>3, <1>4, <1>5, <1>6 DEF WorkerStep

QuietPending ==
  \A t \in TradeIds :
    /\ trades[t].pending = Pending => trades'[t].pending = Pending
    /\ trades'[t].pending # NoPending =>
         trades'[t].pending = trades[t].pending /\ trades'[t].stage = "Committing"

Quiet == NoExchangeMoves /\ QuietPending

LEMMA CancelQuiet ==
  ASSUME NEW c, TypeOK, WaitInv, Cancel(c)
  PROVE  QuietPending
<1> SUFFICES ASSUME NEW t \in TradeIds
             PROVE  /\ trades[t].pending = Pending => trades'[t].pending = Pending
                    /\ trades'[t].pending # NoPending =>
                         /\ trades'[t].pending = trades[t].pending
                         /\ trades'[t].stage = "Committing"
  BY DEF QuietPending
<1>1. CASE t \in Cancellable(c)
  <2>1. trades'[t] = End(t) /\ trades[t].stage # "Committing" /\ trades[t] \in TradeRecord
    BY <1>1 DEF Cancel, Cancellable, TypeOK
  <2>2. trades[t].pending = NoPending /\ trades'[t].pending = trades[t].pending
    BY <2>1 DEF End, TradeRecord, WaitInv
  <2> QED BY <2>2 DEF Pending, NoPending
<1>2. CASE t \notin Cancellable(c)
  BY <1>2 DEF Cancel, WaitInv
<1> QED BY <1>1, <1>2

LEMMA EndTradeQuiet ==
  ASSUME NEW t \in TradeIds, TypeOK, WaitInv, EndTrade(t),
         trades[t].stage \in {"Invited", "Editing"}
  PROVE  QuietPending
<1>1. trades'[t] = End(t) /\ trades[t].pending = NoPending /\ trades[t] \in TradeRecord
      /\ \A u \in TradeIds : u # t => trades'[u] = trades[u]
  BY DEF EndTrade, TypeOK, WaitInv
<1>2. trades'[t].pending = NoPending
  BY <1>1 DEF End, TradeRecord
<1> QED BY <1>1, <1>2 DEF QuietPending, WaitInv, Pending, NoPending

LEMMA SessionStepQuiet == TypeOK /\ WaitInv /\ SessionStep => Quiet
<1> SUFFICES ASSUME TypeOK, WaitInv, SessionStep PROVE Quiet
  OBVIOUS
<1>1. trades' = trades \/ \E c \in Characters : Cancel(c)
  BY DEF SessionStep, Enter, Disconnect, RequestInventory, TakeDamage, RetryDamage,
         InventoryAnswered, InventoryTimeout, QueryTrade, LookupAnswered, LeaveMap
<1>2. trades' = trades => QuietPending
  BY DEF QuietPending, WaitInv
<1> QED BY <1>1, <1>2, CancelQuiet, SessionStepMovesNone DEF Quiet

LEMMA UnmovedExchanges ==
  ASSUME UNCHANGED <<db, worker>>
  PROVE  NoExchangeMoves
BY DEF NoExchangeMoves, db, worker

LEMMA HandOver ==
  ASSUME TypeInv, WaitInv, NEW t \in TradeIds,
         RetryExchange(t) \/ \E c \in Characters : LastConfirm(c, t)
  PROVE  HandsOver(t)
<1>0. TypeOK /\ trades[t] \in TradeRecord /\ (trades[t].stage # "absent" => parties[t] # <<>>)
  BY TradeTypes DEF TypeInv, KnownParties
<1>1. CASE RetryExchange(t)
  <2>1. trades'[t] = [trades[t] EXCEPT !.pending = Pending]
        /\ \A u \in TradeIds : u # t => trades'[u] = trades[u]
    BY <1>0, <1>1 DEF RetryExchange, TypeOK
  <2>2. /\ trades[t].stage = "Committing" /\ trades'[t].stage = "Committing"
        /\ trades'[t].offers = trades[t].offers /\ trades'[t].pending = Pending
        /\ trades[t].pending = NoPending
    BY <1>0, <1>1, <2>1 DEF TradeRecord, RetryExchange
  <2>3. /\ UNCHANGED <<stored, receipts, orphans, running, parties, view, verdicts>>
        /\ queue' = Append(queue, ExchangeJob(RequestOf(t)))
    BY <1>1 DEF RetryExchange, db
  <2> QED BY <1>0, <2>1, <2>2, <2>3 DEF HandsOver
<1>2. ASSUME NEW c \in Characters, LastConfirm(c, t) PROVE HandsOver(t)
  <2>1. trades' = [trades EXCEPT ![t].stage = "Committing", ![t].confirmed = Sides,
                              ![t].revision = @ + 1,
                              ![t].pending = IF QueueHasRoom THEN Pending ELSE @]
        /\ trades[t].stage = "Editing"
    BY <1>2 DEF LastConfirm, Negotiating
  <2>2. trades'[t] = [trades[t] EXCEPT !.stage = "Committing", !.confirmed = Sides,
                              !.revision = @ + 1,
                              !.pending = IF QueueHasRoom THEN Pending ELSE @]
        /\ \A u \in TradeIds : u # t => trades'[u] = trades[u]
    BY <1>0, <2>1 DEF TypeOK
  <2>3. /\ trades'[t].stage = "Committing" /\ trades'[t].offers = trades[t].offers
        /\ trades'[t].pending = IF QueueHasRoom THEN Pending ELSE trades[t].pending
    BY <1>0, <2>2 DEF TradeRecord
  <2>4. /\ UNCHANGED <<stored, receipts, orphans, running, parties, view, verdicts>>
        /\ queue' = IF QueueHasRoom THEN Append(queue, ExchangeJob(RequestOf(t))) ELSE queue
    BY <1>2 DEF LastConfirm, db
  <2>5. trades[t].pending = NoPending
    BY <2>1 DEF WaitInv
  <2> QED BY <1>0, <2>1, <2>2, <2>3, <2>4, <2>5 DEF HandsOver
<1> QED BY <1>1, <1>2

LEMMA HandleTradeSplits ==
  ASSUME TypeInv, WaitInv, HandleTrade
  PROVE  Quiet \/ \E t \in TradeIds : HandsOver(t)
<1>0. TypeOK
  BY DEF TypeInv
<1>1. ASSUME NEW x \in Characters, NEW y \in Characters, NEW t \in TradeIds, Invite(x, y, t)
      PROVE  Quiet
  <2>1. trades[t].stage = "absent" /\ trades[t].pending = NoPending
    BY <1>0, <1>1, InviteOpens DEF TypeInv, KnownParties, WaitInv
  <2> QED BY <1>0, <1>1, <2>1, InviteOpens, UnmovedExchanges
      DEF Quiet, QuietPending, WaitInv, Pending, NoPending
<1>2. ASSUME NEW c \in Characters, NEW t \in TradeIds, ReadState(c, t)
      PROVE  Quiet
  BY <1>2, UnmovedExchanges DEF ReadState, Quiet, QuietPending, WaitInv
<1>3. ASSUME NEW c \in Characters, NEW t \in TradeIds,
             \/ Accept(c, t) \/ \E goods \in SUBSET Goods : Offer(c, t, goods)
             \/ FirstConfirm(c, t)
      PROVE  Quiet
  <2>1. trades[t].stage \in {"Invited", "Editing"}
        /\ \A u \in TradeIds : u # t => trades'[u] = trades[u]
    BY <1>0, <1>3, NegotiationBumps
  <2>2. trades[t].pending = NoPending /\ trades[t] \in TradeRecord
    BY <1>0, <2>1, TradeTypes DEF WaitInv
  <2>3. trades'[t].pending = trades[t].pending
    <3>1. CASE Accept(c, t)
      BY <1>0, <2>2, <3>1 DEF Accept, TypeOK, TradeRecord
    <3>2. ASSUME NEW goods \in SUBSET Goods, Offer(c, t, goods)
          PROVE  trades'[t].pending = trades[t].pending
      BY <1>0, <2>2, <3>2 DEF Offer, TypeOK, TradeRecord
    <3>3. CASE FirstConfirm(c, t)
      BY <1>0, <2>2, <3>3 DEF FirstConfirm, TypeOK, TradeRecord
    <3> QED BY <1>3, <3>1, <3>2, <3>3
  <2>4. NoExchangeMoves
    BY <1>3, UnmovedExchanges DEF Accept, Offer, FirstConfirm
  <2> QED BY <2>1, <2>2, <2>3, <2>4 DEF Quiet, QuietPending, WaitInv, Pending, NoPending
<1>4. ASSUME NEW c \in Characters, NEW t \in TradeIds, CancelRequest(c, t) \/ FoundApart(c, t)
      PROVE  Quiet
  BY <1>0, <1>4, EndTradeQuiet, UnmovedExchanges DEF CancelRequest, FoundApart, Quiet
<1> QED BY <1>1, <1>2, <1>3, <1>4, HandOver DEF HandleTrade

LEMMA UpdateTradeSplits ==
  ASSUME TypeInv, WaitInv, UpdateTrade
  PROVE  Quiet \/ \E t \in TradeIds : HandsOver(t)
<1>0. TypeOK
  BY DEF TypeInv
<1>1. ASSUME NEW t \in TradeIds, ExchangeAnswered(t) \/ EraseTrade(t)
      PROVE  Quiet
  <2>1. NoExchangeMoves /\ trades[t] \in TradeRecord
    BY <1>0, <1>1, TradeTypes, UnmovedExchanges DEF ExchangeAnswered, EraseTrade
  <2>2. \A u \in TradeIds : u # t => trades'[u] = trades[u]
    BY <1>0, <1>1 DEF ExchangeAnswered, EraseTrade, KeepAsking, Settle, TypeOK
  <2>3. trades'[t].pending = NoPending /\ trades[t].pending # Pending
    <3>1. CASE EraseTrade(t)
      BY <1>0, <3>1 DEF EraseTrade, Absent, TypeOK, WaitInv, Pending, NoPending
    <3>2. CASE ExchangeAnswered(t) /\ KeepAsking(t)
      BY <1>0, <2>1, <3>2 DEF ExchangeAnswered, KeepAsking, TypeOK, TradeRecord
    <3>3. CASE ExchangeAnswered(t) /\ Settle(t)
      BY <1>0, <2>1, <3>3 DEF ExchangeAnswered, Settle, TypeOK, TradeRecord
    <3> QED BY <1>1, <3>1, <3>2, <3>3 DEF ExchangeAnswered
  <2> QED BY <2>1, <2>2, <2>3 DEF Quiet, QuietPending, WaitInv
<1>2. ASSUME NEW t \in TradeIds, ExpireTrade(t)
      PROVE  Quiet
  BY <1>0, <1>2, EndTradeQuiet, UnmovedExchanges DEF ExpireTrade, Quiet
<1> QED BY <1>1, <1>2, HandOver DEF UpdateTrade

\* Every step is one of these.
LEMMA StepSplits ==
  ASSUME TypeInv, WaitInv, NoLookupRuns, [Next]_vars
  PROVE  \/ Quiet \/ \E t \in TradeIds : HandsOver(t)
         \/ TakesJob \/ EndsJob \/ CommitRunning \/ RollbackRunning
         \/ \E j \in orphans : OrphanCommits(j) \/ OrphanRollsBack(j)
         \/ Crash
<1>1. UNCHANGED vars => Quiet
  BY DEF vars, Quiet, QuietPending, WaitInv, NoExchangeMoves
<1> QED BY <1>1, SessionStepQuiet, HandleTradeSplits, UpdateTradeSplits, WorkerSplits
    DEF Next, DatabaseStep, TypeInv

LEMMA ExchangeShape ==
  ASSUME NEW j \in Job, j.kind = "exchange"
  PROVE  j = ExchangeJob(j.request) /\ j.request \in Request
BY DEF ExchangeJob, Job

LEMMA SameExchange ==
  ASSUME NEW r, NEW q
  PROVE  /\ ExchangeJob(r) = ExchangeJob(q) => r = q
         /\ IsExchange(ExchangeJob(r)) /\ ExchangeJob(r).request = r
BY DEF ExchangeJob, IsExchange

\* A request is recorded when its own transaction commits.
LEMMA EffectRecords ==
  ASSUME NEW j \in Job, Effect(j)
  PROVE  receipts' = IF IsExchange(j) THEN receipts \cup {j.request} ELSE receipts
BY DEF Effect, IsExchange

LEMMA RequestedBefore ==
  ASSUME TypeOK, NEW r \in Request, Requested(r)',
         \/ NoExchangeMoves \/ TakesJob \/ EndsJob \/ CommitRunning \/ RollbackRunning
         \/ \E j \in orphans : OrphanCommits(j) \/ OrphanRollsBack(j)
         \/ Crash
  PROVE  Requested(r)
<1>1. CASE NoExchangeMoves
  BY <1>1, SameExchange DEF NoExchangeMoves, Requested
<1>2. CASE TakesJob
  <2>1. /\ 1 \in DOMAIN queue /\ Head(queue) = queue[1]
        /\ \A i \in DOMAIN queue' : i + 1 \in DOMAIN queue /\ queue'[i] = queue[i + 1]
    BY <1>2, TailJobs DEF TakesJob
  <2>2. running' # Idle => running'.job = Head(queue)
    BY <1>2 DEF TakesJob, Begins
  <2> QED BY <1>2, <2>1, <2>2 DEF TakesJob, Requested
<1>3. CASE EndsJob
  BY <1>3 DEF EndsJob, Requested
<1>4. CASE CommitRunning
  <2>1. running.job \in Job /\ Effect(running.job) /\ running # Idle
    BY <1>4, RunningType DEF CommitRunning
  <2>2. r \in receipts' => r \in receipts \/ running.job = ExchangeJob(r)
    BY <2>1, EffectRecords, ExchangeShape DEF IsExchange
  <2>3. running' # Idle => running'.job = running.job
    BY <1>4 DEF CommitRunning, TypeOK
  <2> QED BY <1>4, <2>1, <2>2, <2>3 DEF CommitRunning, Requested
<1>5. CASE RollbackRunning
  <2>1. running # Idle /\ (running' # Idle => running'.job = running.job)
    BY <1>5 DEF RollbackRunning, TypeOK
  <2> QED BY <1>5, <2>1 DEF RollbackRunning, Requested, db
<1>6. ASSUME NEW j \in orphans, OrphanCommits(j) \/ OrphanRollsBack(j)
      PROVE  Requested(r)
  <2>1. j \in Job
    BY DEF TypeOK
  <2>2. receipts' = receipts \/ Effect(j)
    BY <1>6 DEF OrphanCommits, OrphanRollsBack
  <2>3. r \in receipts' => r \in receipts \/ j = ExchangeJob(r)
    BY <2>1, <2>2, EffectRecords, ExchangeShape DEF IsExchange
  <2> QED BY <1>6, <2>3 DEF OrphanCommits, OrphanRollsBack, Requested, worker
<1>7. CASE Crash
  BY <1>7 DEF Crash, OpenJobs, Requested
<1> QED BY <1>1, <1>2, <1>3, <1>4, <1>5, <1>6, <1>7

LEMMA ConfirmedInvNext ==
  ASSUME TypeInv, WaitInv, NoLookupRuns, ViewInv, ConfirmInv, ConfirmedInv, [Next]_vars
  PROVE  ConfirmedInv'
<1>0. TypeOK /\ ConfirmInv'
  BY ConfirmInvNext DEF TypeInv
<1> SUFFICES ASSUME NEW r \in Request, Requested(r)' PROVE AsConfirmed(r)'
  BY DEF ConfirmedInv
<1>1. CASE Requested(r)
  BY <1>1, AsConfirmedStays DEF ConfirmedInv
<1>2. ASSUME NEW t \in TradeIds, HandsOver(t), ~Requested(r)
      PROVE  AsConfirmed(r)'
  <2>1. RequestOf(t) \in Request
    BY <1>0, <1>2, RequestTypes DEF HandsOver
  <2>2. \E i \in DOMAIN queue' : queue'[i] = ExchangeJob(r)
    BY <1>2 DEF HandsOver, Requested
  <2>3. queue' = Append(queue, ExchangeJob(RequestOf(t)))
    BY <1>2, <2>2 DEF HandsOver, Requested
  <2>4. ExchangeJob(r) = ExchangeJob(RequestOf(t))
    BY <1>0, <1>2, <2>1, <2>2, <2>3, AppendJobs, JobTypes DEF Requested
  <2>5. r = [id |-> t, chars |-> parties[t], offers |-> trades[t].offers]
    BY <2>4, SameExchange DEF RequestOf
  <2>6. /\ \A s \in Sides : agreed'[t][s] = trades'[t].offers
        /\ \E s \in Sides : trades'[t].offers[s].goods # {}
    BY <1>0, <1>2 DEF ConfirmInv, HandsOver
  <2> QED BY <1>2, <2>5, <2>6 DEF AsConfirmed, HandsOver
<1> QED BY <1>0, <1>1, <1>2, StepSplits, RequestedBefore DEF Quiet

LEMMA NoLookupRunsNext ==
  ASSUME TypeOK, NoLookupRuns, [Next]_vars
  PROVE  NoLookupRuns'
<1>1. CASE SessionStep
  <2>1. PICK c \in Characters :
          \/ running' = running
          \/ running' = IF running = Idle THEN Idle
                        ELSE [running EXCEPT !.job = Abandon(@, c)]
          \/ running' = IF running = Idle THEN Idle
                        ELSE [running EXCEPT !.job = AbandonRequest(@, c)]
    BY <1>1 DEF SessionStep, Enter, Disconnect, RequestInventory, TakeDamage, RetryDamage,
                InventoryAnswered, InventoryTimeout, QueryTrade, LookupAnswered, LeaveMap,
                worker
  <2>2. CASE running = Idle
    BY <2>1, <2>2 DEF NoLookupRuns
  <2>3. CASE running # Idle
    <3>1. running.job \in Job /\ running.job.kind # "lookup"
      BY <2>3, RunningType DEF NoLookupRuns
    <3>2. Abandon(running.job, c).kind = running.job.kind
          /\ AbandonRequest(running.job, c).kind = running.job.kind
      BY <3>1 DEF Abandon, AbandonRequest, Job
    <3>3. running'.job \in {running.job, Abandon(running.job, c),
                            AbandonRequest(running.job, c)}
      BY <2>1, <2>3 DEF TypeOK
    <3> QED BY <3>1, <3>2, <3>3 DEF NoLookupRuns
  <2> QED BY <2>2, <2>3
<1>2. CASE HandleTrade \/ UpdateTrade \/ DatabaseStep \/ UNCHANGED vars
  <2>1. HandleTrade => running' = running
    <3>1. ASSUME NEW x, NEW y, NEW t, Invite(x, y, t) PROVE running' = running
      BY <3>1 DEF Invite, worker
    <3>2. ASSUME NEW c, NEW t,
                 \/ ReadState(c, t) \/ Accept(c, t)
                 \/ \E goods \in SUBSET Goods : Offer(c, t, goods)
                 \/ FirstConfirm(c, t) \/ LastConfirm(c, t)
                 \/ CancelRequest(c, t) \/ FoundApart(c, t)
          PROVE  running' = running
      BY <3>2 DEF ReadState, Accept, Offer, FirstConfirm, LastConfirm, CancelRequest,
                  FoundApart, worker
    <3> QED BY <3>1, <3>2 DEF HandleTrade
  <2>2. UpdateTrade \/ DatabaseStep \/ UNCHANGED vars => running' = running
    BY DEF UpdateTrade, RetryExchange, ExchangeAnswered, ExpireTrade, EraseTrade,
           DatabaseStep, OrphanCommits, OrphanRollsBack, vars, worker
  <2> QED BY <1>2, <2>1, <2>2 DEF NoLookupRuns
<1>3. CASE WorkerStep
  <2>1. running' = Idle \/ (running' # Idle => running'.job.kind # "lookup")
    <3>1. CASE TakesJob
      BY <3>1 DEF TakesJob, Begins
    <3>2. CASE EndsJob
      BY <3>2 DEF EndsJob
    <3>3. CASE CommitRunning \/ RollbackRunning
      BY <3>3 DEF CommitRunning, RollbackRunning, NoLookupRuns, TypeOK
    <3> QED BY <1>3, <3>1, <3>2, <3>3, WorkerSplits
  <2> QED BY <2>1 DEF NoLookupRuns
<1>4. CASE Crash
  BY <1>4 DEF Crash, NoLookupRuns
<1> QED BY <1>1, <1>2, <1>3, <1>4 DEF Next

LEMMA ExchangeIds ==
  ASSUME TypeOK
  PROVE  /\ \A i \in DOMAIN queue : IsExchange(queue[i]) =>
              queue[i].request \in Request /\ queue[i].request.id \in TradeIds
         /\ running # Idle /\ IsExchange(running.job) =>
              running.job.request \in Request /\ running.job.request.id \in TradeIds
         /\ \A j \in orphans : IsExchange(j) =>
              j.request \in Request /\ j.request.id \in TradeIds
         /\ \A r \in receipts : r \in Request /\ r.id \in TradeIds
<1>1. \A j \in Job : IsExchange(j) => j.request \in Request
  BY JobKinds DEF IsExchange
<1>2. \A r \in Request : r.id \in TradeIds
  BY DEF Request
<1> QED BY <1>1, <1>2, QueueJobs DEF TypeOK

\* An answer ends the wait of the trade it is for, and of no other.
LEMMA AnswerPending ==
  ASSUME TypeOK, NEW j \in Job, Told(j)
  PROVE  /\ ~IsExchange(j) => trades' = trades
         /\ IsExchange(j) =>
              \E result \in {"Success", "Stale", "Full", "StorageError"} :
                /\ trades'[j.request.id] = [trades[j.request.id] EXCEPT
                                              !.pending = Answer(result, StatesOf(j.request))]
                /\ trades'[j.request.id].stage = trades[j.request.id].stage
                /\ trades'[j.request.id].pending = Answer(result, StatesOf(j.request))
                /\ session' = session
                /\ result = "Success" =>
                     \/ HasReceipt(j.request.id)
                     \/ running # Idle /\ running.job = j /\ running.outcome = "committed"
                /\ result \in {"Stale", "Full"} =>
                     ~HasReceipt(j.request.id) /\ Unlocked(j) /\ running = Idle
         /\ \A t \in TradeIds : (IsExchange(j) => t # j.request.id) => trades'[t] = trades[t]
<1>1. CASE IsExchange(j)
  <2>1. j.request.id \in TradeIds /\ trades[j.request.id] \in TradeRecord
    BY <1>1, JobKinds, TradeTypes DEF IsExchange, Request
  <2>2. PICK result \in {"Success", "Stale", "Full", "StorageError"} :
          /\ FulfilExchange(j.request, Answer(result, StatesOf(j.request)))
          /\ result = "Success" =>
               \/ HasReceipt(j.request.id)
               \/ running # Idle /\ running.job = j /\ running.outcome = "committed"
          /\ result \in {"Stale", "Full"} =>
               ~HasReceipt(j.request.id) /\ Unlocked(j) /\ running = Idle
    BY <1>1 DEF Told, IsExchange
  <2>3. /\ session' = session
        /\ trades'[j.request.id] = [trades[j.request.id] EXCEPT
                                      !.pending = Answer(result, StatesOf(j.request))]
        /\ \A t \in TradeIds : t # j.request.id => trades'[t] = trades[t]
    BY <2>1, <2>2 DEF FulfilExchange, TypeOK
  <2>4. /\ trades'[j.request.id].stage = trades[j.request.id].stage
        /\ trades'[j.request.id].pending = Answer(result, StatesOf(j.request))
    BY <2>1, <2>3 DEF TradeRecord
  <2> QED BY <1>1, <2>2, <2>3, <2>4
<1>2. CASE ~IsExchange(j)
  BY <1>2 DEF Told, FulfilRequest, FulfilLookup
<1> QED BY <1>1, <1>2

LEMMA WaitInvNext ==
  ASSUME TypeInv, NoLookupRuns, WaitInv, AloneInv, [Next]_vars
  PROVE  WaitInv'
<1>0. TypeOK
  BY DEF TypeInv
<1>1. CASE Quiet
  BY <1>1 DEF Quiet, QuietPending, WaitInv
<1>2. ASSUME NEW t \in TradeIds, HandsOver(t) PROVE WaitInv'
  BY <1>2 DEF HandsOver, WaitInv
<1>3. ASSUME NEW j \in Job, Told(j),
             IsExchange(j) => trades[j.request.id].pending = Pending
      PROVE  WaitInv'
  <2> SUFFICES ASSUME NEW t \in TradeIds, trades'[t].pending # NoPending
               PROVE  trades'[t].stage = "Committing"
    BY DEF WaitInv
  <2>1. CASE IsExchange(j) /\ t = j.request.id
    <3>1. trades'[t].stage = trades[t].stage
      BY <1>0, <1>3, <2>1, AnswerPending
    <3>2. trades[t].stage = "Committing"
      BY <1>3, <2>1 DEF WaitInv, Pending, NoPending
    <3> QED BY <3>1, <3>2
  <2>2. CASE IsExchange(j) => t # j.request.id
    <3>1. trades'[t] = trades[t]
      BY <1>0, <1>3, <2>2, AnswerPending
    <3> QED BY <3>1 DEF WaitInv
  <2> QED BY <2>1, <2>2
<1>4. CASE TakesJob
  <2>1. Head(queue) = queue[1] /\ 1 \in DOMAIN queue /\ queue[1] \in Job
    BY <1>0, <1>4, TailJobs, QueueJobs DEF TakesJob
  <2>2. CASE trades' = trades
    BY <2>2 DEF WaitInv
  <2> QED BY <1>3, <1>4, <2>1, <2>2 DEF TakesJob, Begins, AloneInv
<1>5. CASE EndsJob
  BY <1>0, <1>3, <1>5, RunningType DEF EndsJob, AloneInv
<1>6. CASE CommitRunning \/ RollbackRunning
           \/ \E j \in orphans : OrphanCommits(j) \/ OrphanRollsBack(j)
  <2>1. trades' = trades
    BY <1>6 DEF CommitRunning, RollbackRunning, OrphanCommits, OrphanRollsBack
  <2> QED BY <2>1 DEF WaitInv
<1>7. CASE Crash
  BY <1>7 DEF Crash, WaitInv, Absent
<1> QED BY <1>1, <1>2, <1>4, <1>5, <1>6, <1>7, StepSplits

LEMMA AloneInvNext ==
  ASSUME TypeInv, NoLookupRuns, WaitInv, AloneInv, [Next]_vars
  PROVE  AloneInv'
<1>0. TypeOK
  BY DEF TypeInv
<1>1. CASE Quiet
  <2>1. /\ \A i \in DOMAIN queue' : IsExchange(queue'[i]) =>
             i \in DOMAIN queue /\ queue'[i] = queue[i] /\ queue[i].request.id \in TradeIds
        /\ running' # Idle /\ IsExchange(running'.job) =>
             running' = running /\ running.job.request.id \in TradeIds
    BY <1>0, <1>1, ExchangeIds DEF Quiet, NoExchangeMoves
  <2>2. \A t \in TradeIds : trades[t].pending = Pending => trades'[t].pending = Pending
    BY <1>1 DEF Quiet, QuietPending
  <2> QED BY <2>1, <2>2 DEF AloneInv
<1>2. ASSUME NEW t \in TradeIds, HandsOver(t) PROVE AloneInv'
  <2>1. /\ \A i \in DOMAIN queue : IsExchange(queue[i]) => queue[i].request.id \in TradeIds \ {t}
        /\ running # Idle /\ IsExchange(running.job) => running.job.request.id \in TradeIds \ {t}
    BY <1>0, <1>2, ExchangeIds DEF AloneInv, HandsOver, Pending, NoPending
  <2>2. \A u \in TradeIds : u # t => trades'[u] = trades[u]
    BY <1>2 DEF HandsOver
  <2>3. CASE queue' = queue
    BY <1>2, <2>1, <2>2, <2>3 DEF AloneInv, HandsOver
  <2>4. CASE queue' = Append(queue, ExchangeJob(RequestOf(t))) /\ trades'[t].pending = Pending
    <3> DEFINE n == Len(queue) + 1
    <3>1. RequestOf(t) \in Request
      BY <1>0, <1>2, RequestTypes DEF HandsOver
    <3>2. /\ DOMAIN queue' = DOMAIN queue \cup {n} /\ n \notin DOMAIN queue
          /\ \A i \in DOMAIN queue : queue'[i] = queue[i]
          /\ queue'[n] = ExchangeJob(RequestOf(t))
      BY <1>0, <2>4, <3>1, JobTypes, AppendJobs
    <3>3. queue'[n].request.id = t /\ running' = running
      BY <1>2, <3>2 DEF ExchangeJob, RequestOf, HandsOver
    <3> HIDE DEF n
    <3>4. \A i \in DOMAIN queue' : IsExchange(queue'[i]) =>
            IF i = n THEN queue'[i].request.id = t
                     ELSE i \in DOMAIN queue /\ queue'[i] = queue[i] /\ queue[i].request.id \in TradeIds \ {t}
      BY <2>1, <3>2, <3>3
    <3> QED BY <2>1, <2>2, <2>4, <3>3, <3>4 DEF AloneInv
  <2> QED BY <1>2, <2>3, <2>4 DEF HandsOver
<1>4. CASE TakesJob
  <2>1. /\ Head(queue) = queue[1] /\ 1 \in DOMAIN queue /\ queue[1] \in Job
        /\ \A i \in DOMAIN queue' : /\ i + 1 \in DOMAIN queue /\ i + 1 # 1
                                    /\ i \in Nat /\ queue'[i] = queue[i + 1]
    BY <1>0, <1>4, TailJobs, QueueJobs DEF TakesJob
  <2>2. \A i, k \in DOMAIN queue' : i + 1 = k + 1 => i = k
    BY <2>1
  <2>3. \A i \in DOMAIN queue' : IsExchange(queue'[i]) =>
          /\ queue'[i].request.id \in TradeIds
          /\ trades[queue'[i].request.id].pending = Pending
          /\ IsExchange(queue[1]) => queue'[i].request.id # queue[1].request.id
    BY <1>0, <2>1, ExchangeIds DEF AloneInv
  <2>4. \A i, k \in DOMAIN queue' :
          /\ IsExchange(queue'[i]) /\ IsExchange(queue'[k])
          /\ queue'[i].request.id = queue'[k].request.id
          => i = k
    BY <2>1, <2>2 DEF AloneInv
  <2>5. CASE Begins(Head(queue))
    <3>1. running'.job = queue[1] /\ trades' = trades
      BY <2>1, <2>5 DEF Begins
    <3> QED BY <2>1, <2>3, <2>4, <3>1 DEF AloneInv
  <2>6. CASE running' = Idle /\ Told(Head(queue))
    <3>1. \A t \in TradeIds : (IsExchange(queue[1]) => t # queue[1].request.id) => trades'[t] = trades[t]
      BY <1>0, <2>1, <2>6, AnswerPending
    <3> QED BY <2>3, <2>4, <2>6, <3>1 DEF AloneInv
  <2> QED BY <1>4, <2>5, <2>6 DEF TakesJob
<1>5. CASE EndsJob
  <2>1. running.job \in Job /\ running' = Idle /\ queue' = queue /\ Told(running.job) /\ running # Idle
    BY <1>0, <1>5, RunningType DEF EndsJob
  <2>2. \A t \in TradeIds : (IsExchange(running.job) => t # running.job.request.id) => trades'[t] = trades[t]
    BY <1>0, <2>1, AnswerPending
  <2>3. \A i \in DOMAIN queue : IsExchange(queue[i]) => queue[i].request.id \in TradeIds
    BY <1>0, ExchangeIds
  <2> QED BY <2>1, <2>2, <2>3 DEF AloneInv
<1>6. CASE CommitRunning \/ RollbackRunning
           \/ \E j \in orphans : OrphanCommits(j) \/ OrphanRollsBack(j)
  <2>1. trades' = trades /\ queue' = queue /\ (running' # Idle => running # Idle /\ running'.job = running.job)
    BY <1>0, <1>6 DEF CommitRunning, RollbackRunning, OrphanCommits, OrphanRollsBack, worker, TypeOK
  <2> QED BY <2>1 DEF AloneInv
<1>7. CASE Crash
  BY <1>7 DEF Crash, AloneInv
<1> QED BY <1>1, <1>2, <1>4, <1>5, <1>6, <1>7, StepSplits

(***************************************************************************)
(* How a trade ends.  Nothing brings a trade back that nobody is waiting   *)
(* for and no transaction has under way, and a record is never taken back. *)
(***************************************************************************)

Untouched(t) == ~HasReceipt(t) /\ ~TransactionOpen(t)
Dead(t) == parties[t] # <<>> /\ ~Open(t) /\ Untouched(t)

ExchangeInv ==
  TypeInv /\ NoLookupRuns /\ WaitInv /\ AloneInv /\ ViewInv /\ ConfirmInv /\ ConfirmedInv

LEMMA ExchangeInvInductive ==
  /\ Init => ExchangeInv
  /\ ExchangeInv /\ [Next]_vars => ExchangeInv'
<1>1. ASSUME Init PROVE ExchangeInv
  <2>1. TypeInv
    BY <1>1, TradeInvInductive DEF TradeInv
  <2>2. \A t \in TradeIds : trades[t].stage = "absent" /\ trades[t].pending = NoPending
    BY <1>1 DEF Init, Absent
  <2>3. running = Idle /\ queue = <<>> /\ receipts = {} /\ orphans = {}
        /\ \A c \in Characters : view[c] = NoView
    BY <1>1 DEF Init
  <2>4. NoLookupRuns /\ WaitInv /\ AloneInv /\ ViewInv /\ ConfirmInv
    BY <2>2, <2>3 DEF NoLookupRuns, WaitInv, AloneInv, ViewInv, ConfirmInv
  <2>5. ConfirmedInv
    BY <2>3 DEF ConfirmedInv, Requested
  <2> QED BY <2>1, <2>4, <2>5 DEF ExchangeInv
<1>2. ASSUME ExchangeInv, [Next]_vars PROVE ExchangeInv'
  <2>1. TypeOK' /\ TypeOK
    BY <1>2, NextType DEF ExchangeInv, TypeInv
  <2>2. TypeInv'
    <3>1. CASE OnlyCloses
      BY <1>2, <2>1, <3>1 DEF ExchangeInv, TypeInv, OnlyCloses, KnownParties
    <3>2. ASSUME NEW x \in Characters, NEW y \in Characters, NEW t \in TradeIds, Invite(x, y, t)
          PROVE  TypeInv'
      BY <1>2, <2>1, <3>2, InviteOpens DEF ExchangeInv, TypeInv, KnownParties
    <3> QED BY <1>2, <2>1, <3>1, <3>2, StepCloses DEF ExchangeInv, TypeInv
  <2> QED BY <1>2, <2>1, <2>2, NoLookupRunsNext, WaitInvNext, AloneInvNext, ViewInvNext,
             ConfirmInvNext, ConfirmedInvNext DEF ExchangeInv
<1> QED BY <1>1, <1>2

\* What is exchanged is what each side was looking at when it confirmed: an
\* offer changed behind a confirmation is never executed, however late the
\* exchange is carried out (TradeManager.cpp:103, TradeManager.cpp:132).
THEOREM OnlyConfirmedExchanges == Spec => []ExchangedAsConfirmed
<1>1. ExchangeInv => ExchangedAsConfirmed
  BY DEF ExchangeInv, TypeInv, TypeOK, ConfirmedInv, Requested, AsConfirmed,
         ExchangedAsConfirmed
<1> QED BY <1>1, ExchangeInvInductive, PTL DEF Spec

\* What the COMMIT of an open transaction does, by the worker or on its own.
Commits(j) ==
  /\ j \in OpenJobs /\ Effect(j)
  /\ UNCHANGED <<queue, trades, parties, session, view, agreed, verdicts>>
  /\ OpenJobs' = OpenJobs \ {j}

LEMMA OpenTypes ==
  ASSUME TypeOK
  PROVE  OpenJobs \subseteq Job
BY RunningType DEF OpenJobs, TypeOK

LEMMA OpenApart ==
  ASSUME StorageInv
  PROVE  /\ \A j, k \in OpenJobs : j # k => Apart(j, k)
         /\ RunningOpen => \A k \in orphans : Apart(running.job, k)
BY DEF StorageInv, RowsApart, OpenJobs, RunningOpen, Apart

LEMMA RowsNotEmpty ==
  ASSUME NEW j \in Job
  PROVE  ~Apart(j, j)
BY DEF Apart, RowsOf

LEMMA CommitRemoves ==
  ASSUME TypeOK, StorageInv
  PROVE  /\ CommitRunning => Commits(running.job)
         /\ \A j \in orphans : OrphanCommits(j) => Commits(j)
<1>1. ASSUME CommitRunning PROVE Commits(running.job)
  <2>1. RunningOpen /\ running.job \in Job /\ orphans' = orphans /\ ~RunningOpen'
    BY <1>1, RunningType DEF CommitRunning, RunningOpen, TypeOK
  <2>2. running.job \notin orphans
    BY <2>1, OpenApart, RowsNotEmpty
  <2>3. OpenJobs = orphans \cup {running.job} /\ OpenJobs' = orphans
    BY <2>1 DEF OpenJobs, RunningOpen
  <2> QED BY <1>1, <2>2, <2>3 DEF CommitRunning, Commits
<1>2. ASSUME NEW j \in orphans, OrphanCommits(j) PROVE Commits(j)
  <2>1. orphans' = orphans \ {j} /\ running' = running /\ j \in Job
    BY <1>2 DEF OrphanCommits, worker, TypeOK
  <2>2. RunningOpen => running.job # j
    BY <2>1, OpenApart, RowsNotEmpty
  <2>3. OpenJobs' = OpenJobs \ {j} /\ j \in OpenJobs
    BY <2>1, <2>2 DEF OpenJobs, RunningOpen
  <2> QED BY <1>2, <2>3 DEF OrphanCommits, Commits, worker
<1> QED BY <1>1, <1>2

\* No new exchange is under way, and nothing is made durable.
NothingNew ==
  /\ \A j \in OpenJobs' : IsExchange(j) => j \in OpenJobs
  /\ UNCHANGED <<stored, receipts>>

\* The worker begins the exchange a trade is waiting for.
Starts(t) ==
  /\ trades[t].pending = Pending /\ ~HasReceipt(t)
  /\ \A j \in OpenJobs' : IsExchange(j) => j \in OpenJobs \/ j.request.id = t
  /\ UNCHANGED <<stored, receipts, parties, verdicts, trades, session>>

LEMMA TransactionSteps ==
  ASSUME ExchangeInv, StorageInv, [Next]_vars
  PROVE  \/ NothingNew
         \/ \E j \in OpenJobs : Commits(j)
         \/ \E t \in TradeIds : Starts(t)
<1>0. TypeOK /\ TypeInv /\ NoLookupRuns /\ WaitInv /\ AloneInv
  BY DEF ExchangeInv, TypeInv
<1>1. CASE Quiet
  BY <1>1 DEF Quiet, NoExchangeMoves, NothingNew, OpenJobs
<1>2. ASSUME NEW t \in TradeIds, HandsOver(t) PROVE NothingNew
  BY <1>2 DEF HandsOver, NothingNew, OpenJobs
<1>3. CASE TakesJob
  <2>1. /\ Head(queue) = queue[1] /\ 1 \in DOMAIN queue /\ queue[1] \in Job /\ running = Idle
        /\ UNCHANGED <<stored, receipts, orphans>>
    BY <1>0, <1>3, TailJobs, QueueJobs DEF TakesJob
  <2>2. CASE running' = Idle
    BY <2>1, <2>2 DEF NothingNew, OpenJobs
  <2>3. CASE Begins(queue[1]) /\ ~IsExchange(queue[1])
    BY <2>1, <2>3 DEF NothingNew, OpenJobs, Begins
  <2>4. CASE Begins(queue[1]) /\ IsExchange(queue[1])
    <3> DEFINE t == queue[1].request.id
    <3>1. t \in TradeIds /\ trades[t].pending = Pending /\ ~HasReceipt(t)
      <4>1. ExchangeResult(queue[1].request) = "Success"
        BY <2>4 DEF Begins
      <4> QED BY <1>0, <2>1, <2>4, <4>1, ExchangeIds DEF AloneInv, ExchangeResult
    <3>2. OpenJobs' = OpenJobs \cup {queue[1]}
      BY <2>1, <2>4 DEF Begins, OpenJobs, Idle
    <3>3. UNCHANGED <<parties, verdicts>>
      BY <1>3 DEF TakesJob
    <3> QED BY <2>1, <2>4, <3>1, <3>2, <3>3 DEF Starts, Begins
  <2> QED BY <1>3, <2>1, <2>2, <2>3, <2>4 DEF TakesJob
<1>4. CASE EndsJob
  BY <1>4 DEF EndsJob, NothingNew, OpenJobs
<1>5. CASE CommitRunning
  <2>1. running.job \in OpenJobs
    BY <1>5 DEF CommitRunning, OpenJobs
  <2> QED BY <1>0, <1>5, <2>1, CommitRemoves
<1>6. CASE RollbackRunning
  <2>1. ~RunningOpen' /\ UNCHANGED <<stored, receipts, orphans>>
    BY <1>0, <1>6 DEF RollbackRunning, RunningOpen, TypeOK, db
  <2> QED BY <2>1 DEF NothingNew, OpenJobs, RunningOpen
<1>7. ASSUME NEW j \in orphans, OrphanCommits(j) PROVE \E k \in OpenJobs : Commits(k)
  BY <1>0, <1>7, CommitRemoves DEF OpenJobs
<1>8. ASSUME NEW j \in orphans, OrphanRollsBack(j) PROVE NothingNew
  BY <1>8 DEF OrphanRollsBack, NothingNew, OpenJobs, worker
<1>9. CASE Crash
  BY <1>9 DEF Crash, NothingNew, OpenJobs
<1> QED BY <1>0, <1>1, <1>2, <1>3, <1>4, <1>5, <1>6, <1>7, <1>8, <1>9, StepSplits

\* The transactions of one trade hold the rows of its two characters.
LEMMA TransactionRows ==
  ASSUME ExchangeInv, NEW j \in OpenJobs, IsExchange(j)
  PROVE  /\ j \in Job /\ j.request \in Request /\ j.request.id \in TradeIds
         /\ parties[j.request.id] # <<>> /\ j.request.chars = parties[j.request.id]
         /\ AsConfirmed(j.request)
         /\ RowsOf(j) = Members(j.request.id)
<1>1. TypeOK
  BY DEF ExchangeInv, TypeInv
<1>2. j \in Job /\ j.request \in Request /\ j = ExchangeJob(j.request)
  BY <1>1, OpenTypes, ExchangeShape DEF IsExchange
<1>3. Requested(j.request)
  BY <1>2 DEF OpenJobs, Requested
<1>4. AsConfirmed(j.request)
  BY <1>2, <1>3 DEF ExchangeInv, ConfirmedInv
<1>5. j.request.id \in TradeIds /\ j.request.chars \in Pairs
  BY <1>2 DEF Request
<1>6. j.request.chars = parties[j.request.id] /\ parties[j.request.id] # <<>>
  BY <1>4, <1>5 DEF AsConfirmed, Pairs
<1>7. RowsOf(j) = Members(j.request.id)
  BY <1>6 DEF RowsOf, Members, IsExchange
<1> QED BY <1>2, <1>4, <1>5, <1>6, <1>7

LEMMA CommitReceipts ==
  ASSUME ExchangeInv, NEW j \in OpenJobs, Commits(j), NEW t \in TradeIds
  PROVE  /\ HasReceipt(t) => HasReceipt(t)'
         /\ HasReceipt(t)' => HasReceipt(t) \/ (IsExchange(j) /\ j.request.id = t)
         /\ IsExchange(j) /\ j.request.id = t => HasReceipt(t)'
<1>1. TypeOK
  BY DEF ExchangeInv, TypeInv
<1>2. j \in Job
  BY <1>1, OpenTypes
<1> QED BY <1>2, EffectRecords DEF Commits, HasReceipt

LEMMA ReceiptStays ==
  ASSUME ExchangeInv, StorageInv, [Next]_vars, NEW t \in TradeIds, HasReceipt(t)
  PROVE  HasReceipt(t)'
BY TransactionSteps, CommitReceipts DEF NothingNew, Starts, HasReceipt

LEMMA UntouchedStays ==
  ASSUME ExchangeInv, StorageInv, [Next]_vars, NEW t \in TradeIds, Untouched(t),
         trades[t].pending # Pending
  PROVE  Untouched(t)'
<1>1. CASE NothingNew
  BY <1>1 DEF NothingNew, Untouched, HasReceipt, TransactionOpen, IsExchange
<1>2. ASSUME NEW j \in OpenJobs, Commits(j) PROVE Untouched(t)'
  <2>1. ~(IsExchange(j) /\ j.request.id = t)
    BY DEF Untouched, TransactionOpen, IsExchange
  <2>2. ~HasReceipt(t)'
    BY <1>2, <2>1, CommitReceipts DEF Untouched
  <2>3. ~TransactionOpen(t)'
    BY <1>2 DEF Commits, Untouched, TransactionOpen
  <2> QED BY <2>2, <2>3 DEF Untouched
<1>3. ASSUME NEW u \in TradeIds, Starts(u) PROVE Untouched(t)'
  BY <1>3 DEF Starts, Untouched, HasReceipt, TransactionOpen, IsExchange
<1> QED BY <1>1, <1>2, <1>3, TransactionSteps

LEMMA DeadStays ==
  ASSUME ExchangeInv, StorageInv, [Next]_vars, NEW t \in TradeIds, Dead(t)
  PROVE  Dead(t)'
<1>0. TypeOK /\ TypeInv
  BY DEF ExchangeInv, TypeInv
<1>1. trades[t].pending # Pending
  BY DEF ExchangeInv, WaitInv, Dead, Open, Pending, NoPending
<1>2. Untouched(t)'
  BY <1>1, UntouchedStays DEF Dead
<1>3. parties'[t] # <<>> /\ ~Open(t)'
  <2>1. CASE OnlyCloses
    BY <2>1 DEF OnlyCloses, Dead, Open
  <2>2. ASSUME NEW x \in Characters, NEW y \in Characters, NEW u \in TradeIds, Invite(x, y, u)
        PROVE  parties'[t] # <<>> /\ ~Open(t)'
    BY <1>0, <2>2, InviteOpens DEF Dead, Open
  <2> QED BY <1>0, <2>1, <2>2, StepCloses
<1> QED BY <1>2, <1>3 DEF Dead

\* The committed exchange is recorded, and one that is under way is not.
RecordInv ==
  /\ running # Idle /\ running.outcome = "committed" /\ IsExchange(running.job) =>
       HasReceipt(running.job.request.id)
  /\ \A j \in OpenJobs : IsExchange(j) => ~HasReceipt(j.request.id)

\* An answer says how the trade ended, and it did.
AnswerInv ==
  \A t \in TradeIds :
    /\ trades[t].pending.result = "Success" => HasReceipt(t)
    /\ trades[t].pending.result \in {"Stale", "Full"} => Untouched(t)

LEMMA RecordInvNext ==
  ASSUME ExchangeInv, StorageInv, RecordInv, [Next]_vars
  PROVE  RecordInv'
<1>0. TypeOK /\ TypeInv /\ NoLookupRuns /\ WaitInv /\ TypeOK'
  BY NextType DEF ExchangeInv, TypeInv
<1>1. ASSUME NEW t \in TradeIds, running' # Idle, running'.outcome = "committed",
             IsExchange(running'.job), running'.job.request.id = t
      PROVE  HasReceipt(t)'
  <2>1. CASE running' = running
    BY <1>0, <1>1, <2>1, ExchangeIds, ReceiptStays DEF RecordInv
  <2>2. CASE CommitRunning
    <3>1. running'.job = running.job /\ running.job \in OpenJobs /\ Commits(running.job)
      BY <1>0, <2>2, CommitRemoves DEF CommitRunning, OpenJobs, TypeOK
    <3> QED BY <1>1, <3>1, CommitReceipts
  <2>3. running' = running \/ CommitRunning
    <3>1. CASE Quiet
      BY <1>1, <3>1 DEF Quiet, NoExchangeMoves
    <3>2. CASE TakesJob
      BY <1>1, <3>2 DEF TakesJob, Begins
    <3>3. CASE RollbackRunning
      BY <1>0, <1>1, <3>3 DEF RollbackRunning, TypeOK
    <3> QED BY <1>0, <1>1, <3>1, <3>2, <3>3, StepSplits
        DEF HandsOver, EndsJob, OrphanCommits, OrphanRollsBack, Crash, worker
  <2> QED BY <2>1, <2>2, <2>3
<1>2. ASSUME NEW j \in OpenJobs', IsExchange(j)
      PROVE  ~HasReceipt(j.request.id)'
  <2>1. CASE NothingNew
    BY <1>2, <2>1 DEF NothingNew, RecordInv, HasReceipt
  <2>2. ASSUME NEW k \in OpenJobs, Commits(k) PROVE ~HasReceipt(j.request.id)'
    <3>1. j \in OpenJobs /\ j # k
      BY <2>2 DEF Commits
    <3>2. Apart(j, k) /\ RowsOf(j) = Members(j.request.id) /\ j \in Job /\ k \in Job
          /\ j.request.id \in TradeIds
      BY <1>0, <1>2, <3>1, OpenApart, OpenTypes, TransactionRows
    <3>3. ~(IsExchange(k) /\ k.request.id = j.request.id)
      BY <3>2, TransactionRows, RowsNotEmpty DEF Apart
    <3> QED BY <1>2, <2>2, <3>1, <3>2, <3>3, CommitReceipts DEF RecordInv
  <2>3. ASSUME NEW t \in TradeIds, Starts(t) PROVE ~HasReceipt(j.request.id)'
    BY <1>2, <2>3 DEF Starts, RecordInv, HasReceipt
  <2> QED BY <2>1, <2>2, <2>3, TransactionSteps
<1>3. running' # Idle /\ IsExchange(running'.job) => running'.job.request.id \in TradeIds
  <2>1. running' # Idle => running'.job \in Job
    BY <1>0 DEF TypeOK
  <2> QED BY <2>1, JobKinds DEF IsExchange, Request
<1> QED BY <1>1, <1>2, <1>3 DEF RecordInv

LEMMA AnswerTrue ==
  ASSUME ExchangeInv, StorageInv, RecordInv, AnswerInv, [Next]_vars,
         NEW j \in Job, Told(j), IsExchange(j) => Requested(j.request),
         running' = Idle, UNCHANGED <<stored, receipts, parties>>,
         running = Idle => orphans' = orphans
  PROVE  AnswerInv'
<1>0. TypeOK /\ TypeInv
  BY DEF ExchangeInv, TypeInv
<1> SUFFICES ASSUME NEW t \in TradeIds
             PROVE  /\ trades'[t].pending.result = "Success" => HasReceipt(t)'
                    /\ trades'[t].pending.result \in {"Stale", "Full"} => Untouched(t)'
  BY DEF AnswerInv
<1>1. CASE IsExchange(j) /\ t = j.request.id
  <2>1. PICK result \in {"Success", "Stale", "Full", "StorageError"} :
          /\ trades'[t].pending = Answer(result, StatesOf(j.request))
          /\ result = "Success" =>
               \/ HasReceipt(t)
               \/ running # Idle /\ running.job = j /\ running.outcome = "committed"
          /\ result \in {"Stale", "Full"} => ~HasReceipt(t) /\ Unlocked(j) /\ running = Idle
    BY <1>0, <1>1, AnswerPending
  <2>2. trades'[t].pending.result = result
    BY <2>1 DEF Answer
  <2>3. result = "Success" => HasReceipt(t)'
    BY <1>1, <2>1, ReceiptStays DEF RecordInv
  <2>4. ASSUME result \in {"Stale", "Full"} PROVE Untouched(t)'
    <3>1. RowsOf(j) = Members(t)
      <4>1. j.request \in Request /\ j.kind = "exchange"
        BY <1>1, JobKinds DEF IsExchange
      <4>2. j.request.chars = parties[t]
        BY <1>1, <4>1 DEF ExchangeInv, ConfirmedInv, AsConfirmed
      <4> QED BY <4>1, <4>2 DEF RowsOf, Members
    <3>2. ~TransactionOpen(t)
      <4> SUFFICES ASSUME NEW k \in OpenJobs, IsExchange(k), k.request.id = t PROVE FALSE
        BY DEF TransactionOpen, IsExchange
      <4>1. RowsOf(k) = RowsOf(j) /\ k \in Job
        BY <3>1, TransactionRows
      <4>2. Unlocked(j)
        BY <2>1, <2>4
      <4> QED BY <4>1, <4>2, RowsNotEmpty DEF Unlocked, LockedRows, Apart
    <3>3. OpenJobs' = OpenJobs
      BY <2>1, <2>4 DEF OpenJobs
    <3> QED BY <2>1, <2>4, <3>2, <3>3 DEF Untouched, HasReceipt, TransactionOpen
  <2> QED BY <2>2, <2>3, <2>4
<1>2. CASE IsExchange(j) => t # j.request.id
  <2>1. trades'[t] = trades[t]
    BY <1>0, <1>2, AnswerPending
  <2>2. trades[t].pending.result \in {"Stale", "Full"} => trades[t].pending # Pending
    BY DEF Pending
  <2> QED BY <2>1, <2>2, ReceiptStays, UntouchedStays DEF AnswerInv
<1> QED BY <1>1, <1>2

LEMMA AnswerInvNext ==
  ASSUME ExchangeInv, StorageInv, RecordInv, AnswerInv, [Next]_vars
  PROVE  AnswerInv'
<1>0. TypeOK /\ TypeInv /\ NoLookupRuns /\ WaitInv
  BY DEF ExchangeInv, TypeInv
<1>1. ASSUME \A t \in TradeIds : trades'[t].pending \in {trades[t].pending, NoPending, Pending}
      PROVE  AnswerInv'
  <2> SUFFICES ASSUME NEW t \in TradeIds, trades'[t].pending = trades[t].pending
               PROVE  /\ trades[t].pending.result = "Success" => HasReceipt(t)'
                      /\ trades[t].pending.result \in {"Stale", "Full"} => Untouched(t)'
    BY <1>1 DEF AnswerInv, NoPending, Pending
  <2>1. trades[t].pending.result \in {"Stale", "Full"} => trades[t].pending # Pending
    BY DEF Pending
  <2> QED BY <2>1, ReceiptStays, UntouchedStays DEF AnswerInv
<1>2. CASE Quiet \/ \E t \in TradeIds : HandsOver(t)
  BY <1>1, <1>2 DEF Quiet, QuietPending, HandsOver
<1>3. CASE TakesJob
  <2>1. /\ Head(queue) = queue[1] /\ 1 \in DOMAIN queue /\ queue[1] \in Job
    BY <1>0, <1>3, TailJobs, QueueJobs DEF TakesJob
  <2>2. CASE Begins(Head(queue))
    BY <1>1, <2>2 DEF Begins
  <2>3. CASE running' = Idle /\ Told(Head(queue))
    <3>1. IsExchange(queue[1]) => Requested(queue[1].request)
      BY <2>1, ExchangeShape DEF Requested, IsExchange
    <3> QED BY <1>3, <2>1, <2>3, <3>1, AnswerTrue DEF TakesJob
  <2> QED BY <1>3, <2>2, <2>3 DEF TakesJob
<1>4. CASE EndsJob
  <2>1. running.job \in Job /\ running # Idle
    BY <1>0, <1>4, RunningType DEF EndsJob
  <2>2. IsExchange(running.job) => Requested(running.job.request)
    BY <2>1, ExchangeShape DEF Requested, IsExchange
  <2> QED BY <1>4, <2>1, <2>2, AnswerTrue DEF EndsJob
<1>5. CASE CommitRunning \/ RollbackRunning
           \/ \E j \in orphans : OrphanCommits(j) \/ OrphanRollsBack(j)
  BY <1>1, <1>5 DEF CommitRunning, RollbackRunning, OrphanCommits, OrphanRollsBack
<1>6. CASE Crash
  BY <1>1, <1>6 DEF Crash, Absent
<1> QED BY <1>0, <1>2, <1>3, <1>4, <1>5, <1>6, StepSplits

(***************************************************************************)
(* Who is waiting for which answer.  A session asks for one inventory      *)
(* operation and one trade record at a time; the job of an answer it still *)
(* waits for is the only live one of its kind.                             *)
(***************************************************************************)

Live(j) == j.kind # "exchange" /\ j.live

Asked(j) ==
  IF j.kind = "apply" THEN session[j.owner].request = [op |-> j.op, reply |-> Waiting]
                      ELSE session[j.owner].lookup = [trade |-> j.trade, reply |-> Waiting]
AskedAfter(j) ==
  IF j.kind = "apply" THEN session'[j.owner].request = [op |-> j.op, reply |-> Waiting]
                      ELSE session'[j.owner].lookup = [trade |-> j.trade, reply |-> Waiting]

Rivals(j, k) == j.kind = k.kind /\ j.owner = k.owner

LiveInv ==
  /\ \A i \in DOMAIN queue : Live(queue[i]) => Asked(queue[i])
  /\ running # Idle /\ Live(running.job) => Asked(running.job)
  /\ \A i, k \in DOMAIN queue :
       Live(queue[i]) /\ Live(queue[k]) /\ Rivals(queue[i], queue[k]) => i = k
  /\ \A i \in DOMAIN queue :
       running # Idle /\ Live(running.job) /\ Live(queue[i]) => ~Rivals(queue[i], running.job)

\* A character that is not connected waits for nothing.
OfflineInv == \A c \in Characters : ~session[c].online => session[c] = Offline

LEMMA LiveTypes ==
  ASSUME NEW j \in Job, Live(j)
  PROVE  /\ j.kind \in {"apply", "lookup"} /\ j.owner \in Characters
         /\ j.kind = "apply" => j.op \in {"refresh", "change", "damage"}
         /\ j.kind = "lookup" => j.trade \in TradeIds
         /\ Asked(j) => /\ j.kind = "apply" => session[j.owner].request # NoRequest
                        /\ j.kind = "lookup" => session[j.owner].lookup # NoLookup
<1>1. /\ j.kind \in {"apply", "lookup"} /\ j.owner \in Characters
      /\ j.kind = "apply" => j.op \in {"refresh", "change", "damage"}
      /\ j.kind = "lookup" => j.trade \in TradeIds
  BY DEF Live, Job
<1> QED BY <1>1, TradeAssumption DEF Asked, NoRequest, NoLookup, TradeAssumption

\* Jobs stay where they are; the live ones are still waited for.
LEMMA LiveKept ==
  ASSUME LiveInv,
         \A i \in DOMAIN queue' : Live(queue'[i]) =>
           i \in DOMAIN queue /\ queue'[i] = queue[i] /\ AskedAfter(queue[i]),
         running' # Idle /\ Live(running'.job) =>
           running # Idle /\ running'.job = running.job /\ AskedAfter(running.job)
  PROVE  LiveInv'
<1>1. \A i \in DOMAIN queue' : Live(queue'[i]) => AskedAfter(queue'[i])
  OBVIOUS
<1>2. running' # Idle /\ Live(running'.job) => AskedAfter(running'.job)
  OBVIOUS
<1>3. \A i, k \in DOMAIN queue' :
        Live(queue'[i]) /\ Live(queue'[k]) /\ Rivals(queue'[i], queue'[k]) => i = k
  BY DEF LiveInv
<1>4. \A i \in DOMAIN queue' :
        running' # Idle /\ Live(running'.job) /\ Live(queue'[i]) =>
          ~Rivals(queue'[i], running'.job)
  BY DEF LiveInv
<1> QED BY <1>1, <1>2, <1>3, <1>4 DEF LiveInv, Asked, AskedAfter, Live, Rivals

\* A job joins the queue when its owner waits for no other of its kind.
LEMMA LiveAdded ==
  ASSUME TypeOK, LiveInv, NEW j \in Job, queue' = Append(queue, j), running' = running,
         AskedAfter(j),
         \A k \in Job : Live(k) /\ Asked(k) => ~Rivals(k, j) /\ AskedAfter(k)
  PROVE  LiveInv'
<1> DEFINE n == Len(queue) + 1
<1>1. /\ DOMAIN queue' = DOMAIN queue \cup {n} /\ n \notin DOMAIN queue
      /\ \A i \in DOMAIN queue : queue'[i] = queue[i]
      /\ queue'[n] = j
  BY AppendJobs
<1> HIDE DEF n
<1>2. \A i \in DOMAIN queue : Live(queue[i]) => ~Rivals(queue[i], j) /\ AskedAfter(queue[i])
  BY QueueJobs DEF LiveInv
<1>3. running # Idle /\ Live(running.job) => ~Rivals(running.job, j) /\ AskedAfter(running.job)
  BY QueueJobs DEF LiveInv
<1>4. \A i \in DOMAIN queue' : Live(queue'[i]) => AskedAfter(queue'[i])
  BY <1>1, <1>2
<1>5. \A i, k \in DOMAIN queue' :
        Live(queue'[i]) /\ Live(queue'[k]) /\ Rivals(queue'[i], queue'[k]) => i = k
  BY <1>1, <1>2 DEF LiveInv, Rivals
<1>6. \A i \in DOMAIN queue' :
        running' # Idle /\ Live(running'.job) /\ Live(queue'[i]) =>
          ~Rivals(queue'[i], running'.job)
  BY <1>1, <1>3 DEF LiveInv, Rivals
<1> QED BY <1>3, <1>4, <1>5, <1>6 DEF LiveInv, Asked, AskedAfter, Live, Rivals

\* An answer goes to the one who asked, and changes nothing of anyone else.
LEMMA TellsAsker ==
  ASSUME TypeOK, NEW j \in Job, Told(j), Live(j) => Asked(j)
  PROVE  /\ ~Live(j) => session' = session
         /\ \A k \in Job : Live(k) /\ Asked(k) /\ ~(Live(j) /\ Rivals(k, j)) => AskedAfter(k)
         /\ \A c \in Characters : /\ session'[c].online = session[c].online
                                  /\ session[c] = Offline => session'[c] = Offline
<1>1. CASE ~Live(j)
  <2>1. session' = session
    BY <1>1, JobKinds DEF Live, Told, IsExchange, FulfilExchange, FulfilRequest, FulfilLookup
  <2> QED BY <1>1, <2>1 DEF Asked, AskedAfter
<1>2. CASE Live(j)
  <2> DEFINE c == j.owner
  <2>0. c \in Characters /\ session[c] \in SessionState /\ Asked(j)
        /\ j.kind \in {"apply", "lookup"}
    BY <1>2, LiveTypes DEF TypeOK
  <2>1. CASE j.kind = "apply"
    <3>1. PICK reply : session' = [session EXCEPT ![c].request.reply = reply]
      BY <1>2, <2>1 DEF Told, IsExchange, Live, FulfilRequest
    <3>2. /\ session'[c] = [session[c] EXCEPT !.request.reply = reply]
          /\ \A d \in Characters : d # c => session'[d] = session[d]
      BY <2>0, <3>1 DEF TypeOK
    <3>3. session'[c].lookup = session[c].lookup /\ session'[c].online = session[c].online
      BY <2>0, <3>2 DEF SessionState
    <3>4. session[c] # Offline
      BY <1>2, <2>0, <2>1, LiveTypes DEF Offline
    <3> HIDE DEF c
    <3>5. \A k \in Job : Live(k) /\ Asked(k) /\ ~Rivals(k, j) => AskedAfter(k)
      BY <2>1, <3>2, <3>3, LiveTypes DEF Asked, AskedAfter, Rivals, c
    <3> QED BY <1>2, <3>2, <3>3, <3>4, <3>5
  <2>2. CASE j.kind = "lookup"
    <3>1. PICK reply : session' = [session EXCEPT ![c].lookup.reply = reply]
      BY <1>2, <2>2 DEF Told, IsExchange, Live, FulfilLookup
    <3>2. /\ session'[c] = [session[c] EXCEPT !.lookup.reply = reply]
          /\ \A d \in Characters : d # c => session'[d] = session[d]
      BY <2>0, <3>1 DEF TypeOK
    <3>3. session'[c].request = session[c].request /\ session'[c].online = session[c].online
      BY <2>0, <3>2 DEF SessionState
    <3>4. session[c] # Offline
      BY <1>2, <2>0, <2>2, LiveTypes DEF Offline
    <3> HIDE DEF c
    <3>5. \A k \in Job : Live(k) /\ Asked(k) /\ ~Rivals(k, j) => AskedAfter(k)
      BY <2>2, <3>2, <3>3, LiveTypes DEF Asked, AskedAfter, Rivals, c
    <3> QED BY <1>2, <3>2, <3>3, <3>4, <3>5
  <2> QED BY <2>0, <2>1, <2>2
<1> QED BY <1>1, <1>2

SameElsewhere(c) == \A d \in Characters : d # c => session'[d] = session[d]

LEMMA StillAsked ==
  ASSUME NEW c \in Characters, SameElsewhere(c), NEW k \in Job, Live(k), Asked(k),
         k.owner = c => IF k.kind = "apply" THEN session'[c].request = session[c].request
                                            ELSE session'[c].lookup = session[c].lookup
  PROVE  AskedAfter(k)
BY LiveTypes DEF SameElsewhere, Asked, AskedAfter

LEMMA SubmitLive ==
  ASSUME TypeOK, LiveInv, NEW c \in Characters, NEW s \in SessionState, s.hits > 0,
         s.lookup = session[c].lookup, Submit(c, s), running' = running,
         session[c].request = NoRequest \/ session[c].request.reply # Waiting
  PROVE  LiveInv' /\ (s.online => session'[c].online) /\ SameElsewhere(c)
<1>0. \A k \in Job : Live(k) /\ Asked(k) /\ k.kind = "apply" => k.owner # c
  <2> SUFFICES ASSUME NEW k \in Job, Live(k), Asked(k), k.kind = "apply", k.owner = c
               PROVE  FALSE
    OBVIOUS
  <2>1. session[c].request # NoRequest
    BY LiveTypes
  <2>2. session[c].request.reply = Waiting
    BY DEF Asked
  <2> QED BY <2>1, <2>2
<1>1. CASE QueueHasRoom
  <2> DEFINE j == ApplyJob(c, "damage", s.inv.rev)
             after == [s EXCEPT !.hits = @ - 1,
                                !.request = [op |-> "damage", reply |-> Waiting]]
  <2>1. session' = [session EXCEPT ![c] = after] /\ queue' = Append(queue, j)
    BY <1>1 DEF Submit
  <2>2. j \in Job /\ j.kind = "apply" /\ j.owner = c /\ j.op = "damage" /\ Live(j)
    BY JobTypes DEF ApplyJob, Live, SessionState, Snapshot
  <2>3. /\ after.request = [op |-> "damage", reply |-> Waiting] /\ after.lookup = s.lookup
        /\ after.online = s.online
    BY DEF SessionState
  <2> HIDE DEF j, after
  <2>4. session'[c] = after /\ SameElsewhere(c)
    BY <2>1 DEF TypeOK, SameElsewhere
  <2>5. AskedAfter(j)
    BY <2>2, <2>3, <2>4 DEF AskedAfter
  <2>6. \A k \in Job : Live(k) /\ Asked(k) => ~Rivals(k, j) /\ AskedAfter(k)
    BY <1>0, <2>2, <2>3, <2>4, LiveTypes, StillAsked DEF Rivals
  <2> QED BY <2>1, <2>2, <2>3, <2>4, <2>5, <2>6, LiveAdded
<1>2. CASE ~QueueHasRoom
  <2> DEFINE after == Recover([s EXCEPT !.hits = @ - 1])
  <2>1. session' = [session EXCEPT ![c] = after] /\ queue' = queue
    BY <1>2 DEF Submit
  <2>2. after.lookup = s.lookup /\ after.online = s.online
    BY DEF Recover, SessionState
  <2> HIDE DEF after
  <2>3. session'[c] = after /\ SameElsewhere(c)
    BY <2>1 DEF TypeOK, SameElsewhere
  <2>4. \A k \in Job : Live(k) /\ Asked(k) => AskedAfter(k)
    BY <1>0, <2>2, <2>3, LiveTypes, StillAsked
  <2> QED BY <2>1, <2>2, <2>3, <2>4, LiveKept, QueueJobs DEF LiveInv
<1> QED BY <1>1, <1>2

LEMMA PumpLive ==
  ASSUME TypeOK, LiveInv, NEW c \in Characters, NEW s \in SessionState,
         s.lookup = session[c].lookup, Pump(c, s), running' = running,
         s.request = session[c].request \/ session[c].request.reply # Waiting
  PROVE  LiveInv' /\ (s.online => session'[c].online) /\ SameElsewhere(c)
<1>1. CASE s.request = NoRequest /\ s.hits > 0 /\ ~s.recovering
  BY <1>1, SubmitLive DEF Pump
<1>2. CASE ~(s.request = NoRequest /\ s.hits > 0 /\ ~s.recovering)
  <2>1. session'[c] = s /\ SameElsewhere(c) /\ queue' = queue
    BY <1>2 DEF Pump, TypeOK, SameElsewhere
  <2>2. \A k \in Job : Live(k) /\ Asked(k) => AskedAfter(k)
    <3> SUFFICES ASSUME NEW k \in Job, Live(k), Asked(k) PROVE AskedAfter(k)
      OBVIOUS
    <3>1. k.kind = "apply" /\ k.owner = c => session[c].request.reply = Waiting
      BY DEF Asked
    <3> QED BY <2>1, <3>1, StillAsked
  <2> QED BY <2>1, <2>2, LiveKept, QueueJobs DEF LiveInv
<1> QED BY <1>1, <1>2

\* A step that leaves every request and lookup alone.
LEMMA SameSlots ==
  ASSUME TypeOK, LiveInv, running' = running,
         queue' = queue \/ \E r \in Request : queue' = Append(queue, ExchangeJob(r)),
         \A c \in Characters : session'[c].request = session[c].request
                               /\ session'[c].lookup = session[c].lookup
  PROVE  LiveInv'
<1>1. \A k \in Job : Live(k) /\ Asked(k) => AskedAfter(k)
  BY LiveTypes DEF Asked, AskedAfter
<1>2. CASE queue' = queue
  BY <1>1, <1>2, LiveKept, QueueJobs DEF LiveInv
<1>3. ASSUME NEW r \in Request, queue' = Append(queue, ExchangeJob(r)) PROVE LiveInv'
  <2>1. /\ DOMAIN queue' = DOMAIN queue \cup {Len(queue) + 1}
        /\ \A i \in DOMAIN queue : queue'[i] = queue[i]
        /\ ~Live(queue'[Len(queue) + 1])
    BY <1>3, JobTypes, AppendJobs DEF Live, ExchangeJob
  <2> QED BY <1>1, <2>1, LiveKept, QueueJobs DEF LiveInv
<1> QED BY <1>2, <1>3

LEMMA AbandonLive ==
  ASSUME NEW j \in Job, NEW c
  PROVE  /\ Live(Abandon(j, c)) => Abandon(j, c) = j /\ j.owner # c
         /\ Live(AbandonRequest(j, c)) =>
              AbandonRequest(j, c) = j /\ (j.kind = "apply" => j.owner # c)
BY DEF Live, Abandon, AbandonRequest, Job

LEMMA FinishSlots ==
  ASSUME NEW s \in SessionState, NEW r \in Reply
  PROVE  Finish(s, r).lookup = s.lookup /\ Finish(s, r).online = s.online
         /\ Finish(s, r).request = NoRequest
BY DEF Finish, Recover, SessionState

LEMMA SessionStepLive ==
  ASSUME TypeOK, LiveInv, OfflineInv, SessionStep
  PROVE  LiveInv' /\ OfflineInv'
<1> SUFFICES ASSUME NEW c \in Characters,
      \/ Enter(c) \/ Disconnect(c)
      \/ \E op \in {"refresh", "change"} : RequestInventory(c, op)
      \/ TakeDamage(c) \/ RetryDamage(c)
      \/ InventoryAnswered(c) \/ InventoryTimeout(c)
      \/ \E t \in TradeIds : QueryTrade(c, t)
      \/ LookupAnswered(c) \/ LeaveMap(c)
    PROVE LiveInv' /\ OfflineInv'
  BY DEF SessionStep
<1>0. session[c] \in SessionState
  BY DEF TypeOK
<1>a. SameElsewhere(c) /\ (session'[c].online \/ session'[c] = Offline) => OfflineInv'
  BY DEF SameElsewhere, OfflineInv
<1>1. CASE Enter(c)
  <2>1. session[c] = Offline /\ SameElsewhere(c) /\ UNCHANGED <<queue, running>>
        /\ session'[c].online
    BY <1>1 DEF Enter, OfflineInv, SameElsewhere, TypeOK, worker, Offline
  <2>2. \A k \in Job : Live(k) /\ Asked(k) => k.owner # c
    BY <2>1, LiveTypes DEF Offline
  <2>3. \A k \in Job : Live(k) /\ Asked(k) => AskedAfter(k)
    BY <2>1, <2>2, StillAsked
  <2> QED BY <1>a, <2>1, <2>3, LiveKept, QueueJobs DEF LiveInv
<1>2. CASE Disconnect(c)
  <2>1. SameElsewhere(c) /\ session'[c] = Offline
    BY <1>2 DEF Disconnect, SameElsewhere, TypeOK
  <2>2. DOMAIN queue' = DOMAIN queue /\ \A i \in DOMAIN queue : queue'[i] = Abandon(queue[i], c)
    BY <1>2 DEF Disconnect, AbandonIn
  <2>3. running' # Idle => running # Idle /\ running'.job = Abandon(running.job, c)
    BY <1>2, QueueJobs DEF Disconnect, TypeOK
  <2>4. \A k \in Job : Live(k) /\ Asked(k) /\ k.owner # c => AskedAfter(k)
    BY <2>1, StillAsked
  <2> QED BY <1>a, <2>1, <2>2, <2>3, <2>4, LiveKept, QueueJobs, AbandonLive DEF LiveInv
<1>3. ASSUME NEW op \in {"refresh", "change"}, RequestInventory(c, op)
      PROVE LiveInv' /\ OfflineInv'
  <2> DEFINE j == ApplyJob(c, op, session[c].inv.rev)
  <2>1. /\ queue' = Append(queue, j) /\ running' = running
        /\ session' = [session EXCEPT ![c].request = [op |-> op, reply |-> Waiting]]
        /\ session[c].request = NoRequest /\ session[c].online
    BY <1>3 DEF RequestInventory, FieldBusy
  <2>2. j \in Job /\ j.kind = "apply" /\ j.owner = c /\ j.op = op /\ Live(j)
    BY <1>0, JobTypes DEF ApplyJob, Live, SessionState, Snapshot
  <2> HIDE DEF j
  <2>3. /\ session'[c] = [session[c] EXCEPT !.request = [op |-> op, reply |-> Waiting]]
        /\ SameElsewhere(c)
    BY <2>1 DEF TypeOK, SameElsewhere
  <2>4. /\ session'[c].request = [op |-> op, reply |-> Waiting]
        /\ session'[c].lookup = session[c].lookup /\ session'[c].online
    BY <1>0, <2>1, <2>3 DEF SessionState
  <2>5. AskedAfter(j)
    BY <2>2, <2>4 DEF AskedAfter
  <2>6. \A k \in Job : Live(k) /\ Asked(k) => ~Rivals(k, j) /\ AskedAfter(k)
    BY <2>1, <2>2, <2>3, <2>4, LiveTypes, StillAsked DEF Rivals
  <2> QED BY <1>a, <2>1, <2>2, <2>3, <2>4, <2>5, <2>6, LiveAdded
<1>4. CASE TakeDamage(c)
  <2> DEFINE s == [session[c] EXCEPT !.hits = @ + 1]
  <2>1. /\ running' = running /\ session[c].online
        /\ Pump(c, s) \/ UNCHANGED <<session, queue>>
    BY <1>4 DEF TakeDamage, CanAttack
  <2>2. s \in SessionState
    BY <1>0, SessionFieldTypes
  <2>3. s.lookup = session[c].lookup /\ s.request = session[c].request /\ s.online = session[c].online
    BY <1>0 DEF SessionState
  <2> HIDE DEF s
  <2>4. CASE Pump(c, s)
    BY <1>a, <2>1, <2>2, <2>3, <2>4, PumpLive
  <2>5. CASE UNCHANGED <<session, queue>>
    BY <2>1, <2>5, SameSlots DEF OfflineInv
  <2> QED BY <2>1, <2>4, <2>5
<1>5. CASE RetryDamage(c)
  <2>1. /\ running' = running /\ session[c].recovering /\ Submit(c, session[c])
        /\ session[c].request = NoRequest /\ session[c].hits > 0
    BY <1>5 DEF RetryDamage
  <2>2. session[c].online
    BY <2>1 DEF OfflineInv, Offline
  <2> QED BY <1>0, <1>a, <2>1, <2>2, SubmitLive
<1>6. CASE InventoryAnswered(c)
  <2> DEFINE s == Finish(session[c], session[c].request.reply)
  <2>1. /\ running' = running /\ session[c].request # NoRequest /\ Pump(c, s)
        /\ session[c].request.reply # Waiting /\ session[c].request.reply \in Reply
    BY <1>0, <1>6 DEF InventoryAnswered, SessionState
  <2>2. s \in SessionState /\ s.lookup = session[c].lookup /\ s.online = session[c].online
    BY <1>0, <2>1, FinishType, FinishSlots
  <2>3. session[c].online
    BY <2>1 DEF OfflineInv, Offline
  <2> HIDE DEF s
  <2> QED BY <1>a, <2>1, <2>2, <2>3, PumpLive
<1>7. CASE InventoryTimeout(c)
  <2>0. session[c].online
    BY <1>7 DEF InventoryTimeout, OfflineInv, Offline
  <2>1. SameElsewhere(c) /\ session'[c] = Finish(session[c], Failed)
    BY <1>7 DEF InventoryTimeout, SameElsewhere, TypeOK
  <2>2. session'[c].lookup = session[c].lookup /\ session'[c].online
    BY <1>0, <2>0, <2>1, ReplyTypes, FinishSlots
  <2>3. /\ DOMAIN queue' = DOMAIN queue
        /\ \A i \in DOMAIN queue : queue'[i] = AbandonRequest(queue[i], c)
    BY <1>7 DEF InventoryTimeout, AbandonRequestIn
  <2>4. running' # Idle => running # Idle /\ running'.job = AbandonRequest(running.job, c)
    BY <1>7, QueueJobs DEF InventoryTimeout, TypeOK
  <2>5. \A k \in Job : Live(k) /\ Asked(k) /\ (k.kind = "apply" => k.owner # c) => AskedAfter(k)
    BY <2>1, <2>2, StillAsked
  <2> QED BY <1>a, <2>1, <2>2, <2>3, <2>4, <2>5, LiveKept, QueueJobs, AbandonLive DEF LiveInv
<1>8. ASSUME NEW t \in TradeIds, QueryTrade(c, t)
      PROVE LiveInv' /\ OfflineInv'
  <2> DEFINE j == LookupJob(c, t)
  <2>1. /\ queue' = Append(queue, j) /\ running' = running
        /\ session' = [session EXCEPT ![c].lookup = [trade |-> t, reply |-> Waiting]]
        /\ session[c].lookup = NoLookup /\ session[c].online
    BY <1>8 DEF QueryTrade
  <2>2. j \in Job /\ j.kind = "lookup" /\ j.owner = c /\ j.trade = t /\ Live(j)
    BY JobTypes DEF LookupJob, Live
  <2> HIDE DEF j
  <2>3. /\ session'[c] = [session[c] EXCEPT !.lookup = [trade |-> t, reply |-> Waiting]]
        /\ SameElsewhere(c)
    BY <2>1 DEF TypeOK, SameElsewhere
  <2>4. /\ session'[c].lookup = [trade |-> t, reply |-> Waiting]
        /\ session'[c].request = session[c].request /\ session'[c].online
    BY <1>0, <2>1, <2>3 DEF SessionState
  <2>5. AskedAfter(j)
    BY <2>2, <2>4 DEF AskedAfter
  <2>6. \A k \in Job : Live(k) /\ Asked(k) => ~Rivals(k, j) /\ AskedAfter(k)
    BY <2>1, <2>2, <2>3, <2>4, LiveTypes, StillAsked DEF Rivals
  <2> QED BY <1>a, <2>1, <2>2, <2>3, <2>4, <2>5, <2>6, LiveAdded
<1>9. CASE LookupAnswered(c)
  <2>0. session[c].online
    BY <1>9 DEF LookupAnswered, OfflineInv, Offline
  <2>1. /\ SameElsewhere(c) /\ UNCHANGED <<queue, running>>
        /\ session'[c].request = session[c].request /\ session'[c].online
    BY <1>0, <1>9, <2>0
    DEF LookupAnswered, SameElsewhere, TypeOK, ApplyTradeInventory, SessionState, worker
  <2>2. session[c].lookup.reply # Waiting
    BY <1>9 DEF LookupAnswered
  <2>3. \A k \in Job : Live(k) /\ Asked(k) => AskedAfter(k)
    <3> SUFFICES ASSUME NEW k \in Job, Live(k), Asked(k) PROVE AskedAfter(k)
      OBVIOUS
    <3>1. k.kind = "lookup" => k.owner # c
      BY <2>2, LiveTypes DEF Asked
    <3> QED BY <2>1, <3>1, LiveTypes, StillAsked
  <2> QED BY <1>a, <2>1, <2>3, LiveKept, QueueJobs DEF LiveInv
<1>10. CASE LeaveMap(c)
  <2>1. UNCHANGED <<session, queue, running>>
    BY <1>10 DEF LeaveMap, worker
  <2> QED BY <2>1, SameSlots DEF OfflineInv
<1> QED BY <1>1, <1>2, <1>3, <1>4, <1>5, <1>6, <1>7, <1>8, <1>9, <1>10

LEMMA TradeStepLive ==
  ASSUME TypeInv, WaitInv, LiveInv, OfflineInv, HandleTrade \/ UpdateTrade
  PROVE  LiveInv' /\ OfflineInv'
<1>0. TypeOK
  BY DEF TypeInv
<1>1. ASSUME session' = session, queue' = queue, running' = running
      PROVE  LiveInv' /\ OfflineInv'
  BY <1>0, <1>1, SameSlots DEF OfflineInv
<1>2. ASSUME NEW x, NEW y, NEW t, Invite(x, y, t)
      PROVE  LiveInv' /\ OfflineInv'
  BY <1>1, <1>2 DEF Invite, worker
<1>3. ASSUME NEW c, NEW t,
             \/ ReadState(c, t) \/ Accept(c, t)
             \/ \E goods \in SUBSET Goods : Offer(c, t, goods)
             \/ FirstConfirm(c, t) \/ CancelRequest(c, t) \/ FoundApart(c, t)
      PROVE  LiveInv' /\ OfflineInv'
  BY <1>1, <1>3 DEF ReadState, Accept, Offer, FirstConfirm, CancelRequest, FoundApart, worker
<1>4. ASSUME NEW c \in Characters, NEW t \in TradeIds, LastConfirm(c, t)
      PROVE  LiveInv' /\ OfflineInv'
  <2>1. /\ session' = [m \in Characters |->
                         IF m \in Members(t) THEN [session[m] EXCEPT !.paused = TRUE]
                                             ELSE session[m]]
        /\ \A m \in Members(t) : session[m].online
    BY <1>4 DEF LastConfirm, Negotiating, Together, CanAttack
  <2>2. \A m \in Characters : /\ session'[m].request = session[m].request
                              /\ session'[m].lookup = session[m].lookup
                              /\ session'[m].online = session[m].online
    BY <1>0, <2>1 DEF TypeOK, SessionState
  <2>3. RequestOf(t) \in Request
    BY <1>0, <1>4, RequestTypes DEF LastConfirm, Negotiating
  <2>4. LiveInv'
    BY <1>0, <1>4, <2>2, <2>3, SameSlots DEF LastConfirm
  <2>5. OfflineInv'
    BY <2>1, <2>2 DEF OfflineInv
  <2> QED BY <2>4, <2>5
<1>5. ASSUME NEW t \in TradeIds, RetryExchange(t)
      PROVE  LiveInv' /\ OfflineInv'
  <2>1. RequestOf(t) \in Request
    BY <1>0, <1>5, RequestTypes DEF RetryExchange, TypeInv, KnownParties
  <2> QED BY <1>0, <1>5, <2>1, SameSlots DEF RetryExchange, OfflineInv
<1>6. ASSUME NEW t \in TradeIds, ExchangeAnswered(t)
      PROVE  LiveInv' /\ OfflineInv'
  <2>1. UNCHANGED <<queue, running>>
    BY <1>6 DEF ExchangeAnswered, worker
  <2>2. CASE KeepAsking(t)
    BY <1>1, <2>1, <2>2 DEF KeepAsking
  <2>3. CASE Settle(t)
    <3>1. \A c \in Characters :
            \/ session'[c] = session[c]
            \/ session[c].online
               /\ session'[c] = ApplyTradeInventory(session[c], trades[t].pending.states[SideOf(c, t)])
      BY <2>3 DEF Settle
    <3>2. \A c \in Characters : /\ session'[c].request = session[c].request
                                /\ session'[c].lookup = session[c].lookup
                                /\ session'[c].online = session[c].online
      <4>1. \A s \in SessionState : \A state : LET after == ApplyTradeInventory(s, state)
              IN /\ after.request = s.request /\ after.lookup = s.lookup
                 /\ after.online = s.online
        BY DEF ApplyTradeInventory, SessionState
      <4>2. \A c \in Characters : session[c] \in SessionState
        BY <1>0 DEF TypeOK
      <4> QED BY <3>1, <4>1, <4>2
    <3>3. LiveInv'
      BY <1>0, <2>1, <3>2, SameSlots
    <3>4. OfflineInv'
      BY <3>1, <3>2 DEF OfflineInv
    <3> QED BY <3>3, <3>4
  <2> QED BY <1>6, <2>2, <2>3 DEF ExchangeAnswered
<1>7. ASSUME NEW t \in TradeIds, ExpireTrade(t) \/ EraseTrade(t)
      PROVE  LiveInv' /\ OfflineInv'
  BY <1>1, <1>7 DEF ExpireTrade, EraseTrade, worker
<1> QED BY <1>2, <1>3, <1>4, <1>5, <1>6, <1>7 DEF HandleTrade, UpdateTrade

LEMMA WorkerStepLive ==
  ASSUME TypeOK, NoLookupRuns, LiveInv, OfflineInv, WorkerStep
  PROVE  LiveInv' /\ OfflineInv'
<1>1. CASE TakesJob
  <2>1. /\ Head(queue) = queue[1] /\ 1 \in DOMAIN queue /\ queue[1] \in Job /\ running = Idle
        /\ \A i \in DOMAIN queue' : /\ i + 1 \in DOMAIN queue /\ i + 1 # 1
                                    /\ i \in Nat /\ queue'[i] = queue[i + 1]
    BY <1>1, TailJobs, QueueJobs DEF TakesJob
  <2>2. \A i, k \in DOMAIN queue' : i + 1 = k + 1 => i = k
    BY <2>1
  <2>3. \A i \in DOMAIN queue' : Live(queue'[i]) =>
          /\ queue'[i] \in Job /\ Asked(queue[i + 1]) /\ queue'[i] = queue[i + 1]
          /\ Live(queue[1]) => ~Rivals(queue[i + 1], queue[1])
    BY <2>1, QueueJobs DEF LiveInv
  <2>4. \A i, k \in DOMAIN queue' :
          Live(queue'[i]) /\ Live(queue'[k]) /\ Rivals(queue'[i], queue'[k]) => i = k
    BY <2>1, <2>2 DEF LiveInv
  <2>5. CASE Begins(queue[1])
    <3>1. running'.job = queue[1] /\ session' = session
      BY <2>5 DEF Begins
    <3>2. \A k : Asked(k) => AskedAfter(k)
      BY <3>1 DEF Asked, AskedAfter
    <3>3. \A i \in DOMAIN queue' : Live(queue'[i]) => AskedAfter(queue'[i])
      BY <2>3, <3>2
    <3>4. Live(running'.job) => AskedAfter(running'.job)
      BY <2>1, <3>1, <3>2 DEF LiveInv
    <3>5. \A i \in DOMAIN queue' :
            Live(running'.job) /\ Live(queue'[i]) => ~Rivals(queue'[i], running'.job)
      BY <2>3, <3>1
    <3> QED BY <2>4, <3>1, <3>3, <3>4, <3>5 DEF LiveInv, OfflineInv, Asked, AskedAfter, Live, Rivals
  <2>6. CASE running' = Idle /\ Told(queue[1])
    <3>1. Live(queue[1]) => Asked(queue[1])
      BY <2>1 DEF LiveInv
    <3>2. \A i \in DOMAIN queue' : Live(queue'[i]) => AskedAfter(queue'[i])
      BY <2>1, <2>3, <2>6, <3>1, TellsAsker
    <3>3. OfflineInv'
      BY <2>1, <2>6, <3>1, TellsAsker DEF OfflineInv
    <3> QED BY <2>4, <2>6, <3>2, <3>3 DEF LiveInv, Asked, AskedAfter, Live, Rivals
  <2> QED BY <1>1, <2>1, <2>5, <2>6 DEF TakesJob
<1>2. CASE EndsJob
  <2>1. running.job \in Job /\ running # Idle /\ running' = Idle /\ queue' = queue
        /\ Told(running.job)
    BY <1>2, RunningType DEF EndsJob
  <2>2. Live(running.job) => Asked(running.job)
    BY <2>1 DEF LiveInv
  <2>3. \A i \in DOMAIN queue : Live(queue[i]) => AskedAfter(queue[i])
    BY <2>1, <2>2, TellsAsker, QueueJobs DEF LiveInv
  <2>4. OfflineInv'
    BY <2>1, <2>2, TellsAsker DEF OfflineInv
  <2> QED BY <2>1, <2>3, <2>4, LiveKept
<1>3. CASE CommitRunning \/ RollbackRunning
  <2>1. session' = session /\ queue' = queue
        /\ (running' # Idle => running # Idle /\ running'.job = running.job)
    BY <1>3 DEF CommitRunning, RollbackRunning, TypeOK
  <2>2. \A k : Asked(k) => AskedAfter(k)
    BY <2>1 DEF Asked, AskedAfter
  <2> QED BY <2>1, <2>2, LiveKept DEF LiveInv, OfflineInv
<1> QED BY <1>1, <1>2, <1>3, WorkerSplits

SessionInv == LiveInv /\ OfflineInv

LEMMA SessionInvNext ==
  ASSUME ExchangeInv, SessionInv, [Next]_vars
  PROVE  SessionInv'
<1>0. TypeOK /\ TypeInv /\ NoLookupRuns /\ WaitInv
  BY DEF ExchangeInv, TypeInv
<1>1. CASE DatabaseStep \/ UNCHANGED vars
  <2>1. UNCHANGED <<session, queue, running>>
    BY <1>1 DEF DatabaseStep, OrphanCommits, OrphanRollsBack, vars, worker
  <2> QED BY <1>0, <2>1, SameSlots DEF SessionInv, OfflineInv
<1>2. CASE Crash
  BY <1>2 DEF Crash, SessionInv, LiveInv, OfflineInv
<1> QED BY <1>0, <1>1, <1>2, SessionStepLive, TradeStepLive, WorkerStepLive
    DEF Next, SessionInv

(***************************************************************************)
(* Where what a session holds comes from: its inventory from an answer it  *)
(* was given, its answers from the worker.                                 *)
(***************************************************************************)

InvFrom(c) ==
  session'[c].ready =>
    \/ session[c].ready /\ session'[c].inv = session[c].inv
    \/ /\ session[c].request.reply.answer = "loaded"
       /\ session'[c].inv = session[c].request.reply.state
    \/ /\ session[c].lookup.reply.answer = "loaded"
       /\ session'[c].inv = session[c].lookup.reply.state
    \/ \E t \in TradeIds : /\ trades[t].pending \notin {NoPending, Pending} /\ c \in Members(t)
                           /\ session'[c].inv = trades[t].pending.states[SideOf(c, t)]

RequestFrom(c) ==
  \/ session'[c].request.reply \in {session[c].request.reply, Waiting, Failed}
  \/ session'[c].request.reply = Loaded(stored[c]) /\ stored' = stored

Looked(c, t) == [answer |-> "loaded", state |-> stored[c],
                 verdict |-> IF HasReceipt(t) THEN "Completed" ELSE "Cancelled"]

LookupFrom(c) ==
  \/ session'[c].lookup \in {session[c].lookup, NoLookup}
  \/ \E t \in TradeIds : QueryTrade(c, t) /\ session'[c].lookup = [trade |-> t, reply |-> Waiting]
  \/ \E t \in TradeIds :
       /\ session[c].lookup = [trade |-> t, reply |-> Waiting]
       /\ \/ session'[c].lookup = [trade |-> t, reply |-> Failed]
          \/ /\ session'[c].lookup = [trade |-> t, reply |-> Looked(c, t)]
             /\ c \notin LockedRows /\ OpenJobs' \subseteq OpenJobs
             /\ UNCHANGED <<stored, receipts>>

HeldFrom(c) == InvFrom(c) /\ RequestFrom(c) /\ LookupFrom(c)

LEMMA UnchangedHeld ==
  ASSUME NEW c \in Characters, session'[c] = session[c]
  PROVE  HeldFrom(c)
BY DEF HeldFrom, InvFrom, RequestFrom, LookupFrom

LEMMA PumpKeeps ==
  ASSUME TypeOK, NEW c \in Characters, NEW s \in SessionState,
         Pump(c, s) \/ (s.hits > 0 /\ Submit(c, s))
  PROVE  /\ SameElsewhere(c)
         /\ session'[c].lookup = s.lookup /\ session'[c].inv = s.inv
         /\ session'[c].ready => s.ready
         /\ session'[c].request.reply \in {s.request.reply, Waiting}
<1>1. CASE session' = [session EXCEPT ![c] = s]
  BY <1>1 DEF SameElsewhere, TypeOK
<1>2. CASE Submit(c, s) /\ QueueHasRoom
  <2> DEFINE after == [s EXCEPT !.hits = @ - 1,
                                !.request = [op |-> "damage", reply |-> Waiting]]
  <2>1. session' = [session EXCEPT ![c] = after]
    BY <1>2 DEF Submit
  <2>2. /\ after.request.reply = Waiting /\ after.lookup = s.lookup
        /\ after.inv = s.inv /\ after.ready = s.ready
    BY DEF SessionState
  <2> HIDE DEF after
  <2> QED BY <2>1, <2>2 DEF TypeOK, SameElsewhere
<1>3. CASE Submit(c, s) /\ ~QueueHasRoom
  <2> DEFINE after == Recover([s EXCEPT !.hits = @ - 1])
  <2>1. session' = [session EXCEPT ![c] = after]
    BY <1>3 DEF Submit
  <2>2. /\ after.request.reply = Waiting /\ after.lookup = s.lookup
        /\ after.inv = s.inv /\ ~after.ready
    BY DEF Recover, SessionState, NoRequest
  <2> HIDE DEF after
  <2> QED BY <2>1, <2>2 DEF TypeOK, SameElsewhere
<1> QED BY <1>1, <1>2, <1>3 DEF Pump

LEMMA FinishKeeps ==
  ASSUME NEW s \in SessionState, NEW r \in Reply, r # Waiting
  PROVE  /\ Finish(s, r).lookup = s.lookup /\ Finish(s, r).request = NoRequest
         /\ Finish(s, r).ready =>
              \/ s.ready /\ Finish(s, r).inv = s.inv
              \/ r.answer = "loaded" /\ Finish(s, r).inv = r.state
<1>1. CASE r.answer = "error"
  BY <1>1 DEF Finish, Recover, SessionState
<1>2. CASE r.answer # "error"
  <2>1. r.answer = "loaded"
    BY <1>2 DEF Reply, Failed
  <2> QED BY <1>2, <2>1 DEF Finish, SessionState
<1> QED BY <1>1, <1>2

LEMMA SessionStepHeld ==
  ASSUME TypeOK, SessionStep
  PROVE  \A c \in Characters : HeldFrom(c)
<1> SUFFICES ASSUME NEW c \in Characters,
      \/ Enter(c) \/ Disconnect(c)
      \/ \E op \in {"refresh", "change"} : RequestInventory(c, op)
      \/ TakeDamage(c) \/ RetryDamage(c)
      \/ InventoryAnswered(c) \/ InventoryTimeout(c)
      \/ \E t \in TradeIds : QueryTrade(c, t)
      \/ LookupAnswered(c) \/ LeaveMap(c)
    PROVE \A d \in Characters : HeldFrom(d)
  BY DEF SessionStep
<1>0. session[c] \in SessionState
  BY DEF TypeOK
<1>a. SameElsewhere(c) /\ HeldFrom(c) => \A d \in Characters : HeldFrom(d)
  BY UnchangedHeld DEF SameElsewhere
<1>1. CASE Enter(c) \/ Disconnect(c)
  <2>1. SameElsewhere(c) /\ session'[c] \in {Offline, [Offline EXCEPT !.online = TRUE]}
    BY <1>1 DEF Enter, Disconnect, SameElsewhere, TypeOK
  <2>2. /\ session'[c].request.reply = Waiting /\ session'[c].lookup = NoLookup
        /\ ~session'[c].ready
    BY <2>1 DEF Offline, NoRequest
  <2> QED BY <1>a, <2>1, <2>2 DEF HeldFrom, InvFrom, RequestFrom, LookupFrom
<1>2. CASE \E op \in {"refresh", "change"} : RequestInventory(c, op)
  <2>1. PICK op : session' = [session EXCEPT ![c].request = [op |-> op, reply |-> Waiting]]
    BY <1>2 DEF RequestInventory
  <2>2. /\ session'[c] = [session[c] EXCEPT !.request = [op |-> op, reply |-> Waiting]]
        /\ SameElsewhere(c)
    BY <2>1 DEF TypeOK, SameElsewhere
  <2>3. /\ session'[c].request.reply = Waiting /\ session'[c].lookup = session[c].lookup
        /\ session'[c].ready = session[c].ready /\ session'[c].inv = session[c].inv
    BY <1>0, <2>2 DEF SessionState
  <2> QED BY <1>a, <2>2, <2>3 DEF HeldFrom, InvFrom, RequestFrom, LookupFrom
<1>3. CASE TakeDamage(c) \/ RetryDamage(c)
  <2> DEFINE s == [session[c] EXCEPT !.hits = @ + 1]
  <2>0. s \in SessionState
    BY <1>0, SessionFieldTypes
  <2>1. /\ s.lookup = session[c].lookup /\ s.inv = session[c].inv
        /\ s.ready = session[c].ready /\ s.request = session[c].request
    BY <1>0 DEF SessionState
  <2> HIDE DEF s
  <2>2. \/ session' = session \/ Pump(c, s)
        \/ session[c].hits > 0 /\ Submit(c, session[c])
    BY <1>3 DEF TakeDamage, RetryDamage, s
  <2>3. CASE session' = session
    BY <2>3, UnchangedHeld
  <2>4. CASE session' # session
    <3>1. /\ SameElsewhere(c)
          /\ session'[c].lookup = session[c].lookup /\ session'[c].inv = session[c].inv
          /\ session'[c].ready => session[c].ready
          /\ session'[c].request.reply \in {session[c].request.reply, Waiting}
      BY <1>0, <2>0, <2>1, <2>2, <2>4, PumpKeeps
    <3> QED BY <1>a, <3>1 DEF HeldFrom, InvFrom, RequestFrom, LookupFrom
  <2> QED BY <2>3, <2>4
<1>4. CASE InventoryAnswered(c)
  <2> DEFINE r == session[c].request.reply
             s == Finish(session[c], r)
  <2>1. r \in Reply /\ r # Waiting /\ Pump(c, s)
    BY <1>0, <1>4 DEF InventoryAnswered, SessionState
  <2>2. /\ s \in SessionState /\ s.lookup = session[c].lookup /\ s.request = NoRequest
        /\ s.ready =>
             \/ session[c].ready /\ s.inv = session[c].inv
             \/ r.answer = "loaded" /\ s.inv = r.state
    BY <1>0, <2>1, FinishType, FinishKeeps
  <2> HIDE DEF s
  <2>3. /\ SameElsewhere(c)
        /\ session'[c].lookup = s.lookup /\ session'[c].inv = s.inv
        /\ session'[c].ready => s.ready
        /\ session'[c].request.reply \in {s.request.reply, Waiting}
    BY <2>1, <2>2, PumpKeeps
  <2> QED BY <1>a, <2>2, <2>3 DEF HeldFrom, InvFrom, RequestFrom, LookupFrom, NoRequest
<1>5. CASE InventoryTimeout(c)
  <2>1. SameElsewhere(c) /\ session'[c] = Finish(session[c], Failed)
    BY <1>5 DEF InventoryTimeout, TypeOK, SameElsewhere
  <2>2. Failed # Waiting /\ Failed.answer # "loaded"
    BY DEF Failed, Waiting
  <2>3. /\ session'[c].lookup = session[c].lookup /\ session'[c].request = NoRequest
        /\ session'[c].ready => session[c].ready /\ session'[c].inv = session[c].inv
    BY <1>0, <2>1, <2>2, ReplyTypes, FinishKeeps
  <2> QED BY <1>a, <2>1, <2>3 DEF HeldFrom, InvFrom, RequestFrom, LookupFrom, NoRequest
<1>6. ASSUME NEW t \in TradeIds, QueryTrade(c, t) PROVE \A d \in Characters : HeldFrom(d)
  <2>1. session' = [session EXCEPT ![c].lookup = [trade |-> t, reply |-> Waiting]]
    BY <1>6 DEF QueryTrade
  <2>2. /\ session'[c] = [session[c] EXCEPT !.lookup = [trade |-> t, reply |-> Waiting]]
        /\ SameElsewhere(c)
    BY <2>1 DEF TypeOK, SameElsewhere
  <2>3. /\ session'[c].lookup = [trade |-> t, reply |-> Waiting]
        /\ session'[c].request = session[c].request
        /\ session'[c].ready = session[c].ready /\ session'[c].inv = session[c].inv
    BY <1>0, <2>2 DEF SessionState
  <2> QED BY <1>6, <1>a, <2>2, <2>3 DEF HeldFrom, InvFrom, RequestFrom, LookupFrom
<1>7. CASE LookupAnswered(c)
  <2> DEFINE reply == session[c].lookup.reply
             done == [session[c] EXCEPT !.lookup = NoLookup]
  <2>1. /\ SameElsewhere(c) /\ reply \in LookupReply /\ reply # Waiting
        /\ session'[c] = IF reply.answer = "error" THEN done
                         ELSE ApplyTradeInventory(done, reply.state)
    BY <1>0, <1>7 DEF LookupAnswered, TypeOK, SameElsewhere, SessionState
  <2>2. done \in SessionState
    BY <1>0, SessionFieldTypes
  <2>3. /\ done.lookup = NoLookup /\ done.request = session[c].request
        /\ done.ready = session[c].ready /\ done.inv = session[c].inv
    BY <1>0 DEF SessionState
  <2> HIDE DEF done
  <2>4. /\ session'[c].lookup = NoLookup /\ session'[c].request = session[c].request
        /\ \/ session'[c].ready = session[c].ready /\ session'[c].inv = session[c].inv
           \/ reply.answer # "error" /\ session'[c].inv = reply.state
    BY <2>1, <2>2, <2>3 DEF ApplyTradeInventory, SessionState
  <2>5. reply.answer # "error" => reply.answer = "loaded"
    BY <2>1 DEF LookupReply, Failed
  <2> QED BY <1>a, <2>1, <2>4, <2>5 DEF HeldFrom, InvFrom, RequestFrom, LookupFrom
<1>8. CASE LeaveMap(c)
  BY <1>8, UnchangedHeld DEF LeaveMap
<1> QED BY <1>1, <1>2, <1>3, <1>4, <1>5, <1>6, <1>7, <1>8

LEMMA TradeStepHeld ==
  ASSUME TypeInv, WaitInv, HandleTrade \/ UpdateTrade
  PROVE  \A c \in Characters : HeldFrom(c)
<1>0. TypeOK /\ \A c \in Characters : session[c] \in SessionState
  BY DEF TypeInv, TypeOK
<1>1. session' = session => \A c \in Characters : HeldFrom(c)
  BY UnchangedHeld
<1>2. ASSUME NEW x, NEW y, NEW t, Invite(x, y, t) PROVE session' = session
  BY <1>2 DEF Invite
<1>3. ASSUME NEW c, NEW t,
             \/ ReadState(c, t) \/ Accept(c, t)
             \/ \E goods \in SUBSET Goods : Offer(c, t, goods)
             \/ FirstConfirm(c, t) \/ CancelRequest(c, t) \/ FoundApart(c, t)
      PROVE  session' = session
  BY <1>3 DEF ReadState, Accept, Offer, FirstConfirm, CancelRequest, FoundApart
<1>4. ASSUME NEW d, NEW t, LastConfirm(d, t) PROVE \A c \in Characters : HeldFrom(c)
  <2>1. \A c \in Characters : session'[c] \in {session[c], [session[c] EXCEPT !.paused = TRUE]}
    BY <1>4 DEF LastConfirm
  <2>2. \A c \in Characters :
          /\ session'[c].request = session[c].request /\ session'[c].lookup = session[c].lookup
          /\ session'[c].ready = session[c].ready /\ session'[c].inv = session[c].inv
    BY <1>0, <2>1 DEF SessionState
  <2> QED BY <2>2 DEF HeldFrom, InvFrom, RequestFrom, LookupFrom
<1>5. ASSUME NEW t \in TradeIds, ExchangeAnswered(t) PROVE \A c \in Characters : HeldFrom(c)
  <2>1. session' = session \/ Settle(t)
    BY <1>5 DEF ExchangeAnswered, KeepAsking
  <2>2. trades[t].pending \notin {NoPending, Pending}
    BY <1>5 DEF ExchangeAnswered
  <2>3. ASSUME Settle(t), NEW c \in Characters PROVE HeldFrom(c)
    <3> DEFINE state == trades[t].pending.states[SideOf(c, t)]
    <3>1. \/ session'[c] = session[c]
          \/ c \in Members(t) /\ session'[c] = ApplyTradeInventory(session[c], state)
      BY <2>3 DEF Settle
    <3> HIDE DEF state
    <3>2. ASSUME c \in Members(t), session'[c] = ApplyTradeInventory(session[c], state)
          PROVE  HeldFrom(c)
      <4>1. /\ session'[c].request = session[c].request /\ session'[c].lookup = session[c].lookup
            /\ session'[c].inv = state
        BY <1>0, <3>2 DEF ApplyTradeInventory, SessionState
      <4> QED BY <2>2, <3>2, <4>1 DEF HeldFrom, InvFrom, RequestFrom, LookupFrom, state
    <3> QED BY <3>1, <3>2, UnchangedHeld
  <2> QED BY <1>1, <2>1, <2>3
<1>6. ASSUME NEW t \in TradeIds, RetryExchange(t) \/ ExpireTrade(t) \/ EraseTrade(t)
      PROVE  session' = session
  BY <1>6 DEF RetryExchange, ExpireTrade, EraseTrade
<1> QED BY <1>1, <1>2, <1>3, <1>4, <1>5, <1>6 DEF HandleTrade, UpdateTrade

LEMMA ToldHeld ==
  ASSUME TypeOK, NEW j \in Job, Told(j), Live(j) => Asked(j), running' = Idle,
         running = Idle => orphans' = orphans, running # Idle => running.job = j,
         NoLookupRuns, UNCHANGED <<stored, receipts>>
  PROVE  \A c \in Characters : HeldFrom(c)
<1>1. CASE session' = session
  BY <1>1, UnchangedHeld
<1>2. ASSUME Live(j), j.kind = "apply" PROVE \A c \in Characters : HeldFrom(c)
  <2>1. j.owner \in Characters /\ session[j.owner] \in SessionState
    BY <1>2, LiveTypes DEF TypeOK
  <2>2. PICK reply \in {Failed, Loaded(stored[j.owner])} :
          session' = [session EXCEPT ![j.owner].request.reply = reply]
    BY <1>2 DEF Told, Live, IsExchange, FulfilRequest
  <2>3. /\ session'[j.owner] = [session[j.owner] EXCEPT !.request.reply = reply]
        /\ \A d \in Characters : d # j.owner => session'[d] = session[d]
    BY <2>1, <2>2 DEF TypeOK
  <2>4. LET c == j.owner
        IN /\ session'[c].request.reply = reply /\ session'[c].lookup = session[c].lookup
           /\ session'[c].ready = session[c].ready /\ session'[c].inv = session[c].inv
    BY <2>1, <2>3 DEF SessionState
  <2>5. HeldFrom(j.owner)
    BY <2>4 DEF HeldFrom, InvFrom, RequestFrom, LookupFrom
  <2> QED BY <2>3, <2>5, UnchangedHeld
<1>3. ASSUME Live(j), j.kind = "lookup" PROVE \A c \in Characters : HeldFrom(c)
  <2>1. j.owner \in Characters /\ session[j.owner] \in SessionState /\ j.trade \in TradeIds
        /\ session[j.owner].lookup = [trade |-> j.trade, reply |-> Waiting]
    BY <1>3, LiveTypes DEF TypeOK, Asked
  <2>2. PICK reply :
          /\ session' = [session EXCEPT ![j.owner].lookup.reply = reply]
          /\ reply = Failed \/ (Unlocked(j) /\ reply = Looked(j.owner, j.trade))
    BY <1>3 DEF Told, Live, IsExchange, FulfilLookup, Looked
  <2>3. /\ session'[j.owner] = [session[j.owner] EXCEPT !.lookup.reply = reply]
        /\ \A d \in Characters : d # j.owner => session'[d] = session[d]
    BY <2>1, <2>2 DEF TypeOK
  <2>4. LET c == j.owner
        IN /\ session'[c].lookup = [trade |-> j.trade, reply |-> reply]
           /\ session'[c].request = session[c].request
           /\ session'[c].ready = session[c].ready /\ session'[c].inv = session[c].inv
    BY <2>1, <2>3 DEF SessionState
  <2>5. Unlocked(j) => j.owner \notin LockedRows
    BY <1>3 DEF Unlocked, RowsOf
  <2>6. running = Idle /\ OpenJobs' \subseteq OpenJobs
    BY <1>3 DEF NoLookupRuns, OpenJobs
  <2>7. HeldFrom(j.owner)
    <3>1. InvFrom(j.owner) /\ RequestFrom(j.owner)
      BY <2>4 DEF InvFrom, RequestFrom
    <3>2. LookupFrom(j.owner)
      BY <2>1, <2>2, <2>4, <2>5, <2>6 DEF LookupFrom
    <3> QED BY <3>1, <3>2 DEF HeldFrom
  <2> QED BY <2>3, <2>7, UnchangedHeld
<1> QED BY <1>1, <1>2, <1>3, JobKinds DEF Told, IsExchange, Live, FulfilExchange, FulfilRequest, FulfilLookup

LEMMA StepHeld ==
  ASSUME ExchangeInv, SessionInv, [Next]_vars
  PROVE  Crash \/ \A c \in Characters : HeldFrom(c)
<1>0. TypeOK /\ TypeInv /\ NoLookupRuns /\ WaitInv /\ LiveInv
  BY DEF ExchangeInv, TypeInv, SessionInv
<1>1. CASE DatabaseStep \/ CommitRunning \/ RollbackRunning \/ UNCHANGED vars
  <2>1. session' = session
    BY <1>1 DEF DatabaseStep, OrphanCommits, OrphanRollsBack, CommitRunning, RollbackRunning,
                vars
  <2> QED BY <2>1, UnchangedHeld
<1>2. CASE TakesJob
  <2>1. /\ Head(queue) = queue[1] /\ 1 \in DOMAIN queue /\ queue[1] \in Job
        /\ running = Idle /\ UNCHANGED <<stored, receipts, orphans>>
    BY <1>0, <1>2, TailJobs, QueueJobs DEF TakesJob
  <2>2. CASE Begins(queue[1])
    BY <2>2, UnchangedHeld DEF Begins
  <2>3. CASE running' = Idle /\ Told(queue[1])
    <3>1. Live(queue[1]) => Asked(queue[1])
      BY <1>0, <2>1 DEF LiveInv
    <3> QED BY <1>0, <2>1, <2>3, <3>1, ToldHeld
  <2> QED BY <1>2, <2>1, <2>2, <2>3 DEF TakesJob
<1>3. CASE EndsJob
  <2>1. running.job \in Job /\ running # Idle /\ running' = Idle /\ Told(running.job)
        /\ UNCHANGED <<stored, receipts>>
    BY <1>0, <1>3, RunningType DEF EndsJob
  <2>2. Live(running.job) => Asked(running.job)
    BY <1>0, <2>1 DEF LiveInv
  <2> QED BY <1>0, <2>1, <2>2, ToldHeld
<1> QED BY <1>0, <1>1, <1>2, <1>3, SessionStepHeld, TradeStepHeld, WorkerSplits DEF Next

(***************************************************************************)
(* Truth.  A client is told the fate of a trade when it ends, or when the  *)
(* worker looks the record up; neither answer is ever contradicted.        *)
(***************************************************************************)

LookupInv ==
  \A c \in Characters : session[c].lookup # NoLookup =>
    LET t == session[c].lookup.trade
        reply == session[c].lookup.reply
    IN /\ t \in TradeIds /\ parties[t] # <<>> /\ ~Open(t) /\ c \in Members(t)
       /\ reply.answer = "loaded" =>
            IF reply.verdict = "Completed" THEN HasReceipt(t) ELSE Dead(t)

VerdictInv ==
  \A t \in TradeIds :
    /\ "Completed" \in verdicts[t] => HasReceipt(t)
    /\ "Cancelled" \in verdicts[t] => Dead(t)

TruthInv == RecordInv /\ AnswerInv /\ LookupInv /\ VerdictInv

LEMMA EndedStays ==
  ASSUME ExchangeInv, [Next]_vars, NEW t \in TradeIds, parties[t] # <<>>, ~Open(t)
  PROVE  parties'[t] = parties[t] /\ ~Open(t)' /\ Members(t)' = Members(t)
<1>0. TypeOK /\ TypeInv
  BY DEF ExchangeInv, TypeInv
<1>1. CASE OnlyCloses
  BY <1>1 DEF OnlyCloses, Open, Members
<1>2. ASSUME NEW x \in Characters, NEW y \in Characters, NEW u \in TradeIds, Invite(x, y, u)
      PROVE  parties'[t] = parties[t] /\ ~Open(t)' /\ Members(t)' = Members(t)
  BY <1>0, <1>2, InviteOpens DEF Open, Members
<1> QED BY <1>0, <1>1, <1>2, StepCloses

LEMMA LookupInvNext ==
  ASSUME ExchangeInv, StorageInv, SessionInv, LookupInv, [Next]_vars
  PROVE  LookupInv'
<1>0. TypeOK
  BY DEF ExchangeInv, TypeInv
<1>1. CASE Crash
  BY <1>1 DEF Crash, LookupInv, Offline
<1>2. CASE \A c \in Characters : HeldFrom(c)
  <2> SUFFICES ASSUME NEW c \in Characters, session'[c].lookup # NoLookup
               PROVE  \E t \in TradeIds :
                        /\ session'[c].lookup.trade = t
                        /\ parties'[t] # <<>> /\ ~Open(t)' /\ c \in Members(t)'
                        /\ session'[c].lookup.reply.answer = "loaded" =>
                             IF session'[c].lookup.reply.verdict = "Completed"
                             THEN HasReceipt(t)' ELSE Dead(t)'
    BY DEF LookupInv
  <2> DEFINE Good(t, reply) ==
        /\ parties'[t] # <<>> /\ ~Open(t)' /\ c \in Members(t)'
        /\ reply.answer = "loaded" =>
             IF reply.verdict = "Completed" THEN HasReceipt(t)' ELSE Dead(t)'
  <2> SUFFICES \E t \in TradeIds : /\ session'[c].lookup.trade = t
                                   /\ Good(t, session'[c].lookup.reply)
    OBVIOUS
  <2>1. ASSUME session'[c].lookup = session[c].lookup
        PROVE  \E t \in TradeIds : /\ session'[c].lookup.trade = t
                                   /\ Good(t, session'[c].lookup.reply)
    BY <2>1, EndedStays, ReceiptStays, DeadStays DEF LookupInv
  <2>2. ASSUME NEW t \in TradeIds, QueryTrade(c, t),
               session'[c].lookup = [trade |-> t, reply |-> Waiting]
        PROVE  Good(t, session'[c].lookup.reply)
    BY <2>2 DEF QueryTrade, Open, Members, Waiting
  <2>3. ASSUME NEW t \in TradeIds, session[c].lookup = [trade |-> t, reply |-> Waiting],
               session'[c].lookup = [trade |-> t, reply |-> Failed]
        PROVE  Good(t, session'[c].lookup.reply)
    <3>1. parties[t] # <<>> /\ ~Open(t) /\ c \in Members(t)
      BY <2>3, TradeAssumption DEF LookupInv, NoLookup, TradeAssumption
    <3> QED BY <2>3, <3>1, EndedStays DEF Failed
  <2>4. ASSUME NEW t \in TradeIds, session[c].lookup = [trade |-> t, reply |-> Waiting],
               session'[c].lookup = [trade |-> t, reply |-> Looked(c, t)],
               c \notin LockedRows
        PROVE  Good(t, session'[c].lookup.reply)
    <3>1. parties[t] # <<>> /\ ~Open(t) /\ c \in Members(t)
      BY <2>4, TradeAssumption DEF LookupInv, NoLookup, TradeAssumption
    <3>2. ~TransactionOpen(t)
      BY <2>4, <3>1, TransactionRows DEF TransactionOpen, IsExchange, LockedRows
    <3>3. HasReceipt(t) => HasReceipt(t)'
      BY ReceiptStays
    <3>4. ~HasReceipt(t) => Dead(t)'
      BY <3>1, <3>2, DeadStays DEF Dead, Untouched
    <3>5. session'[c].lookup.reply.verdict = IF HasReceipt(t) THEN "Completed" ELSE "Cancelled"
      BY <2>4 DEF Looked
    <3> QED BY <2>4, <3>1, <3>3, <3>4, <3>5, EndedStays
  <2>5. LookupFrom(c)
    BY <1>2 DEF HeldFrom
  <2> HIDE DEF Good
  <2>6. ASSUME NEW t \in TradeIds, NEW r, session'[c].lookup = [trade |-> t, reply |-> r]
        PROVE  session'[c].lookup.trade = t
    BY <2>6
  <2> QED BY <2>1, <2>2, <2>3, <2>4, <2>5, <2>6 DEF LookupFrom
<1> QED BY <1>1, <1>2, StepHeld

\* The clients of t are told that it is cancelled before it was handed over, ...
TellsCancel(t) ==
  /\ trades[t].stage \in {"Invited", "Editing"} /\ trades'[t].stage = "Cancelled"
  /\ verdicts'[t] = verdicts[t] \cup {"Cancelled"}

\* ... what the database answered, ...
TellsAnswer(t) ==
  /\ trades[t].pending.result \in {"Success", "Stale", "Full"}
  /\ trades[t].stage = "Committing" /\ trades'[t].stage \in {"Completed", "Cancelled"}
  /\ verdicts'[t] = verdicts[t] \cup {Outcome(trades[t].pending.result)}

\* ... or what a lookup found.
TellsLookup(t) ==
  \E c \in Characters :
    /\ session[c].lookup # NoLookup /\ session[c].lookup.trade = t
    /\ session[c].lookup.reply.answer = "loaded"
    /\ session[c].lookup.reply.verdict \in {"Completed", "Cancelled"}
    /\ verdicts'[t] = verdicts[t] \cup {session[c].lookup.reply.verdict}

Tells(t) == verdicts'[t] = verdicts[t] \/ TellsCancel(t) \/ TellsAnswer(t) \/ TellsLookup(t)

LEMMA CancelTells ==
  ASSUME NEW c, TypeOK, Cancel(c)
  PROVE  \A t \in TradeIds : Tells(t)
<1> SUFFICES ASSUME NEW t \in TradeIds, t \in Cancellable(c) PROVE TellsCancel(t)
  BY DEF Cancel, Tells
<1>1. trades'[t] = End(t) /\ trades[t] \in TradeRecord
      /\ trades[t].stage \in {"Invited", "Editing"}
      /\ verdicts'[t] = verdicts[t] \cup {"Cancelled"}
  BY DEF Cancel, Cancellable, ActiveOf, Open, TypeOK
<1> QED BY <1>1 DEF End, TradeRecord, TellsCancel

LEMMA EndTradeTells ==
  ASSUME NEW t \in TradeIds, TypeOK, EndTrade(t), trades[t].stage \in {"Invited", "Editing"}
  PROVE  \A u \in TradeIds : Tells(u)
<1>1. trades'[t] = End(t) /\ trades[t] \in TradeRecord
      /\ verdicts'[t] = verdicts[t] \cup {"Cancelled"}
      /\ \A u \in TradeIds : u # t => verdicts'[u] = verdicts[u]
  BY DEF EndTrade, TypeOK
<1>2. trades'[t].stage = "Cancelled"
  BY <1>1 DEF End, TradeRecord
<1> QED BY <1>1, <1>2 DEF Tells, TellsCancel

LEMMA StepTells ==
  ASSUME TypeOK, NoLookupRuns, [Next]_vars
  PROVE  \A t \in TradeIds : Tells(t)
<1>0. verdicts' = verdicts => \A t \in TradeIds : Tells(t)
  BY DEF Tells
<1>1. ASSUME NEW c \in Characters, LookupAnswered(c) PROVE \A t \in TradeIds : Tells(t)
  <2> DEFINE t == session[c].lookup.trade
             reply == session[c].lookup.reply
  <2>1. /\ session[c] \in SessionState /\ reply \in LookupReply /\ reply # Waiting
        /\ session[c].lookup # NoLookup
        /\ verdicts' = IF reply.answer = "error" THEN verdicts
                       ELSE [verdicts EXCEPT ![t] = @ \cup {reply.verdict}]
    BY <1>1 DEF LookupAnswered, TypeOK, SessionState
  <2>2. reply.answer # "error" =>
          reply.answer = "loaded" /\ reply.verdict \in {"Completed", "Cancelled"}
    BY <2>1 DEF LookupReply, Failed
  <2> SUFFICES ASSUME NEW u \in TradeIds PROVE Tells(u)
    OBVIOUS
  <2>3. CASE reply.answer # "error" /\ u = t
    <3>1. verdicts'[u] = verdicts[u] \cup {reply.verdict}
      BY <2>1, <2>3 DEF TypeOK
    <3> QED BY <2>1, <2>2, <2>3, <3>1 DEF Tells, TellsLookup
  <2>4. CASE ~(reply.answer # "error" /\ u = t)
    <3>1. verdicts'[u] = verdicts[u]
      BY <2>1, <2>4 DEF TypeOK
    <3> QED BY <3>1 DEF Tells
  <2> QED BY <2>3, <2>4
<1>2. ASSUME NEW t \in TradeIds, ExchangeAnswered(t) PROVE \A u \in TradeIds : Tells(u)
  <2>1. CASE KeepAsking(t)
    BY <1>0, <2>1 DEF KeepAsking
  <2>2. CASE trades[t].pending.result # "StorageError" /\ Settle(t)
    <3> DEFINE o == Outcome(trades[t].pending.result)
    <3>1. /\ trades[t] \in TradeRecord /\ trades[t].stage = "Committing"
          /\ trades[t].pending \notin {NoPending, Pending}
          /\ trades'[t] = [trades[t] EXCEPT !.stage = o, !.revision = @ + 1, !.pending = NoPending]
          /\ verdicts'[t] = verdicts[t] \cup {o}
          /\ \A u \in TradeIds : u # t => verdicts'[u] = verdicts[u]
      BY <1>2, <2>2 DEF ExchangeAnswered, Settle, TypeOK
    <3>2. o \in {"Completed", "Cancelled"}
      BY DEF Outcome
    <3> HIDE DEF o
    <3>3. trades'[t].stage = o /\ trades[t].pending.result \in {"Success", "Stale", "Full"}
      BY <2>2, <3>1 DEF TradeRecord, PendingResult
    <3> QED BY <3>1, <3>2, <3>3 DEF Tells, TellsAnswer, o
  <2> QED BY <1>2, <2>1, <2>2 DEF ExchangeAnswered
<1>3. ASSUME NEW c \in Characters, NEW t \in TradeIds, CancelRequest(c, t) \/ FoundApart(c, t)
      PROVE  \A u \in TradeIds : Tells(u)
  BY <1>3, EndTradeTells DEF CancelRequest, FoundApart
<1>4. ASSUME NEW t \in TradeIds, ExpireTrade(t) PROVE \A u \in TradeIds : Tells(u)
  BY <1>4, EndTradeTells DEF ExpireTrade
<1>5. CASE SessionStep
  <2> SUFFICES ASSUME NEW c \in Characters,
      \/ Enter(c) \/ Disconnect(c)
      \/ \E op \in {"refresh", "change"} : RequestInventory(c, op)
      \/ TakeDamage(c) \/ RetryDamage(c)
      \/ InventoryAnswered(c) \/ InventoryTimeout(c)
      \/ \E t \in TradeIds : QueryTrade(c, t)
      \/ LookupAnswered(c) \/ LeaveMap(c)
    PROVE \A t \in TradeIds : Tells(t)
    BY <1>5 DEF SessionStep
  <2>1. verdicts' = verdicts \/ Cancel(c) \/ LookupAnswered(c)
    BY DEF Enter, Disconnect, RequestInventory, TakeDamage, RetryDamage, InventoryAnswered,
           InventoryTimeout, QueryTrade, LeaveMap
  <2> QED BY <1>0, <1>1, <2>1, CancelTells
<1>6. CASE HandleTrade
  <2>1. ASSUME NEW x, NEW y, NEW t, Invite(x, y, t) PROVE verdicts' = verdicts
    BY <2>1 DEF Invite
  <2>2. ASSUME NEW c, NEW t,
               \/ ReadState(c, t) \/ Accept(c, t)
               \/ \E goods \in SUBSET Goods : Offer(c, t, goods)
               \/ FirstConfirm(c, t) \/ LastConfirm(c, t)
        PROVE  verdicts' = verdicts
    BY <2>2 DEF ReadState, Accept, Offer, FirstConfirm, LastConfirm
  <2> QED BY <1>0, <1>3, <1>6, <2>1, <2>2 DEF HandleTrade
<1>7. CASE UpdateTrade
  <2>1. ASSUME NEW t, RetryExchange(t) \/ EraseTrade(t) PROVE verdicts' = verdicts
    BY <2>1 DEF RetryExchange, EraseTrade
  <2> QED BY <1>0, <1>2, <1>4, <1>7, <2>1 DEF UpdateTrade
<1>8. CASE WorkerStep \/ DatabaseStep \/ Crash \/ UNCHANGED vars
  BY <1>0, <1>8 DEF WorkerStep, RunExchange, RunApply, RunLookup, JobFails, CommitRunning,
       RollbackRunning, ReplyCommitted, ReplyUnknown, DatabaseStep, OrphanCommits,
       OrphanRollsBack, Crash, vars
<1> QED BY <1>5, <1>6, <1>7, <1>8 DEF Next

LEMMA VerdictInvNext ==
  ASSUME ExchangeInv, StorageInv, AnswerInv, LookupInv, VerdictInv, [Next]_vars
  PROVE  VerdictInv'
<1>0. TypeOK /\ TypeInv /\ NoLookupRuns
  BY DEF ExchangeInv, TypeInv
<1> SUFFICES ASSUME NEW t \in TradeIds
             PROVE  /\ "Completed" \in verdicts'[t] => HasReceipt(t)'
                    /\ "Cancelled" \in verdicts'[t] => Dead(t)'
  BY DEF VerdictInv
<1>1. /\ "Completed" \in verdicts[t] => HasReceipt(t)'
      /\ "Cancelled" \in verdicts[t] => Dead(t)'
  BY ReceiptStays, DeadStays DEF VerdictInv
<1>2. parties[t] # <<>> => parties'[t] # <<>>
  <2>1. CASE OnlyCloses
    BY <2>1 DEF OnlyCloses
  <2>2. ASSUME NEW x \in Characters, NEW y \in Characters, NEW u \in TradeIds, Invite(x, y, u)
        PROVE  parties[t] # <<>> => parties'[t] # <<>>
    BY <1>0, <2>2, InviteOpens
  <2> QED BY <1>0, <2>1, <2>2, StepCloses
<1>3. CASE TellsCancel(t)
  <2>1. parties[t] # <<>> /\ ~Open(t)' /\ trades[t].pending # Pending
    BY <1>0, <1>3 DEF TellsCancel, Open, TypeInv, KnownParties, ExchangeInv, WaitInv,
                      Pending, NoPending
  <2>2. ~HasReceipt(t)
    BY <1>0, <1>3 DEF TellsCancel, HasReceipt, ExchangeInv, ConfirmedInv, Requested,
                      AsConfirmed, TypeOK
  <2>3. ~TransactionOpen(t)
    BY <1>3, TransactionRows DEF TellsCancel, TransactionOpen, IsExchange, AsConfirmed
  <2>4. Untouched(t)'
    BY <2>1, <2>2, <2>3, UntouchedStays DEF Untouched
  <2> QED BY <1>1, <1>2, <1>3, <2>1, <2>4 DEF TellsCancel, Dead
<1>4. CASE TellsAnswer(t)
  <2>1. parties[t] # <<>> /\ ~Open(t)' /\ trades[t].pending # Pending
    BY <1>0, <1>4 DEF TellsAnswer, Open, TypeInv, KnownParties, Pending
  <2>2. CASE trades[t].pending.result = "Success"
    BY <1>1, <1>4, <2>2, ReceiptStays DEF TellsAnswer, AnswerInv, Outcome
  <2>3. CASE trades[t].pending.result \in {"Stale", "Full"}
    <3>1. Untouched(t)'
      BY <2>1, <2>3, UntouchedStays DEF AnswerInv
    <3> QED BY <1>1, <1>2, <1>4, <2>1, <2>3, <3>1 DEF TellsAnswer, Outcome, Dead
  <2> QED BY <1>4, <2>2, <2>3 DEF TellsAnswer
<1>5. CASE TellsLookup(t)
  <2>1. PICK c \in Characters :
          /\ session[c].lookup # NoLookup /\ session[c].lookup.trade = t
          /\ session[c].lookup.reply.answer = "loaded"
          /\ session[c].lookup.reply.verdict \in {"Completed", "Cancelled"}
          /\ verdicts'[t] = verdicts[t] \cup {session[c].lookup.reply.verdict}
    BY <1>5 DEF TellsLookup
  <2>2. IF session[c].lookup.reply.verdict = "Completed" THEN HasReceipt(t) ELSE Dead(t)
    BY <2>1 DEF LookupInv
  <2> QED BY <1>1, <2>1, <2>2, ReceiptStays, DeadStays
<1> QED BY <1>0, <1>1, <1>3, <1>4, <1>5, StepTells DEF Tells

LEMMA StorageInvInductive ==
  /\ Init => StorageInv
  /\ TypeOK /\ StorageInv /\ [Next]_vars => StorageInv'
<1>1. Init => StorageInv
  BY TradeAssumption
  DEF Init, TradeAssumption, StorageInv, NoDuplication, OffersHeld, RowsApart, RunningOpen
<1>2. StorageInv /\ UNCHANGED vars => StorageInv'
  BY StorageUntouched DEF vars
<1> QED BY <1>1, <1>2, SessionStepStorage, TradeStepStorage, WorkerStepStorage,
           DatabaseStepStorage, CrashStorage DEF Next

FullInv == ExchangeInv /\ StorageInv /\ SessionInv /\ TruthInv

LEMMA FullInvInductive ==
  /\ Init => FullInv
  /\ FullInv /\ [Next]_vars => FullInv'
<1>1. ASSUME Init PROVE FullInv
  <2>1. \A c \in Characters : session[c] = Offline
    BY <1>1 DEF Init
  <2>2. SessionInv
    BY <1>1, <2>1 DEF Init, SessionInv, LiveInv, OfflineInv
  <2>3. LookupInv
    BY <2>1 DEF LookupInv, Offline
  <2>4. RecordInv /\ VerdictInv
    BY <1>1 DEF Init, RecordInv, VerdictInv, OpenJobs
  <2>5. AnswerInv
    BY <1>1 DEF Init, AnswerInv, Absent, NoPending
  <2> QED BY <1>1, <2>2, <2>3, <2>4, <2>5, ExchangeInvInductive, StorageInvInductive
      DEF FullInv, TruthInv
<1>2. ASSUME FullInv, [Next]_vars PROVE FullInv'
  <2>1. TypeOK
    BY <1>2 DEF FullInv, ExchangeInv, TypeInv
  <2> QED BY <1>2, <2>1, ExchangeInvInductive, StorageInvInductive, SessionInvNext,
             RecordInvNext, AnswerInvNext, LookupInvNext, VerdictInvNext
      DEF FullInv, TruthInv
<1> QED BY <1>1, <1>2

\* A client told that a trade is completed or cancelled was told the truth, and
\* stays right: no late commit, retry or restart contradicts an answer already
\* given (TradeManager.cpp:171, TradeRepository.cpp:72).
THEOREM VerdictsStayTrue == Spec => []VerdictsTruthful
<1>1. FullInv => VerdictsTruthful
  BY DEF FullInv, TruthInv, VerdictInv, Dead, Untouched, VerdictsTruthful
<1> QED BY <1>1, FullInvInductive, PTL DEF Spec

(***************************************************************************)
(* Committing.  From the second confirmation on, the sessions of both      *)
(* members have nothing under way that could overwrite what the exchange   *)
(* gives them: a locked character starts only refreshes, a hit is refused, *)
(* and a member is in one open trade, so nothing it does elsewhere ends    *)
(* the lock.                                                               *)
(***************************************************************************)

Still(s) ==
  /\ s.request # NoRequest => s.request.op = "refresh"
  /\ s.lookup = NoLookup
  /\ s.hits = 0 /\ ~s.recovering

LEMMA StillKept ==
  ASSUME NEW s \in SessionState, Still(s)
  PROVE  /\ Still([s EXCEPT !.paused = TRUE])
         /\ \A state : Still(ApplyTradeInventory(s, state))
         /\ Still([s EXCEPT !.request = [op |-> "refresh", reply |-> Waiting]])
         /\ \A reply : s.request # NoRequest => Still([s EXCEPT !.request.reply = reply])
         /\ \A reply : s.request # NoRequest => Still(Finish(s, reply))
<1>1. Still([s EXCEPT !.paused = TRUE])
  BY DEF SessionState, Still
<1>2. ASSUME NEW state PROVE Still(ApplyTradeInventory(s, state))
  BY DEF SessionState, Still, ApplyTradeInventory
<1>3. Still([s EXCEPT !.request = [op |-> "refresh", reply |-> Waiting]])
  BY DEF SessionState, Still
<1>4. ASSUME NEW reply, s.request # NoRequest PROVE Still([s EXCEPT !.request.reply = reply])
  BY <1>4 DEF SessionState, Still
<1>5. ASSUME NEW reply, s.request # NoRequest PROVE Still(Finish(s, reply))
  <2>1. s.request.op = "refresh"
    BY <1>5 DEF Still
  <2>2. Finish(s, reply) =
          IF reply.answer = "error" THEN [s EXCEPT !.request = NoRequest]
          ELSE [s EXCEPT !.request = NoRequest, !.inv = reply.state, !.ready = TRUE,
                         !.recovering = @ /\ s.request.op # "damage",
                         !.paused = @ /\ ~(s.recovering /\ s.request.op = "damage")]
    BY <2>1 DEF Finish
  <2> QED BY <2>1, <2>2 DEF SessionState, Still
<1> QED BY <1>1, <1>2, <1>3, <1>4, <1>5

LEMMA OfflineStill ==
  Still(Offline) /\ Still([Offline EXCEPT !.online = TRUE])
BY DEF Offline, Still

\* A step of one session changes no other.
LEMMA OwnSession ==
  ASSUME TypeOK, NEW d \in Characters,
      \/ Enter(d) \/ Disconnect(d)
      \/ \E op \in {"refresh", "change"} : RequestInventory(d, op)
      \/ TakeDamage(d) \/ RetryDamage(d)
      \/ InventoryAnswered(d) \/ InventoryTimeout(d)
      \/ \E t \in TradeIds : QueryTrade(d, t)
      \/ LookupAnswered(d) \/ LeaveMap(d)
  PROVE  SameElsewhere(d)
<1>1. ASSUME NEW s, Pump(d, s) \/ Submit(d, s) PROVE SameElsewhere(d)
  BY <1>1 DEF Pump, Submit, SameElsewhere, TypeOK
<1>2. CASE TakeDamage(d) \/ RetryDamage(d) \/ InventoryAnswered(d)
  <2>1. session' = session \/ \E s : Pump(d, s) \/ Submit(d, s)
    BY <1>2 DEF TakeDamage, RetryDamage, InventoryAnswered
  <2> QED BY <1>1, <2>1 DEF SameElsewhere
<1>3. CASE \/ Enter(d) \/ Disconnect(d)
           \/ \E op \in {"refresh", "change"} : RequestInventory(d, op)
           \/ InventoryTimeout(d) \/ \E t \in TradeIds : QueryTrade(d, t)
  BY <1>3 DEF Enter, Disconnect, RequestInventory, InventoryTimeout, QueryTrade,
              SameElsewhere, TypeOK
<1>4. CASE LookupAnswered(d) \/ LeaveMap(d)
  BY <1>4 DEF LookupAnswered, LeaveMap, SameElsewhere, TypeOK
<1> QED BY <1>2, <1>3, <1>4

\* A member of a trade that is being committed is locked, and by it alone.
LEMMA CommittingLocks ==
  ASSUME UniqueTrade, NEW t \in TradeIds, trades[t].stage = "Committing",
         NEW c \in Characters, c \in Members(t)
  PROVE  Active(c) /\ Locked(c) /\ Cancellable(c) = {}
<1>1. t \in ActiveOf(c) /\ \A u \in ActiveOf(c) : u = t
  BY DEF ActiveOf, Open, UniqueTrade
<1> QED BY <1>1 DEF Active, Locked, Cancellable

LEMMA SessionStepStill ==
  ASSUME TypeOK, UniqueTrade, SessionStep, NEW t \in TradeIds,
         trades[t].stage = "Committing", NEW c \in Characters, c \in Members(t),
         Still(session[c])
  PROVE  Still(session'[c])
<1> SUFFICES ASSUME NEW d \in Characters,
      \/ Enter(d) \/ Disconnect(d)
      \/ \E op \in {"refresh", "change"} : RequestInventory(d, op)
      \/ TakeDamage(d) \/ RetryDamage(d)
      \/ InventoryAnswered(d) \/ InventoryTimeout(d)
      \/ \E u \in TradeIds : QueryTrade(d, u)
      \/ LookupAnswered(d) \/ LeaveMap(d)
    PROVE Still(session'[c])
  BY DEF SessionStep
<1>0. session[c] \in SessionState /\ Active(c) /\ Locked(c) /\ Cancellable(c) = {}
  BY CommittingLocks DEF TypeOK
<1>1. CASE d # c
  BY <1>1, OwnSession DEF SameElsewhere
<1>2. CASE d = c
  <2>1. CASE Enter(c) \/ Disconnect(c)
    BY <2>1, OfflineStill DEF Enter, Disconnect, TypeOK
  <2>2. ASSUME NEW op \in {"refresh", "change"}, RequestInventory(c, op)
        PROVE  Still(session'[c])
    <3>1. op = "refresh" /\ session' = [session EXCEPT ![c].request = [op |-> op, reply |-> Waiting]]
      BY <1>0, <2>2 DEF RequestInventory
    <3>2. session'[c] = [session[c] EXCEPT !.request = [op |-> "refresh", reply |-> Waiting]]
      BY <3>1 DEF TypeOK
    <3> QED BY <1>0, <3>2, StillKept
  <2>3. ~TakeDamage(c) /\ ~RetryDamage(c) /\ ~LookupAnswered(c)
    BY <1>0 DEF TakeDamage, RetryDamage, LookupAnswered, Still
  <2>4. \A u \in TradeIds : ~QueryTrade(c, u)
    BY <1>0 DEF QueryTrade
  <2>5. CASE InventoryAnswered(c)
    <3> DEFINE s == Finish(session[c], session[c].request.reply)
    <3>1. session[c].request # NoRequest /\ Pump(c, s)
      BY <2>5 DEF InventoryAnswered
    <3>2. Still(s)
      BY <1>0, <3>1, StillKept
    <3> HIDE DEF s
    <3>3. session' = [session EXCEPT ![c] = s]
      BY <3>1, <3>2 DEF Pump, Still
    <3> QED BY <3>2, <3>3 DEF TypeOK
  <2>6. CASE InventoryTimeout(c)
    <3>1. session[c].request # NoRequest /\ session'[c] = Finish(session[c], Failed)
      BY <2>6 DEF InventoryTimeout, TypeOK
    <3> QED BY <1>0, <3>1, StillKept
  <2>7. CASE LeaveMap(c)
    BY <2>7 DEF LeaveMap
  <2> QED BY <1>2, <2>1, <2>2, <2>3, <2>4, <2>5, <2>6, <2>7
<1> QED BY <1>1, <1>2

LEMMA ToldStill ==
  ASSUME TypeOK, NEW j \in Job, Told(j), Live(j) => Asked(j),
         NEW c \in Characters, Still(session[c])
  PROVE  Still(session'[c])
<1>1. CASE session' = session
  BY <1>1
<1>2. ASSUME Live(j), j.kind = "apply" PROVE Still(session'[c])
  <2>1. j.owner \in Characters /\ session[j.owner] \in SessionState
        /\ session[j.owner].request # NoRequest
    BY <1>2, LiveTypes DEF TypeOK
  <2>2. PICK reply : session' = [session EXCEPT ![j.owner].request.reply = reply]
    BY <1>2 DEF Told, Live, IsExchange, FulfilRequest
  <2>3. session'[c] = session[c]
        \/ (c = j.owner /\ session'[c] = [session[c] EXCEPT !.request.reply = reply])
    BY <2>1, <2>2 DEF TypeOK
  <2>4. ASSUME c = j.owner, session'[c] = [session[c] EXCEPT !.request.reply = reply]
        PROVE  Still(session'[c])
    <3>1. session[c] \in SessionState /\ session[c].request # NoRequest
      BY <2>1, <2>4
    <3>2. Still([session[c] EXCEPT !.request.reply = reply])
      BY <3>1, StillKept
    <3> QED BY <2>4, <3>2
  <2> QED BY <2>3, <2>4
<1>3. ASSUME Live(j), j.kind = "lookup" PROVE Still(session'[c])
  <2>1. j.owner \in Characters /\ session[j.owner].lookup # NoLookup
    BY <1>3, LiveTypes
  <2>2. PICK reply : session' = [session EXCEPT ![j.owner].lookup.reply = reply]
    BY <1>3 DEF Told, Live, IsExchange, FulfilLookup
  <2>3. c # j.owner
    BY <2>1 DEF Still
  <2> QED BY <2>2, <2>3 DEF TypeOK
<1> QED BY <1>1, <1>2, <1>3, JobKinds
    DEF Told, IsExchange, Live, FulfilExchange, FulfilRequest, FulfilLookup

LEMMA OtherStepsStill ==
  ASSUME ExchangeInv, SessionInv, [Next]_vars, ~SessionStep,
         NEW c \in Characters, Still(session[c])
  PROVE  Still(session'[c])
<1>0. TypeOK /\ NoLookupRuns /\ LiveInv /\ session[c] \in SessionState
  BY DEF ExchangeInv, TypeInv, SessionInv, TypeOK
<1>1. CASE HandleTrade
  <2>1. ASSUME NEW x, NEW y, NEW u, Invite(x, y, u) PROVE session' = session
    BY <2>1 DEF Invite
  <2>2. ASSUME NEW d, NEW u,
               \/ ReadState(d, u) \/ Accept(d, u)
               \/ \E goods \in SUBSET Goods : Offer(d, u, goods)
               \/ FirstConfirm(d, u) \/ CancelRequest(d, u) \/ FoundApart(d, u)
        PROVE  session' = session
    BY <2>2 DEF ReadState, Accept, Offer, FirstConfirm, CancelRequest, FoundApart
  <2>3. ASSUME NEW d, NEW u, LastConfirm(d, u)
        PROVE  session'[c] \in {session[c], [session[c] EXCEPT !.paused = TRUE]}
    BY <2>3 DEF LastConfirm
  <2>4. session'[c] \in {session[c], [session[c] EXCEPT !.paused = TRUE]}
    BY <1>1, <2>1, <2>2, <2>3 DEF HandleTrade
  <2> QED BY <1>0, <2>4, StillKept
<1>2. CASE UpdateTrade
  <2>1. ASSUME NEW u, RetryExchange(u) \/ ExpireTrade(u) \/ EraseTrade(u)
        PROVE  session' = session
    BY <2>1 DEF RetryExchange, ExpireTrade, EraseTrade
  <2>2. ASSUME NEW u, ExchangeAnswered(u)
        PROVE  session'[c] = session[c]
               \/ \E state : session'[c] = ApplyTradeInventory(session[c], state)
    BY <2>2 DEF ExchangeAnswered, KeepAsking, Settle
  <2> QED BY <1>0, <1>2, <2>1, <2>2, StillKept DEF UpdateTrade
<1>3. CASE TakesJob
  <2>1. Head(queue) \in Job /\ (Live(Head(queue)) => Asked(Head(queue)))
    BY <1>0, <1>3, TailJobs, QueueJobs DEF TakesJob, LiveInv
  <2> QED BY <1>0, <1>3, <2>1, ToldStill DEF TakesJob, Begins
<1>4. CASE EndsJob
  <2>1. running.job \in Job /\ Told(running.job) /\ (Live(running.job) => Asked(running.job))
    BY <1>0, <1>4, QueueJobs DEF EndsJob, LiveInv
  <2> QED BY <1>0, <2>1, ToldStill
<1>5. CASE DatabaseStep \/ CommitRunning \/ RollbackRunning \/ UNCHANGED vars
  <2>1. session' = session
    BY <1>5 DEF DatabaseStep, OrphanCommits, OrphanRollsBack, CommitRunning, RollbackRunning,
                vars
  <2> QED BY <2>1
<1>6. CASE Crash
  BY <1>6, OfflineStill DEF Crash
<1> QED BY <1>0, <1>1, <1>2, <1>3, <1>4, <1>5, <1>6, WorkerSplits DEF Next

\* A trade is committing because it was, or because its second side just
\* confirmed; then nothing was under way.
LEMMA CommittingBegins ==
  ASSUME TypeOK, [Next]_vars, NEW t \in TradeIds, trades'[t].stage = "Committing"
  PROVE  /\ Members(t)' = Members(t)
         /\ \/ trades[t].stage = "Committing"
            \/ \A c \in Members(t) \cap Characters : Still(session'[c])
<1>1. CASE AllSteady
  BY <1>1 DEF AllSteady, Steady, Members
<1>2. ASSUME NEW x \in Characters, NEW y \in Characters, NEW u \in TradeIds, Invite(x, y, u)
      PROVE  trades[t].stage = "Committing" /\ Members(t)' = Members(t)
  BY <1>2, InviteOpens DEF Members
<1>3. ASSUME NEW d \in Characters, NEW u \in TradeIds, ReadState(d, u)
      PROVE  trades[t].stage = "Committing" /\ Members(t)' = Members(t)
  BY <1>3 DEF ReadState, Members
<1>4. ASSUME NEW d \in Characters, NEW u \in TradeIds,
             \/ Accept(d, u) \/ \E goods \in SUBSET Goods : Offer(d, u, goods)
             \/ FirstConfirm(d, u) \/ LastConfirm(d, u)
      PROVE  /\ Members(t)' = Members(t)
             /\ \/ trades[t].stage = "Committing"
                \/ \A c \in Members(t) \cap Characters : Still(session'[c])
  <2>1. /\ parties' = parties /\ trades[u] \in TradeRecord
        /\ \A v \in TradeIds : v # u => trades'[v] = trades[v]
    BY <1>4, NegotiationBumps, TradeTypes
  <2>2. Members(t)' = Members(t)
    BY <2>1 DEF Members
  <2>3. CASE Accept(d, u)
    <3>1. trades'[u].stage = "Editing"
      BY <2>1, <2>3 DEF Accept, TypeOK, TradeRecord
    <3> QED BY <2>1, <2>2, <3>1
  <2>4. ASSUME NEW goods \in SUBSET Goods, Offer(d, u, goods) PROVE trades'[u].stage = "Editing"
    BY <2>1, <2>4 DEF Offer, Negotiating, TypeOK, TradeRecord
  <2>5. CASE FirstConfirm(d, u)
    <3>1. trades'[u].stage = "Editing"
      BY <2>1, <2>5 DEF FirstConfirm, Negotiating, TypeOK, TradeRecord
    <3> QED BY <2>1, <2>2, <3>1
  <2>6. CASE LastConfirm(d, u) /\ t = u
    <3> SUFFICES ASSUME NEW c \in Members(t), c \in Characters PROVE Still(session'[c])
      BY <2>2
    <3>1. ~FieldBusy(c) /\ session[c] \in SessionState
      BY <2>6 DEF LastConfirm, TypeOK
    <3>2. Still(session[c])
      BY <3>1 DEF FieldBusy, Still, SessionState
    <3>3. session'[c] = [session[c] EXCEPT !.paused = TRUE]
      BY <2>6 DEF LastConfirm
    <3> QED BY <3>1, <3>2, <3>3, StillKept
  <2> QED BY <1>4, <2>1, <2>2, <2>3, <2>4, <2>5, <2>6
<1> QED BY <1>1, <1>2, <1>3, <1>4, StepSteady DEF Negotiated

LEMMA UndisturbedNext ==
  ASSUME ExchangeInv, SessionInv, UniqueTrade, CommittingUndisturbed, [Next]_vars
  PROVE  CommittingUndisturbed'
<1>0. TypeOK /\ TypeInv
  BY DEF ExchangeInv, TypeInv
<1> SUFFICES ASSUME NEW t \in TradeIds, trades'[t].stage = "Committing",
                    NEW c \in Members(t)'
             PROVE  Still(session'[c])
  BY DEF CommittingUndisturbed, Still
<1>1. c \in Members(t) /\ (trades[t].stage = "Committing" \/
                           \A d \in Members(t) \cap Characters : Still(session'[d]))
  BY <1>0, CommittingBegins
<1>2. parties'[t] # <<>> /\ parties'[t] \in Pairs
  <2>1. TypeOK'
    BY <1>0, NextType
  <2>2. parties'[t] \in Pairs \cup {<<>>}
    BY <2>1 DEF TypeOK
  <2>3. KnownParties'
    BY ExchangeInvInductive DEF ExchangeInv, TypeInv
  <2> QED BY <2>2, <2>3 DEF KnownParties
<1>3. c \in Characters
  BY <1>2 DEF Members, Pairs
<1>4. CASE trades[t].stage = "Committing"
  <2>1. Still(session[c])
    BY <1>1, <1>4 DEF CommittingUndisturbed, Still
  <2> QED BY <1>0, <1>1, <1>3, <1>4, <2>1, SessionStepStill, OtherStepsStill
<1> QED BY <1>1, <1>3, <1>4

TradingInv == FullInv /\ UniqueTrade /\ CommittingUndisturbed

LEMMA TradingInvInductive ==
  /\ Init => TradingInv
  /\ TradingInv /\ [Next]_vars => TradingInv'
<1>1. ASSUME Init PROVE TradingInv
  BY <1>1, FullInvInductive, TradeInvInductive
  DEF TradingInv, TradeInv, Init, Absent, CommittingUndisturbed
<1>2. ASSUME TradingInv, [Next]_vars PROVE TradingInv'
  <2>1. TradeInv'
    BY <1>2, TradeInvInductive DEF TradingInv, FullInv, ExchangeInv, TradeInv
  <2> QED BY <1>2, <2>1, FullInvInductive, UndisturbedNext
      DEF TradingInv, FullInv, TradeInv
<1> QED BY <1>1, <1>2

\* While a trade is being committed its members have nothing under way that
\* could overwrite the exchanged inventories: no change, hit, lookup or
\* recovery (GameSession.cpp:74, GameSession.cpp:90, TradeManager.cpp:143).
THEOREM CommittingIsUndisturbed == Spec => []CommittingUndisturbed
<1>1. TradingInv => CommittingUndisturbed
  BY DEF TradingInv
<1> QED BY <1>1, TradingInvInductive, PTL DEF Spec

(***************************************************************************)
(* What is cached.  A revision names one state of an inventory: every      *)
(* commit of a change takes the next one.  So whatever state is on its way *)
(* to a session, or shown by one, is an earlier one or the current one.    *)
(***************************************************************************)

Past(c, s) == s.rev <= stored[c].rev /\ (s.rev = stored[c].rev => s = stored[c])
PastAfter(c, s) == s.rev <= stored'[c].rev /\ (s.rev = stored'[c].rev => s = stored'[c])

Answered(t) == trades[t].pending \notin {NoPending, Pending}

PastInv ==
  /\ \A c \in Characters :
       /\ session[c].ready => Past(c, session[c].inv)
       /\ session[c].request.reply.answer = "loaded" =>
            Past(c, session[c].request.reply.state)
       /\ session[c].lookup.reply.answer = "loaded" =>
            Past(c, session[c].lookup.reply.state)
  /\ \A t \in TradeIds : Answered(t) =>
       \A s \in Sides : Past(parties[t][s], trades[t].pending.states[s])

LEMMA EffectAdvances ==
  ASSUME TypeOK, NEW j \in Job, Effect(j), NEW c \in Characters
  PROVE  stored'[c] = stored[c] \/ stored'[c].rev = stored[c].rev + 1
<1>1. CASE /\ j.kind = "exchange"
           /\ stored' = [d \in Characters |->
                IF d \notin RowsOf(j) THEN stored[d]
                ELSE [rev |-> stored[d].rev + 1,
                      goods |-> GoodsAfter(j.request,
                                  IF j.request.chars[1] = d THEN 1 ELSE 2)]]
  BY <1>1
<1>2. ASSUME NEW used, stored' = [stored EXCEPT ![j.owner] = Changed(@, used)]
      PROVE  stored'[c] = stored[c] \/ stored'[c].rev = stored[c].rev + 1
  BY <1>2 DEF TypeOK, Changed
<1> QED BY <1>1, <1>2 DEF Effect

LEMMA StoredAdvances ==
  ASSUME ExchangeInv, StorageInv, [Next]_vars, NEW c \in Characters
  PROVE  stored'[c] = stored[c] \/ stored'[c].rev = stored[c].rev + 1
<1>1. TypeOK
  BY DEF ExchangeInv, TypeInv
<1>2. ASSUME NEW j \in OpenJobs, Commits(j)
      PROVE  stored'[c] = stored[c] \/ stored'[c].rev = stored[c].rev + 1
  BY <1>1, <1>2, OpenTypes, EffectAdvances DEF Commits
<1> QED BY <1>2, TransactionSteps DEF NothingNew, Starts

LEMMA PastStays ==
  ASSUME ExchangeInv, StorageInv, [Next]_vars, NEW c \in Characters, NEW s \in Snapshot,
         Past(c, s)
  PROVE  PastAfter(c, s)
<1>1. stored[c] \in Snapshot
  BY DEF ExchangeInv, TypeInv, TypeOK
<1>2. s.rev \in Nat /\ stored[c].rev \in Nat
  BY <1>1 DEF Snapshot
<1> QED BY <1>2, StoredAdvances DEF Past, PastAfter

\* The states of an answer are those of the two members.
LEMMA AnswerStates ==
  ASSUME TypeOK, NEW t \in TradeIds, Answered(t)
  PROVE  \A s \in Sides : trades[t].pending.states[s] \in Snapshot
<1>1. trades[t].pending \in PendingResult
  BY DEF TypeOK, TradeRecord
<1>2. trades[t].pending.states \in Offers
  BY <1>1 DEF PendingResult, Answered
<1> QED BY <1>2 DEF Offers

LEMMA MemberSide ==
  ASSUME NEW t \in TradeIds, parties[t] \in Pairs
  PROVE  /\ \A c \in Members(t) : c \in Characters /\ SideOf(c, t) \in Sides
                                  /\ parties[t][SideOf(c, t)] = c
         /\ \A s \in Sides : parties[t][s] \in Characters
BY DEF Members, SideOf, Pairs

LEMMA KnownPairs ==
  ASSUME TypeInv, NEW t \in TradeIds, trades[t].stage # "absent"
  PROVE  parties[t] \in Pairs
BY DEF TypeInv, TypeOK, KnownParties

LEMMA LoadedTypes ==
  ASSUME TypeOK, NEW c \in Characters
  PROVE  /\ session[c].inv \in Snapshot /\ stored[c] \in Snapshot
         /\ session[c].request.reply.answer = "loaded" =>
              session[c].request.reply.state \in Snapshot
         /\ session[c].lookup.reply.answer = "loaded" =>
              session[c].lookup.reply.state \in Snapshot
<1>1. session[c] \in SessionState /\ stored[c] \in Snapshot
  BY DEF TypeOK
<1>2. session[c].request.reply \in Reply /\ session[c].lookup.reply \in LookupReply
      /\ session[c].inv \in Snapshot
  BY <1>1 DEF SessionState
<1> QED BY <1>1, <1>2 DEF Reply, LookupReply, Waiting, Failed

LEMMA SessionPastNext ==
  ASSUME ExchangeInv, StorageInv, SessionInv, PastInv, [Next]_vars, NEW c \in Characters
  PROVE  /\ session'[c].ready => PastAfter(c, session'[c].inv)
         /\ session'[c].request.reply.answer = "loaded" =>
              PastAfter(c, session'[c].request.reply.state)
         /\ session'[c].lookup.reply.answer = "loaded" =>
              PastAfter(c, session'[c].lookup.reply.state)
<1>0. TypeOK /\ TypeInv /\ WaitInv
  BY DEF ExchangeInv, TypeInv
<1>1. CASE Crash
  BY <1>1 DEF Crash, Offline, NoRequest, NoLookup, Waiting
<1>2. CASE HeldFrom(c)
  <2>1. stored' = stored => PastAfter(c, stored[c])
    BY <1>0, LoadedTypes DEF PastAfter, Snapshot
  <2>2. session'[c].ready => PastAfter(c, session'[c].inv)
    <3> SUFFICES ASSUME session'[c].ready PROVE PastAfter(c, session'[c].inv)
      OBVIOUS
    <3>1. CASE session[c].ready /\ session'[c].inv = session[c].inv
      BY <1>0, <3>1, LoadedTypes, PastStays DEF PastInv
    <3>2. CASE /\ session[c].request.reply.answer = "loaded"
               /\ session'[c].inv = session[c].request.reply.state
      BY <1>0, <3>2, LoadedTypes, PastStays DEF PastInv
    <3>3. CASE /\ session[c].lookup.reply.answer = "loaded"
               /\ session'[c].inv = session[c].lookup.reply.state
      BY <1>0, <3>3, LoadedTypes, PastStays DEF PastInv
    <3>4. ASSUME NEW t \in TradeIds, Answered(t), c \in Members(t),
                 session'[c].inv = trades[t].pending.states[SideOf(c, t)]
          PROVE  PastAfter(c, session'[c].inv)
      <4>1. parties[t] \in Pairs
        BY <1>0, <3>4, KnownPairs DEF WaitInv, Answered
      <4>2. SideOf(c, t) \in Sides /\ parties[t][SideOf(c, t)] = c
        BY <3>4, <4>1, MemberSide
      <4>3. Past(c, session'[c].inv) /\ session'[c].inv \in Snapshot
        BY <1>0, <3>4, <4>2, AnswerStates DEF PastInv
      <4> QED BY <4>3, PastStays
    <3> QED BY <1>2, <3>1, <3>2, <3>3, <3>4 DEF HeldFrom, InvFrom, Answered
  <2>3. session'[c].request.reply.answer = "loaded" =>
          PastAfter(c, session'[c].request.reply.state)
    <3>1. CASE session'[c].request.reply = session[c].request.reply
      BY <1>0, <3>1, LoadedTypes, PastStays DEF PastInv
    <3>2. CASE session'[c].request.reply \in {Waiting, Failed}
      BY <3>2 DEF Waiting, Failed
    <3>3. CASE session'[c].request.reply = Loaded(stored[c]) /\ stored' = stored
      BY <2>1, <3>3 DEF Loaded
    <3> QED BY <1>2, <3>1, <3>2, <3>3 DEF HeldFrom, RequestFrom
  <2>4. session'[c].lookup.reply.answer = "loaded" =>
          PastAfter(c, session'[c].lookup.reply.state)
    <3>1. CASE session'[c].lookup = session[c].lookup
      BY <1>0, <3>1, LoadedTypes, PastStays DEF PastInv
    <3>2. CASE session'[c].lookup.reply \in {Waiting, Failed}
      BY <3>2 DEF Waiting, Failed
    <3>3. ASSUME NEW t, session'[c].lookup.reply = Looked(c, t), stored' = stored
          PROVE  PastAfter(c, session'[c].lookup.reply.state)
      BY <2>1, <3>3 DEF Looked
    <3>4. \/ session'[c].lookup = session[c].lookup
          \/ session'[c].lookup.reply \in {Waiting, Failed}
          \/ \E t : session'[c].lookup.reply = Looked(c, t) /\ stored' = stored
      <4>1. CASE session'[c].lookup = NoLookup
        BY <4>1 DEF NoLookup
      <4>2. ASSUME NEW t, session'[c].lookup = [trade |-> t, reply |-> Looked(c, t)]
            PROVE  session'[c].lookup.reply = Looked(c, t)
        BY <4>2
      <4>3. ASSUME NEW t, NEW r \in {Waiting, Failed},
                   session'[c].lookup = [trade |-> t, reply |-> r]
            PROVE  session'[c].lookup.reply \in {Waiting, Failed}
        BY <4>3
      <4> QED BY <1>2, <4>1, <4>2, <4>3 DEF HeldFrom, LookupFrom
    <3> QED BY <3>1, <3>2, <3>3, <3>4
  <2> QED BY <2>2, <2>3, <2>4
<1> QED BY <1>1, <1>2, StepHeld

\* An answer carries what its members hold in the database when it is given.
LEMMA ToldPast ==
  ASSUME ExchangeInv, NEW j \in Job, Told(j), IsExchange(j) => Requested(j.request),
         stored' = stored, NEW t \in TradeIds
  PROVE  \/ trades'[t].pending = trades[t].pending
         \/ \A s \in Sides : PastAfter(parties[t][s], trades'[t].pending.states[s])
<1>0. TypeOK
  BY DEF ExchangeInv, TypeInv
<1>1. CASE IsExchange(j) /\ t = j.request.id
  <2>1. j.request \in Request /\ AsConfirmed(j.request)
    BY <1>1, JobKinds DEF IsExchange, ExchangeInv, ConfirmedInv
  <2>2. parties[t] = j.request.chars /\ j.request.chars \in Pairs
    BY <1>1, <2>1 DEF AsConfirmed, Request
  <2>3. PICK result : trades'[t].pending = Answer(result, StatesOf(j.request))
    BY <1>0, <1>1, AnswerPending
  <2>4. \A s \in Sides : trades'[t].pending.states[s] = stored[parties[t][s]]
    BY <2>2, <2>3 DEF Answer, StatesOf
  <2>5. \A s \in Sides : parties[t][s] \in Characters
    BY <2>2, MemberSide
  <2>6. \A s \in Sides : stored[parties[t][s]].rev \in Nat
    BY <1>0, <2>5, LoadedTypes DEF Snapshot
  <2> QED BY <2>4, <2>6 DEF PastAfter
<1>2. CASE ~(IsExchange(j) /\ t = j.request.id)
  BY <1>0, <1>2, AnswerPending
<1> QED BY <1>1, <1>2

LEMMA PendingPastNext ==
  ASSUME ExchangeInv, StorageInv, PastInv, [Next]_vars, NEW t \in TradeIds,
         trades'[t].pending \notin {NoPending, Pending}
  PROVE  \A s \in Sides : PastAfter(parties'[t][s], trades'[t].pending.states[s])
<1>0. TypeOK /\ TypeInv /\ WaitInv /\ NoLookupRuns
  BY DEF ExchangeInv, TypeInv
<1>a. parties[t] # <<>> => parties'[t] = parties[t]
  <2>1. CASE OnlyCloses
    BY <2>1 DEF OnlyCloses
  <2>2. ASSUME NEW x \in Characters, NEW y \in Characters, NEW u \in TradeIds, Invite(x, y, u)
        PROVE  parties[t] # <<>> => parties'[t] = parties[t]
    BY <1>0, <2>2, InviteOpens
  <2> QED BY <1>0, <2>1, <2>2, StepCloses
<1>1. ASSUME trades'[t].pending = trades[t].pending
      PROVE  \A s \in Sides : PastAfter(parties'[t][s], trades'[t].pending.states[s])
  <2>1. Answered(t) /\ trades[t].stage = "Committing"
    BY <1>0, <1>1 DEF Answered, WaitInv
  <2>2. parties[t] \in Pairs /\ parties'[t] = parties[t]
    BY <1>0, <1>a, <2>1, KnownPairs DEF TypeInv, KnownParties
  <2>3. \A s \in Sides : /\ parties[t][s] \in Characters
                         /\ trades[t].pending.states[s] \in Snapshot
                         /\ Past(parties[t][s], trades[t].pending.states[s])
    BY <1>0, <2>1, <2>2, MemberSide, AnswerStates DEF PastInv
  <2> QED BY <1>1, <2>2, <2>3, PastStays
<1>2. CASE Quiet
  BY <1>1, <1>2 DEF Quiet, QuietPending
<1>3. ASSUME NEW u \in TradeIds, HandsOver(u) PROVE trades'[t].pending = trades[t].pending
  BY <1>3 DEF HandsOver
<1>4. CASE TakesJob
  <2>1. /\ Head(queue) = queue[1] /\ 1 \in DOMAIN queue /\ queue[1] \in Job
        /\ stored' = stored /\ parties' = parties
    BY <1>0, <1>4, TailJobs, QueueJobs DEF TakesJob
  <2>2. CASE Begins(queue[1])
    BY <1>1, <2>2 DEF Begins
  <2>3. CASE Told(queue[1])
    <3>1. IsExchange(queue[1]) => Requested(queue[1].request)
      BY <2>1, ExchangeShape DEF IsExchange, Requested
    <3> QED BY <1>1, <2>1, <2>3, <3>1, ToldPast
  <2> QED BY <1>4, <2>1, <2>2, <2>3 DEF TakesJob
<1>5. CASE EndsJob
  <2>1. running.job \in Job /\ running # Idle /\ Told(running.job)
        /\ stored' = stored /\ parties' = parties
    BY <1>0, <1>5, RunningType DEF EndsJob
  <2>2. IsExchange(running.job) => Requested(running.job.request)
    BY <2>1, ExchangeShape DEF IsExchange, Requested
  <2> QED BY <1>1, <2>1, <2>2, ToldPast
<1>6. CASE \/ CommitRunning \/ RollbackRunning
           \/ \E j \in orphans : OrphanCommits(j) \/ OrphanRollsBack(j)
  BY <1>1, <1>6 DEF CommitRunning, RollbackRunning, OrphanCommits, OrphanRollsBack
<1>7. CASE Crash
  BY <1>7 DEF Crash, Absent
<1> QED BY <1>0, <1>1, <1>2, <1>3, <1>4, <1>5, <1>6, <1>7, StepSplits

LEMMA PastInvNext ==
  ASSUME ExchangeInv, StorageInv, SessionInv, PastInv, [Next]_vars
  PROVE  PastInv'
<1>1. \A c \in Characters :
        /\ session'[c].ready => PastAfter(c, session'[c].inv)
        /\ session'[c].request.reply.answer = "loaded" =>
             PastAfter(c, session'[c].request.reply.state)
        /\ session'[c].lookup.reply.answer = "loaded" =>
             PastAfter(c, session'[c].lookup.reply.state)
  BY SessionPastNext
<1>2. \A t \in TradeIds : trades'[t].pending \notin {NoPending, Pending} =>
        \A s \in Sides : PastAfter(parties'[t][s], trades'[t].pending.states[s])
  BY PendingPastNext
<1> QED BY <1>1, <1>2 DEF PastInv, Past, PastAfter, Answered

\* A cached inventory of the committed revision is the committed inventory:
\* comparing revisions alone makes an offer's goods trustworthy, whatever late
\* answers, retries and lookups overtake each other (TradeManager.cpp:178,
\* GameSession.cpp:56).
THEOREM CachesAreSound == Spec => []CacheSound
<1>1. ASSUME Init PROVE PastInv
  BY <1>1, TradeAssumption
  DEF Init, PastInv, Offline, NoRequest, NoLookup, Waiting, Absent, Answered
<1>2. FullInv /\ PastInv /\ [Next]_vars => PastInv'
  BY PastInvNext DEF FullInv
<1>3. FullInv /\ PastInv => CacheSound
  BY DEF PastInv, Past, CacheSound
<1> QED BY <1>1, <1>2, <1>3, FullInvInductive, PTL DEF Spec

(***************************************************************************)
(* Conservation.  A transaction moves goods between its own rows, which    *)
(* hold what it hands over, or uses some up.                               *)
(***************************************************************************)

\* What the sides hold after an exchange, and who else is affected: nobody.
LEMMA ExchangeEffect ==
  ASSUME TypeOK, NEW j \in Job, Effect(j), IsExchange(j)
  PROVE  LET r == j.request
         IN /\ stored'[r.chars[1]].goods =
                 (stored[r.chars[1]].goods \ r.offers[1].goods) \cup r.offers[2].goods
            /\ stored'[r.chars[2]].goods =
                 (stored[r.chars[2]].goods \ r.offers[2].goods) \cup r.offers[1].goods
            /\ \A c \in Characters : c \notin {r.chars[1], r.chars[2]} => stored'[c] = stored[c]
<1> DEFINE r == j.request
           a == r.chars[1]
           b == r.chars[2]
<1>1. a \in Characters /\ b \in Characters /\ a # b /\ RowsOf(j) = {a, b}
  BY ExchangeTypes DEF IsExchange
<1>2. stored' = [c \in Characters |->
          IF c \notin RowsOf(j) THEN stored[c]
          ELSE [rev |-> stored[c].rev + 1,
                goods |-> GoodsAfter(r, IF r.chars[1] = c THEN 1 ELSE 2)]]
  BY DEF Effect, IsExchange
<1>3. stored'[a].goods = GoodsAfter(r, 1) /\ stored'[b].goods = GoodsAfter(r, 2)
      /\ \A c \in Characters : c \notin {a, b} => stored'[c] = stored[c]
  BY <1>1, <1>2
<1>4. /\ GoodsAfter(r, 1) = (stored[a].goods \ r.offers[1].goods) \cup r.offers[2].goods
      /\ GoodsAfter(r, 2) = (stored[b].goods \ r.offers[2].goods) \cup r.offers[1].goods
  BY DEF GoodsAfter
<1> QED BY <1>3, <1>4

\* An inventory that changes alone can only lose.
LEMMA SpendEffect ==
  ASSUME TypeOK, NEW j \in Job, Effect(j), ~IsExchange(j)
  PROVE  \/ stored' = stored
         \/ /\ j.owner \in Characters
            /\ \A c \in Characters : c # j.owner => stored'[c] = stored[c]
            /\ \E used \in SUBSET stored[j.owner].goods :
                 stored'[j.owner].goods = stored[j.owner].goods \ used
<1>1. ASSUME NEW used \in SUBSET stored[j.owner].goods, j.kind = "apply",
             stored' = [stored EXCEPT ![j.owner] = Changed(@, used)]
      PROVE  /\ j.owner \in Characters
             /\ \A c \in Characters : c # j.owner => stored'[c] = stored[c]
             /\ stored'[j.owner].goods = stored[j.owner].goods \ used
  <2>1. j.owner \in Characters
    BY <1>1, JobKinds
  <2>2. stored'[j.owner] = Changed(stored[j.owner], used)
        /\ \A c \in Characters : c # j.owner => stored'[c] = stored[c]
    BY <1>1, <2>1 DEF TypeOK
  <2> QED BY <2>1, <2>2 DEF Changed
<1>2. {} \in SUBSET stored[j.owner].goods
  OBVIOUS
<1>3. \/ stored' = stored
      \/ /\ j.kind = "apply"
         /\ \E used \in SUBSET stored[j.owner].goods :
              stored' = [stored EXCEPT ![j.owner] = Changed(@, used)]
  BY <1>2 DEF Effect, IsExchange
<1> QED BY <1>1, <1>3

Owned == UNION {stored[c].goods : c \in Characters}
Changes == {c \in Characters : stored'[c] # stored[c]}

LEMMA ConservedStep ==
  ASSUME ExchangeInv, StorageInv, [Next]_vars
  PROVE  GoodsConserved
<1>0. TypeOK
  BY DEF ExchangeInv, TypeInv
<1> SUFFICES /\ \A c \in Characters : \A g \in stored'[c].goods :
                  \E d \in Characters : g \in stored[d].goods
             /\ Cardinality(Changes) > 1 =>
                  \A d \in Characters : \A g \in stored[d].goods :
                    \E c \in Characters : g \in stored'[c].goods
  BY DEF GoodsConserved, Changes
<1>1. CASE stored' = stored
  BY <1>1
<1>2. ASSUME NEW j \in OpenJobs, Commits(j), IsExchange(j)
      PROVE  /\ \A c \in Characters : \A g \in stored'[c].goods :
                  \E d \in Characters : g \in stored[d].goods
             /\ \A d \in Characters : \A g \in stored[d].goods :
                  \E c \in Characters : g \in stored'[c].goods
  <2> DEFINE r == j.request
             a == r.chars[1]
             b == r.chars[2]
  <2>1. j \in Job /\ a \in Characters /\ b \in Characters /\ a # b
    BY <1>0, <1>2, OpenTypes, ExchangeTypes DEF IsExchange
  <2>2. /\ stored'[a].goods = (stored[a].goods \ r.offers[1].goods) \cup r.offers[2].goods
        /\ stored'[b].goods = (stored[b].goods \ r.offers[2].goods) \cup r.offers[1].goods
        /\ \A c \in Characters : c \notin {a, b} => stored'[c] = stored[c]
    BY <1>0, <1>2, <2>1, ExchangeEffect DEF Commits
  <2>3. r.offers[1].goods \subseteq stored[a].goods /\ r.offers[2].goods \subseteq stored[b].goods
    BY <1>2 DEF StorageInv, OffersHeld, Covered, OpenJobs, RunningOpen, IsExchange
  <2> HIDE DEF r, a, b
  <2>4. ASSUME NEW c \in Characters, NEW g \in stored'[c].goods
        PROVE  \E d \in Characters : g \in stored[d].goods
    BY <2>1, <2>2, <2>3, <2>4
  <2>5. ASSUME NEW d \in Characters, NEW g \in stored[d].goods
        PROVE  \E c \in Characters : g \in stored'[c].goods
    BY <2>1, <2>2, <2>3, <2>5
  <2> QED BY <2>4, <2>5
<1>3. ASSUME NEW j \in OpenJobs, Commits(j), ~IsExchange(j), stored' # stored
      PROVE  /\ \A c \in Characters : \A g \in stored'[c].goods :
                  \E d \in Characters : g \in stored[d].goods
             /\ ~(Cardinality(Changes) > 1)
  <2>1. /\ j.owner \in Characters
        /\ \A c \in Characters : c # j.owner => stored'[c] = stored[c]
        /\ \E used \in SUBSET stored[j.owner].goods :
             stored'[j.owner].goods = stored[j.owner].goods \ used
    BY <1>0, <1>3, OpenTypes, SpendEffect DEF Commits
  <2>2. Changes = {} \/ Changes = {j.owner}
    BY <2>1 DEF Changes
  <2>3. Cardinality(Changes) \in {0, 1}
    BY <2>2, FS_EmptySet, FS_Singleton
  <2> QED BY <2>1, <2>3
<1> QED BY <1>1, <1>2, <1>3, TransactionSteps DEF NothingNew, Starts

\* No step brings a good back that was used up, and an exchange hands over
\* goods without losing any (TradeRules.h:9, TradeRepository.cpp:32).
THEOREM NothingIsConjured == Spec => NothingConjured
<1>1. FullInv /\ [Next]_vars => GoodsConserved
  BY ConservedStep DEF FullInv
<1> QED BY <1>1, FullInvInductive, PTL DEF Spec, NothingConjured

(***************************************************************************)
(* The contract.  Each step is a step of TradeContract or changes nothing  *)
(* there: an invitation opens a trade, the COMMIT of an exchange swaps,    *)
(* the COMMIT of a change spends, and whatever leaves a trade with neither *)
(* members who may go on nor a transaction that may commit voids it.       *)
(***************************************************************************)

Held == [c \in Characters |-> stored[c].goods]
Outcomes == [t \in TradeIds |-> ContractOutcome(t)]

ContractStep == Contract!Next \/ UNCHANGED <<Held, parties, Outcomes>>

\* Still open for its players: it may go on, or a transaction may commit it.
StillOpen(t) == Open(t) \/ TransactionOpen(t)

LEMMA OutcomeIs ==
  ASSUME NEW t
  PROVE  ContractOutcome(t) = IF HasReceipt(t) THEN "swapped"
                              ELSE IF parties[t] = <<>> THEN "unused"
                              ELSE IF StillOpen(t) THEN "open" ELSE "void"
BY DEF ContractOutcome, StillOpen

\* Trades can only be voided by a step that records and moves nothing.
LEMMA VoidsTrades ==
  ASSUME Held' = Held, parties' = parties,
         \A t \in TradeIds : /\ HasReceipt(t)' <=> HasReceipt(t)
                             /\ StillOpen(t)' => StillOpen(t)
  PROVE  ContractStep
<1> DEFINE ended == {t \in TradeIds : ContractOutcome(t) = "open" /\ ContractOutcome(t)' = "void"}
<1>1. ASSUME NEW t \in TradeIds
      PROVE  ContractOutcome(t)' = ContractOutcome(t) \/ t \in ended
  <2>1. ContractOutcome(t)' = IF HasReceipt(t)' THEN "swapped"
                              ELSE IF parties'[t] = <<>> THEN "unused"
                              ELSE IF StillOpen(t)' THEN "open" ELSE "void"
    BY DEF ContractOutcome, StillOpen
  <2>2. ContractOutcome(t)' \in {ContractOutcome(t), "void"}
        /\ (ContractOutcome(t)' # ContractOutcome(t) => ContractOutcome(t) = "open")
    BY <2>1, OutcomeIs
  <2> QED BY <2>2
<1>2. CASE ended = {}
  <2>1. Outcomes' = Outcomes
    BY <1>1, <1>2 DEF Outcomes
  <2> QED BY <2>1 DEF ContractStep
<1>3. CASE ended # {}
  <2>1. Outcomes' = [t \in TradeIds |-> IF t \in ended THEN "void" ELSE Outcomes[t]]
    BY <1>1 DEF Outcomes
  <2>2. \A t \in ended : t \in TradeIds /\ Outcomes[t] = "open"
    BY DEF Outcomes
  <2> HIDE DEF ended
  <2>3. Contract!Void(ended)
    BY <1>3, <2>1, <2>2 DEF Contract!Void, Outcomes, Held
  <2>4. ended \in SUBSET TradeIds
    BY <2>2
  <2> QED BY <2>3, <2>4 DEF ContractStep, Contract!Next
<1> QED BY <1>2, <1>3

LEMMA UnusedTrade ==
  ASSUME ExchangeInv, NEW t \in TradeIds, parties[t] = <<>>
  PROVE  ~HasReceipt(t)
<1> SUFFICES ASSUME NEW r \in receipts, r.id = t PROVE FALSE
  BY DEF HasReceipt
<1>1. r \in Request
  BY DEF ExchangeInv, TypeInv, TypeOK
<1>2. r.chars = parties[t]
  BY <1>1 DEF ExchangeInv, ConfirmedInv, Requested, AsConfirmed
<1> QED BY <1>1, <1>2 DEF Request, Pairs

LEMMA InviteOpensContract ==
  ASSUME ExchangeInv, NEW x \in Characters, NEW y \in Characters, NEW t \in TradeIds,
         Invite(x, y, t)
  PROVE  ContractStep
<1>0. TypeOK
  BY DEF ExchangeInv, TypeInv
<1>1. /\ parties[t] = <<>> /\ parties' = [parties EXCEPT ![t] = <<x, y>>] /\ x # y
      /\ parties'[t] = <<x, y>> /\ Open(t)'
      /\ \A u \in TradeIds : u # t => parties'[u] = parties[u] /\ trades'[u] = trades[u]
      /\ UNCHANGED <<stored, receipts, orphans, running>>
  BY <1>0, InviteOpens DEF Invite, Open, db, worker
<1>2. \A u \in TradeIds : HasReceipt(u)' = HasReceipt(u) /\ TransactionOpen(u)' = TransactionOpen(u)
  BY <1>1 DEF HasReceipt, TransactionOpen, OpenJobs
<1>3. ContractOutcome(t) = "unused" /\ ~HasReceipt(t)
  BY <1>1, UnusedTrade, OutcomeIs
<1>4. ContractOutcome(t)' = "open"
  BY <1>1, <1>2, <1>3 DEF ContractOutcome
<1>5. ASSUME NEW u \in TradeIds, u # t PROVE ContractOutcome(u)' = ContractOutcome(u)
  <2>1. Open(u)' = Open(u)
    BY <1>1, <1>5 DEF Open
  <2> QED BY <1>1, <1>2, <1>5, <2>1 DEF ContractOutcome
<1>6. Outcomes[t] = "unused" /\ Outcomes' = [Outcomes EXCEPT ![t] = "open"]
  BY <1>3, <1>4, <1>5 DEF Outcomes
<1>7. Held' = Held
  BY <1>1 DEF Held
<1>8. Contract!Open(t, x, y)
  BY <1>1, <1>6, <1>7 DEF Contract!Open, Outcomes, Held
<1> QED BY <1>8 DEF ContractStep, Contract!Next

LEMMA CommitSwaps ==
  ASSUME FullInv, NEW j \in OpenJobs, Commits(j), IsExchange(j)
  PROVE  ContractStep
<1> DEFINE r == j.request
           t == r.id
           a == r.chars[1]
           b == r.chars[2]
           fromA == r.offers[1].goods
           fromB == r.offers[2].goods
<1>0. TypeOK /\ ExchangeInv /\ StorageInv /\ RecordInv
  BY DEF FullInv, ExchangeInv, TypeInv, TruthInv
<1>1. j \in Job /\ r \in Request /\ t \in TradeIds /\ parties[t] # <<>> /\ parties[t] = r.chars
      /\ AsConfirmed(r)
  BY <1>0, TransactionRows
<1>2. /\ a \in Characters /\ b \in Characters /\ a # b /\ parties[t] = <<a, b>>
      /\ fromA \in SUBSET Goods /\ fromB \in SUBSET Goods
  BY <1>1 DEF Request, Pairs, Offers, Snapshot
<1>3. fromA \cup fromB # {}
  BY <1>1 DEF AsConfirmed
<1>4. fromA \subseteq Held[a] /\ fromB \subseteq Held[b]
  <2>1. fromA \subseteq stored[a].goods /\ fromB \subseteq stored[b].goods
    BY <1>0 DEF StorageInv, OffersHeld, Covered, OpenJobs, RunningOpen, IsExchange
  <2> QED BY <1>2, <2>1 DEF Held
<1>5. Held' = [Held EXCEPT ![a] = (@ \ fromA) \cup fromB, ![b] = (@ \ fromB) \cup fromA]
  <2>1. /\ stored'[a].goods = (stored[a].goods \ fromA) \cup fromB
        /\ stored'[b].goods = (stored[b].goods \ fromB) \cup fromA
        /\ \A c \in Characters : c \notin {a, b} => stored'[c] = stored[c]
    BY <1>0, <1>1, ExchangeEffect DEF Commits
  <2> HIDE DEF a, b, fromA, fromB
  <2> QED BY <1>2, <2>1 DEF Held
<1>6. ContractOutcome(t) = "open" /\ ContractOutcome(t)' = "swapped"
  <2>1. ~HasReceipt(t) /\ TransactionOpen(t)
    BY <1>0 DEF RecordInv, TransactionOpen, IsExchange
  <2>2. HasReceipt(t)'
    BY <1>0, <1>1, CommitReceipts
  <2> QED BY <1>1, <2>1, <2>2 DEF ContractOutcome
<1>7. ASSUME NEW u \in TradeIds, u # t PROVE ContractOutcome(u)' = ContractOutcome(u)
  <2>1. HasReceipt(u)' <=> HasReceipt(u)
    BY <1>0, <1>7, CommitReceipts
  <2>2. TransactionOpen(u)' <=> TransactionOpen(u)
    BY <1>7 DEF Commits, TransactionOpen
  <2>3. parties' = parties /\ (Open(u)' <=> Open(u))
    BY DEF Commits, Open
  <2> QED BY <2>1, <2>2, <2>3 DEF ContractOutcome
<1> HIDE DEF r, t, a, b, fromA, fromB
<1>8. Outcomes[t] = "open" /\ Outcomes' = [Outcomes EXCEPT ![t] = "swapped"]
  BY <1>1, <1>6, <1>7 DEF Outcomes
<1>9. Contract!Swap(t, a, b, fromA, fromB)
  <2>1. parties' = parties
    BY DEF Commits
  <2> QED BY <1>2, <1>3, <1>4, <1>5, <1>8, <2>1 DEF Contract!Swap, Outcomes, Held
<1> QED BY <1>1, <1>2, <1>9 DEF ContractStep, Contract!Next

LEMMA CommitSpends ==
  ASSUME ExchangeInv, NEW j \in OpenJobs, Commits(j), ~IsExchange(j)
  PROVE  ContractStep
<1>0. TypeOK /\ j \in Job /\ Effect(j) /\ parties' = parties /\ trades' = trades
  BY OpenTypes DEF ExchangeInv, TypeInv, Commits
<1>1. Outcomes' = Outcomes
  <2> SUFFICES ASSUME NEW t \in TradeIds PROVE ContractOutcome(t)' = ContractOutcome(t)
    BY DEF Outcomes
  <2>1. receipts' = receipts
    BY <1>0, EffectRecords
  <2>2. HasReceipt(t)' <=> HasReceipt(t)
    BY <2>1 DEF HasReceipt
  <2>3. TransactionOpen(t)' <=> TransactionOpen(t)
    BY DEF Commits, TransactionOpen, IsExchange
  <2>4. Open(t)' <=> Open(t)
    BY <1>0 DEF Open
  <2> QED BY <1>0, <2>2, <2>3, <2>4 DEF ContractOutcome
<1>2. CASE stored' = stored
  <2>1. Held' = Held
    BY <1>2 DEF Held
  <2> QED BY <1>0, <1>1, <2>1 DEF ContractStep
<1>3. CASE stored' # stored
  <2>1. PICK used \in SUBSET stored[j.owner].goods :
          /\ j.owner \in Characters
          /\ \A c \in Characters : c # j.owner => stored'[c] = stored[c]
          /\ stored'[j.owner].goods = stored[j.owner].goods \ used
    BY <1>0, <1>3, SpendEffect
  <2>2. used \in SUBSET Goods /\ used \subseteq Held[j.owner]
    BY <1>0, <2>1 DEF TypeOK, Snapshot, Held
  <2>3. Held' = [Held EXCEPT ![j.owner] = @ \ used]
    BY <2>1 DEF Held
  <2>4. Contract!Spend(j.owner, used)
    BY <1>0, <1>1, <2>2, <2>3 DEF Contract!Spend, Outcomes, Held
  <2> QED BY <2>1, <2>2, <2>4 DEF ContractStep, Contract!Next
<1> QED BY <1>2, <1>3

LEMMA StepKeepsContract ==
  ASSUME FullInv, [Next]_vars
  PROVE  ContractStep
<1>0. TypeOK /\ TypeInv /\ ExchangeInv /\ StorageInv /\ WaitInv
  BY DEF FullInv, ExchangeInv, TypeInv
<1>1. ASSUME NEW x \in Characters, NEW y \in Characters, NEW t \in TradeIds, Invite(x, y, t)
      PROVE  ContractStep
  BY <1>0, <1>1, InviteOpensContract
<1>2. CASE OnlyCloses /\ NothingNew
  <2>1. Held' = Held /\ parties' = parties
    BY <1>2 DEF NothingNew, OnlyCloses, Held
  <2>2. ASSUME NEW t \in TradeIds
        PROVE  /\ HasReceipt(t)' <=> HasReceipt(t)
               /\ StillOpen(t)' => StillOpen(t)
    <3>1. HasReceipt(t)' <=> HasReceipt(t)
      BY <1>2 DEF NothingNew, HasReceipt
    <3>2. TransactionOpen(t)' => TransactionOpen(t)
      BY <1>2 DEF NothingNew, TransactionOpen, IsExchange
    <3>3. Open(t)' => Open(t)
      BY <1>2 DEF OnlyCloses
    <3> QED BY <3>1, <3>2, <3>3 DEF StillOpen
  <2> QED BY <2>1, <2>2, VoidsTrades
<1>3. ASSUME NEW j \in OpenJobs, Commits(j) PROVE ContractStep
  BY <1>0, <1>3, CommitSwaps, CommitSpends
<1>4. ASSUME NEW u \in TradeIds, Starts(u) PROVE ContractStep
  <2>1. Held' = Held /\ parties' = parties /\ trades' = trades
    BY <1>4 DEF Starts, Held
  <2>2. ASSUME NEW t \in TradeIds
        PROVE  /\ HasReceipt(t)' <=> HasReceipt(t)
               /\ StillOpen(t)' => StillOpen(t)
    <3>1. HasReceipt(t)' <=> HasReceipt(t)
      BY <1>4 DEF Starts, HasReceipt
    <3>2. TransactionOpen(t)' => TransactionOpen(t) \/ t = u
      BY <1>4 DEF Starts, TransactionOpen, IsExchange
    <3>3. Open(u)
      BY <1>0, <1>4 DEF Starts, WaitInv, Open, Pending, NoPending
    <3>4. Open(t)' => Open(t)
      BY <2>1 DEF Open
    <3> QED BY <3>1, <3>2, <3>3, <3>4 DEF StillOpen
  <2> QED BY <2>1, <2>2, VoidsTrades
<1> QED BY <1>0, <1>1, <1>2, <1>3, <1>4, TransactionSteps, StepCloses

\* Every behaviour of the server is one of the contract: each trade ends once,
\* by one whole swap of what both sides hold or by none, whatever fails in
\* between (TradeManager.cpp:164, TradeRepository.cpp:32).
THEOREM KeepsTheContract == Spec => ImplementsContract
<1>1. ASSUME Init PROVE Contract!Init
  <2>1. Held = InitialGoods
    BY <1>1, TradeAssumption DEF Init, TradeAssumption, Held
  <2>2. ASSUME NEW t \in TradeIds PROVE ContractOutcome(t) = "unused"
    BY <1>1 DEF Init, ContractOutcome, HasReceipt
  <2>3. parties = [t \in TradeIds |-> <<>>]
    BY <1>1 DEF Init
  <2> QED BY <2>1, <2>2, <2>3 DEF Contract!Init, Held
<1>2. FullInv /\ [Next]_vars => [Contract!Next]_(Contract!contract)
  BY StepKeepsContract DEF ContractStep, Contract!contract, Held, Outcomes
<1> QED BY <1>1, <1>2, FullInvInductive, PTL DEF Spec, Contract!Spec, ImplementsContract
=============================================================================
