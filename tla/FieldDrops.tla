----------------------------- MODULE FieldDrops -----------------------------
(***************************************************************************)
(* Drops on a 3D field and who gets them: a killed monster leaves a drop   *)
(* in its Map, a player reserves it, the database worker grants the item   *)
(* and records the claim in one transaction, and the answer removes the    *)
(* drop or frees it.  A player whose answer was lost asks for the record.  *)
(*                                                                         *)
(* The two deadlines race: an inventory request is given up after five     *)
(* seconds, a reservation after eight, and the transaction may commit      *)
(* after both.  Time is abstracted, a deadline may pass at any moment.     *)
(* Left out is what takes longer than all of them: claims older than 30    *)
(* days are deleted after a commit (CleanupRecords); a drop lies for 60    *)
(* seconds, so that no drop outlives its claim.                            *)
(***************************************************************************)
EXTENDS Naturals, Sequences, FiniteSets

CONSTANTS Characters, Drops,
          None,        \* no character
          MaxDrops,    \* drops lying on one field (64)
          QueueLimit   \* jobs the database worker queues (64)

ASSUME DropAssumption ==
  /\ None \notin Characters
  /\ MaxDrops \in Nat /\ QueueLimit \in Nat

VARIABLES
  field,    \* Map::_fieldDrops
  session,  \* each character's connection and its inventory request
  queue,    \* worker: the jobs waiting
  running,  \* worker: the job whose COMMIT it is waiting for
  claims,   \* database: field_drop_claims
  grants,   \* database: how often each character's slots received each drop
  orphans,  \* database: open transactions whose connection was given up
  told      \* history: what each client was told since it last tried a drop

db == <<claims, grants, orphans>>
vars == <<field, session, queue, running, claims, grants, orphans, told>>

Idle == [job |-> "none"]
NoRequest == [kind |-> "none", drop |-> "none", reply |-> "none"]
Offline == [online |-> FALSE, request |-> NoRequest]
Job(kind, c, d) == [kind |-> kind, owner |-> c, drop |-> d, live |-> TRUE]
Gone(stage) == [stage |-> stage, reservedBy |-> None]

Verdict == {"Success", "AlreadyTaken", "NoRecord"}
Lying == {d \in Drops : field[d].stage = "lying"}
Pickups(c, d) == session[c].request.kind = "pickup" /\ session[c].request.drop = d
FieldBusy(c) == session[c].request # NoRequest

\* Map::FinishDrop for the request of c that ends with this result.
FinishDrop(c, result) ==
  [d \in Drops |->
     IF ~(Pickups(c, d) /\ field[d].reservedBy = c) THEN field[d]
     ELSE IF result \in {"Success", "AlreadyTaken"} THEN Gone("taken")
     ELSE [field[d] EXCEPT !.reservedBy = None]]

\* The worker will not start the request of c any more, and nobody reads it.
Abandon(j, c) == IF j.owner = c THEN [j EXCEPT !.live = FALSE] ELSE j
AbandonQueue(c) == [i \in DOMAIN queue |-> Abandon(queue[i], c)]
AbandonRunning(c) ==
  IF running = Idle THEN Idle ELSE [running EXCEPT !.job = Abandon(@, c)]

-----------------------------------------------------------------------------
(* The IOCP thread: field, requests and answers.                            *)

\* A kill; at the limit the drop is not created.
CreateDrop(d) ==
  /\ field[d].stage = "unborn" /\ Cardinality(Lying) < MaxDrops
  /\ field' = [field EXCEPT ![d] = [stage |-> "lying", reservedBy |-> None]]
  /\ UNCHANGED <<session, queue, running, db, told>>

\* TickFieldMonsters: the reservation runs out, then perhaps the drop itself.
TickDrop(d, late, old) ==
  LET by == IF late THEN None ELSE field[d].reservedBy
  IN /\ field[d].stage = "lying"
     /\ field' = [field EXCEPT ![d] = IF old /\ by = None THEN Gone("expired")
                                      ELSE [@ EXCEPT !.reservedBy = by]]
     /\ UNCHANGED <<session, queue, running, db, told>>

Enter(c) ==
  /\ ~session[c].online
  /\ session' = [session EXCEPT ![c].online = TRUE]
  /\ UNCHANGED <<field, queue, running, db, told>>

\* OnDisconnected: the request is cancelled and its reservation freed.
Disconnect(c) ==
  /\ session[c].online
  /\ session' = [session EXCEPT ![c] = Offline]
  /\ field' = FinishDrop(c, "StorageError")
  /\ queue' = AbandonQueue(c) /\ running' = AbandonRunning(c)
  /\ UNCHANGED <<db, told>>

Submit(c, kind, d) ==
  /\ session[c].online /\ ~FieldBusy(c) /\ Len(queue) < QueueLimit
  /\ session' = [session EXCEPT ![c].request =
                   [kind |-> kind, drop |-> d, reply |-> "waiting"]]
  /\ queue' = Append(queue, Job(kind, c, d))
  /\ UNCHANGED <<running, db>>

\* PickupRequest3D: ReserveDrop, then QueueFieldMutation.
Reservable(d) == field[d].stage = "lying" /\ field[d].reservedBy = None
RequestPickup(c, d) ==
  /\ Reservable(d)
  /\ Submit(c, "pickup", d)
  /\ field' = [field EXCEPT ![d].reservedBy = c]
  /\ told' = [told EXCEPT ![c][d] = {}]

\* With the queue full it is freed again at once.
RefusePickup(c, d) ==
  /\ Reservable(d) /\ session[c].online /\ ~FieldBusy(c)
  /\ Len(queue) = QueueLimit
  /\ told' = [told EXCEPT ![c][d] = {}]
  /\ UNCHANGED <<field, session, queue, running, db>>

\* PickupStatusRequest3D: what became of an earlier attempt?
QueryDrop(c, d) ==
  /\ field[d].stage # "unborn"
  /\ Submit(c, "query", d)
  /\ UNCHANGED <<field, told>>

\* FinishInventory
Finish(c, result) ==
  /\ session' = [session EXCEPT ![c].request = NoRequest]
  /\ field' = FinishDrop(c, result)
  /\ told' = [told EXCEPT ![c][session[c].request.drop] = @ \cup ({result} \cap Verdict)]

Answered(c) ==
  /\ FieldBusy(c) /\ session[c].request.reply # "waiting"
  /\ Finish(c, session[c].request.reply)
  /\ UNCHANGED <<queue, running, db>>

Timeout(c) ==
  /\ FieldBusy(c)
  /\ Finish(c, "StorageError")
  /\ queue' = AbandonQueue(c) /\ running' = AbandonRunning(c)
  /\ UNCHANGED db

-----------------------------------------------------------------------------
(* The database worker and its transactions.                                *)

OpenJobs == orphans \cup
  (IF running # Idle /\ running.outcome = "open" THEN {running.job} ELSE {})
\* The owner's rows, and the claim row a pickup has inserted.
IgnoreLocks(j) == TRUE
Unlocked(j) ==
  \A k \in OpenJobs : k.owner # j.owner /\ (j.kind = "pickup" => k.drop # j.drop)

Reply(j, result) ==
  session' = IF j.live THEN [session EXCEPT ![j.owner].request.reply = result]
                       ELSE session

\* An error, or the request was cancelled or is too old by now.
JobFails ==
  /\ running = Idle /\ queue # <<>>
  /\ queue' = Tail(queue)
  /\ Reply(Head(queue), "StorageError")
  /\ UNCHANGED <<field, running, db, told>>

\* Apply: Mutate tries the slots, then INSERT IGNORE finds a claim or not.  A
\* dead character cannot use it, which the client is told as an error.
GrantUnrecorded(d, mutated) ==
  IF mutated = "CannotUse" THEN "StorageError" ELSE mutated
PickupResult(d, mutated) ==
  IF mutated = "CannotUse" THEN "StorageError"
  ELSE IF mutated = "Success" /\ claims[d] # None THEN "AlreadyTaken"
  ELSE mutated

RunPickup(mutated) ==
  /\ running = Idle /\ queue # <<>>
  /\ LET j == Head(queue)
         result == PickupResult(j.drop, mutated)
     IN /\ j.kind = "pickup" /\ j.live /\ Unlocked(j)
        /\ IF result = "Success"
           THEN running' = [job |-> j, outcome |-> "open"] /\ UNCHANGED session
           ELSE Reply(j, result) /\ UNCHANGED running
  /\ queue' = Tail(queue)
  /\ UNCHANGED <<field, db, told>>

QueryResult(c, d) ==
  IF claims[d] = None THEN "NoRecord"
  ELSE IF claims[d] = c THEN "Success" ELSE "AlreadyTaken"

RunQuery ==
  /\ running = Idle /\ queue # <<>>
  /\ LET j == Head(queue)
     IN /\ j.kind = "query" /\ j.live /\ Unlocked(j)
        /\ Reply(j, QueryResult(j.owner, j.drop))
  /\ queue' = Tail(queue)
  /\ UNCHANGED <<field, running, db, told>>

Effect(j) ==
  /\ claims' = [claims EXCEPT ![j.drop] = j.owner]
  /\ grants' = [grants EXCEPT ![j.owner][j.drop] = @ + 1]

CommitRunning ==
  /\ running # Idle /\ running.outcome = "open"
  /\ Effect(running.job)
  /\ running' = [running EXCEPT !.outcome = "committed"]
  /\ UNCHANGED <<field, session, queue, orphans, told>>

\* An error before the COMMIT, or the request was cancelled: it is undone.
RollbackRunning ==
  /\ running # Idle /\ running.outcome = "open"
  /\ Reply(running.job, "StorageError")
  /\ running' = Idle
  /\ UNCHANGED <<field, queue, db, told>>

ReplyCommitted ==
  /\ running # Idle /\ running.outcome = "committed"
  /\ Reply(running.job, "Success")
  /\ running' = Idle
  /\ UNCHANGED <<field, queue, db, told>>

\* The COMMIT throws, whatever became of the transaction.
ReplyUnknown ==
  /\ running # Idle
  /\ Reply(running.job, "StorageError")
  /\ orphans' = OpenJobs
  /\ running' = Idle
  /\ UNCHANGED <<field, queue, claims, grants, told>>

OrphanCommits(j) ==
  /\ Effect(j)
  /\ orphans' = orphans \ {j}
  /\ UNCHANGED <<field, session, queue, running, told>>

OrphanRollsBack(j) ==
  /\ orphans' = orphans \ {j}
  /\ UNCHANGED <<field, session, queue, running, claims, grants, told>>

\* The process dies: the field and all requests are lost, the database stays.
Crash ==
  /\ field' = [d \in Drops |-> IF d \in Lying THEN Gone("lost") ELSE field[d]]
  /\ session' = [c \in Characters |-> Offline]
  /\ queue' = <<>> /\ running' = Idle /\ orphans' = OpenJobs
  /\ UNCHANGED <<claims, grants, told>>
-----------------------------------------------------------------------------

Init ==
  /\ field = [d \in Drops |-> Gone("unborn")]
  /\ session = [c \in Characters |-> Offline]
  /\ queue = <<>> /\ running = Idle
  /\ claims = [d \in Drops |-> None]
  /\ grants = [c \in Characters |-> [d \in Drops |-> 0]]
  /\ orphans = {}
  /\ told = [c \in Characters |-> [d \in Drops |-> {}]]

FieldStep ==
  \E d \in Drops : CreateDrop(d) \/ \E late, old \in BOOLEAN : TickDrop(d, late, old)
SessionStep ==
  \E c \in Characters :
    \/ Enter(c) \/ Disconnect(c) \/ Answered(c) \/ Timeout(c)
    \/ \E d \in Drops : RequestPickup(c, d) \/ RefusePickup(c, d) \/ QueryDrop(c, d)
WorkerStep ==
  \/ \E mutated \in {"Success", "Full", "CannotUse"} : RunPickup(mutated)
  \/ JobFails \/ RunQuery
  \/ CommitRunning \/ RollbackRunning \/ ReplyCommitted \/ ReplyUnknown
DatabaseStep == \E j \in orphans : OrphanCommits(j) \/ OrphanRollsBack(j)

Next == FieldStep \/ SessionStep \/ WorkerStep \/ DatabaseStep \/ Crash

Spec == Init /\ [][Next]_vars

-----------------------------------------------------------------------------
(* Types.                                                                   *)

JobSet == [kind : {"pickup", "query"}, owner : Characters, drop : Drops, live : BOOLEAN]
RequestSet ==
  [kind : {"none", "pickup", "query"}, drop : Drops \cup {"none"},
   reply : Verdict \cup {"none", "waiting", "Full", "StorageError"}]
DropSet == [stage : {"unborn", "lying", "taken", "expired", "lost"},
            reservedBy : Characters \cup {None}]
SessionSet == [online : BOOLEAN, request : RequestSet]
RunningSet == [job : JobSet, outcome : {"open", "committed"}]

\* Every variable has its type; the field never exceeds its limit
\* (FieldMonsters.cpp:294).
TypeOK ==
  /\ field \in [Drops -> DropSet]
  /\ session \in [Characters -> SessionSet]
  /\ queue \in Seq(JobSet)
  /\ running \in {Idle} \cup RunningSet
  /\ claims \in [Drops -> Characters \cup {None}]
  /\ grants \in [Characters -> [Drops -> Nat]]
  /\ orphans \subseteq JobSet
  /\ told \in [Characters -> [Drops -> SUBSET Verdict]]
  /\ Cardinality(Lying) <= MaxDrops

-----------------------------------------------------------------------------
(* What must not go wrong.                                                  *)

\* A drop is granted once, to the character its claim names: not again by a
\* retry, by another player after a deadline passed, or by a commit that comes
\* late (InventoryRepository.cpp:186).
GrantedOnce ==
  \A c \in Characters, d \in Drops : grants[c][d] = IF claims[d] = c THEN 1 ELSE 0

\* A client is told the truth and it stays the truth: after Success the item is
\* its own, after AlreadyTaken somebody's, and after NoRecord no earlier attempt
\* of its own is granted any more (InventoryRepository.cpp:161).  Full says
\* nothing of the kind: the slots are tried before the claim is looked up.
\* NoRecord speaks of what is still to come: that nothing was granted in the past
\* it says only as long as claims are kept, which is 30 days.
AnswersTruthful ==
  \A c \in Characters, d \in Drops :
    /\ "Success" \in told[c][d] => claims[d] = c
    /\ "AlreadyTaken" \in told[c][d] => claims[d] # None
    /\ "NoRecord" \in told[c][d] => claims[d] # c

\* A drop is taken off the field as picked up only when it was granted to
\* somebody; a failed or unknown attempt leaves it there (FieldMonsters.cpp:345).
TakenIsGranted ==
  \A d \in Drops : field[d].stage = "taken" => claims[d] # None

\* A reservation belongs to a pickup that is still under way on a living
\* connection: nobody who gave up, timed out or left keeps others away
\* (GameSession.cpp:196, FieldMonsters.cpp:346).
ReservedByPickup ==
  \A d \in Drops :
    LET c == field[d].reservedBy
    IN c # None => field[d].stage = "lying" /\ session[c].online /\ Pickups(c, d)
=============================================================================
