------------------------- MODULE FieldDrops_proofs -------------------------
(***************************************************************************)
(* Proofs about FieldDrops for every set of characters and drops and every *)
(* limit: types, one grant per drop, and no reservation without its pickup. *)
(***************************************************************************)
EXTENDS FieldDrops, SequenceTheorems, FiniteSetTheorems, TLAPS

(***************************************************************************)
(* The values the actions build have their types.                          *)
(***************************************************************************)

LEMMA RequestTypes ==
  /\ NoRequest \in RequestSet /\ Offline \in SessionSet
  /\ \A kind \in {"pickup", "query"}, d \in Drops :
       [kind |-> kind, drop |-> d, reply |-> "waiting"] \in RequestSet
BY DEF RequestSet, NoRequest, Offline, SessionSet

LEMMA GoneTypes ==
  \A stage \in {"unborn", "taken", "expired", "lost"} : Gone(stage) \in DropSet
BY DEF Gone, DropSet

LEMMA AbandonType ==
  ASSUME NEW j \in JobSet, NEW c
  PROVE  /\ Abandon(j, c) \in JobSet
         /\ Abandon(j, c).kind = j.kind /\ Abandon(j, c).drop = j.drop
         /\ Abandon(j, c).owner = j.owner
BY DEF Abandon, JobSet

LEMMA AbandonTypes ==
  ASSUME NEW c, TypeOK
  PROVE  AbandonQueue(c) \in Seq(JobSet) /\ AbandonRunning(c) \in {Idle} \cup RunningSet
<1>1. PICK n \in Nat : queue \in [1..n -> JobSet]
  BY SeqDef DEF TypeOK
<1>2. AbandonQueue(c) \in [1..n -> JobSet]
  BY <1>1, AbandonType DEF AbandonQueue
<1>3. AbandonQueue(c) \in Seq(JobSet)
  BY <1>2, SeqDef
<1>4. CASE running = Idle
  BY <1>3, <1>4 DEF AbandonRunning
<1>5. CASE running # Idle
  BY <1>3, <1>5, AbandonType DEF AbandonRunning, RunningSet, TypeOK
<1> QED BY <1>4, <1>5

LEMMA FinishDropType ==
  ASSUME TypeOK, NEW c, NEW result
  PROVE  FinishDrop(c, result) \in [Drops -> DropSet]
BY GoneTypes DEF FinishDrop, TypeOK, DropSet

LEMMA QueueTypes ==
  ASSUME TypeOK
  PROVE  /\ \A j \in JobSet : Append(queue, j) \in Seq(JobSet)
         /\ queue # <<>> => Head(queue) \in JobSet /\ Tail(queue) \in Seq(JobSet)
BY AppendProperties, HeadTailProperties DEF TypeOK

\* An answer goes into the request of the job it belongs to, if it still runs.
LEMMA ReplyType ==
  ASSUME TypeOK, NEW j \in JobSet, NEW r \in Verdict \cup {"Full", "StorageError"},
         Reply(j, r)
  PROVE  session' \in [Characters -> SessionSet]
<1>1. CASE j.live
  <2>1. j.owner \in Characters
    BY DEF JobSet
  <2>2. session[j.owner] \in SessionSet
    BY <2>1 DEF TypeOK
  <2>3. [session[j.owner].request EXCEPT !.reply = r] \in RequestSet
    BY <2>2 DEF SessionSet, RequestSet
  <2>4. [session[j.owner] EXCEPT !.request.reply = r] \in SessionSet
    BY <2>2, <2>3 DEF SessionSet
  <2> QED BY <1>1, <2>1, <2>4 DEF Reply, TypeOK
<1>2. CASE ~j.live
  BY <1>2 DEF Reply, TypeOK
<1> QED BY <1>1, <1>2

(***************************************************************************)
(* Type correctness.  That a drop is only added below the limit counts     *)
(* drops, so the ones lying on the field have to stay a finite set.        *)
(***************************************************************************)

TypeInv == TypeOK /\ IsFiniteSet(Lying)

\* What no step but CreateDrop does: put a drop on the field.
LEMMA NoNewDrop ==
  ASSUME TypeInv, Lying' \subseteq Lying
  PROVE  IsFiniteSet(Lying') /\ Cardinality(Lying') <= MaxDrops
<1>1. IsFiniteSet(Lying') /\ Cardinality(Lying') <= Cardinality(Lying)
  BY FS_Subset DEF TypeInv
<1>2. Cardinality(Lying) \in Nat /\ Cardinality(Lying') \in Nat
  BY <1>1, FS_CardinalityType DEF TypeInv
<1>3. Cardinality(Lying) <= MaxDrops
  BY DEF TypeInv, TypeOK
<1> QED BY <1>1, <1>2, <1>3, DropAssumption

LEMMA FinishDropLying ==
  ASSUME TypeOK, NEW c, NEW result, field' = FinishDrop(c, result)
  PROVE  Lying' \subseteq Lying
BY DEF FinishDrop, Lying, Gone, TypeOK, DropSet

LEMMA CreateDropType ==
  ASSUME TypeInv, NEW d \in Drops, CreateDrop(d)
  PROVE  TypeInv'
<1>1. field' \in [Drops -> DropSet]
  BY DEF CreateDrop, TypeInv, TypeOK, DropSet
<1>2. d \notin Lying /\ Lying' = Lying \cup {d}
  BY DEF CreateDrop, Lying, TypeInv, TypeOK
<1>3. IsFiniteSet(Lying') /\ Cardinality(Lying') = Cardinality(Lying) + 1
  BY <1>2, FS_AddElement DEF TypeInv
<1>4. Cardinality(Lying) \in Nat /\ Cardinality(Lying) < MaxDrops
  BY FS_CardinalityType DEF TypeInv, CreateDrop
<1>5. Cardinality(Lying') <= MaxDrops
  BY <1>3, <1>4, DropAssumption
<1> QED BY <1>1, <1>3, <1>5 DEF TypeInv, TypeOK, CreateDrop, db

LEMMA SubmitType ==
  ASSUME TypeOK, NEW c \in Characters, NEW kind \in {"pickup", "query"}, NEW d \in Drops,
         Submit(c, kind, d)
  PROVE  session' \in [Characters -> SessionSet] /\ queue' \in Seq(JobSet)
<1>1. [session[c] EXCEPT !.request = [kind |-> kind, drop |-> d, reply |-> "waiting"]]
        \in SessionSet
  BY RequestTypes DEF TypeOK, SessionSet
<1>2. Job(kind, c, d) \in JobSet
  BY DEF Job, JobSet
<1> QED BY <1>1, <1>2, QueueTypes DEF Submit, TypeOK

LEMMA FinishType ==
  ASSUME TypeOK, NEW c \in Characters, NEW result, Finish(c, result)
  PROVE  /\ session' \in [Characters -> SessionSet]
         /\ field' \in [Drops -> DropSet] /\ Lying' \subseteq Lying
         /\ told' \in [Characters -> [Drops -> SUBSET Verdict]]
<1>1. [session[c] EXCEPT !.request = NoRequest] \in SessionSet
  BY RequestTypes DEF TypeOK, SessionSet
<1>2. field' \in [Drops -> DropSet] /\ Lying' \subseteq Lying
  BY FinishDropType, FinishDropLying DEF Finish
<1>3. \A d \in Drops : told[c][d] \cup ({result} \cap Verdict) \in SUBSET Verdict
  BY DEF TypeOK
<1>4. [told[c] EXCEPT ![session[c].request.drop] = @ \cup ({result} \cap Verdict)]
        \in [Drops -> SUBSET Verdict]
  BY <1>3 DEF TypeOK
<1> QED BY <1>1, <1>2, <1>4 DEF Finish, TypeOK

LEMMA SessionStepType ==
  ASSUME TypeInv, NEW c \in Characters,
         \/ Enter(c) \/ Disconnect(c) \/ Answered(c) \/ Timeout(c)
         \/ \E d \in Drops : RequestPickup(c, d) \/ RefusePickup(c, d) \/ QueryDrop(c, d)
  PROVE  TypeInv'
<1>0. TypeOK
  BY DEF TypeInv
<1>1. CASE Enter(c)
  <2>1. Lying' = Lying
    BY <1>1 DEF Enter, Lying
  <2>2. [session[c] EXCEPT !.online = TRUE] \in SessionSet
    BY <1>0 DEF TypeOK, SessionSet
  <2> QED BY <1>0, <1>1, <2>1, <2>2, NoNewDrop DEF Enter, TypeInv, TypeOK, db
<1>2. CASE Disconnect(c)
  <2>1. field' \in [Drops -> DropSet] /\ Lying' \subseteq Lying
    BY <1>0, <1>2, FinishDropType, FinishDropLying DEF Disconnect
  <2>2. session' \in [Characters -> SessionSet]
    BY <1>0, <1>2, RequestTypes DEF Disconnect, TypeOK
  <2>3. queue' \in Seq(JobSet) /\ running' \in {Idle} \cup RunningSet
    BY <1>0, <1>2, AbandonTypes DEF Disconnect
  <2>4. IsFiniteSet(Lying') /\ Cardinality(Lying') <= MaxDrops
    BY <2>1, NoNewDrop
  <2> QED BY <1>0, <1>2, <2>1, <2>2, <2>3, <2>4 DEF Disconnect, TypeInv, TypeOK, db
<1>3. CASE Answered(c)
  <2>1. /\ session' \in [Characters -> SessionSet]
        /\ field' \in [Drops -> DropSet] /\ Lying' \subseteq Lying
        /\ told' \in [Characters -> [Drops -> SUBSET Verdict]]
    BY <1>0, <1>3, FinishType DEF Answered
  <2>2. IsFiniteSet(Lying') /\ Cardinality(Lying') <= MaxDrops
    BY <2>1, NoNewDrop
  <2> QED BY <1>0, <1>3, <2>1, <2>2 DEF Answered, TypeInv, TypeOK, db
<1>4. CASE Timeout(c)
  <2>1. /\ session' \in [Characters -> SessionSet]
        /\ field' \in [Drops -> DropSet] /\ Lying' \subseteq Lying
        /\ told' \in [Characters -> [Drops -> SUBSET Verdict]]
    BY <1>0, <1>4, FinishType DEF Timeout
  <2>2. queue' \in Seq(JobSet) /\ running' \in {Idle} \cup RunningSet
    BY <1>0, <1>4, AbandonTypes DEF Timeout
  <2>3. IsFiniteSet(Lying') /\ Cardinality(Lying') <= MaxDrops
    BY <2>1, NoNewDrop
  <2> QED BY <1>0, <1>4, <2>1, <2>2, <2>3 DEF Timeout, TypeInv, TypeOK, db
<1>5. ASSUME NEW d \in Drops, RequestPickup(c, d)
      PROVE  TypeInv'
  <2>1. session' \in [Characters -> SessionSet] /\ queue' \in Seq(JobSet)
    BY <1>0, <1>5, SubmitType DEF RequestPickup
  <2>2. field' \in [Drops -> DropSet] /\ Lying' = Lying
    BY <1>0, <1>5 DEF RequestPickup, TypeOK, DropSet, Lying
  <2>3. told' \in [Characters -> [Drops -> SUBSET Verdict]]
    BY <1>0, <1>5 DEF RequestPickup, TypeOK
  <2> QED BY <1>0, <1>5, <2>1, <2>2, <2>3, NoNewDrop
         DEF RequestPickup, Submit, TypeInv, TypeOK, db
<1>6. ASSUME NEW d \in Drops, RefusePickup(c, d)
      PROVE  TypeInv'
  <2>1. Lying' = Lying
    BY <1>6 DEF RefusePickup, Lying
  <2>2. told' \in [Characters -> [Drops -> SUBSET Verdict]]
    BY <1>0, <1>6 DEF RefusePickup, TypeOK
  <2> QED BY <1>0, <1>6, <2>1, <2>2, NoNewDrop DEF RefusePickup, TypeInv, TypeOK, db
<1>7. ASSUME NEW d \in Drops, QueryDrop(c, d)
      PROVE  TypeInv'
  <2>1. session' \in [Characters -> SessionSet] /\ queue' \in Seq(JobSet)
    BY <1>0, <1>7, SubmitType DEF QueryDrop
  <2>2. Lying' = Lying
    BY <1>7 DEF QueryDrop, Lying
  <2> QED BY <1>0, <1>7, <2>1, <2>2, NoNewDrop
         DEF QueryDrop, Submit, TypeInv, TypeOK, db
<1> QED BY <1>1, <1>2, <1>3, <1>4, <1>5, <1>6, <1>7

LEMMA ResultTypes ==
  /\ \A d : \A mutated \in {"Success", "Full", "CannotUse"} :
       PickupResult(d, mutated) \in {"Success", "AlreadyTaken", "Full", "StorageError"}
  /\ \A c, d : QueryResult(c, d) \in Verdict
  /\ Verdict = {"Success", "AlreadyTaken", "NoRecord"}
BY DEF PickupResult, QueryResult, Verdict

LEMMA EffectType ==
  ASSUME TypeOK, NEW j \in JobSet, Effect(j)
  PROVE  /\ claims' \in [Drops -> Characters \cup {None}]
         /\ grants' \in [Characters -> [Drops -> Nat]]
<1>1. j.owner \in Characters /\ j.drop \in Drops
  BY DEF JobSet
<1>2. [grants[j.owner] EXCEPT ![j.drop] = @ + 1] \in [Drops -> Nat]
  BY <1>1 DEF TypeOK
<1> QED BY <1>1, <1>2 DEF Effect, TypeOK

LEMMA OpenJobsType ==
  ASSUME TypeOK
  PROVE  OpenJobs \subseteq JobSet
BY DEF OpenJobs, TypeOK, RunningSet

\* The worker and the database leave the field alone.
LEMMA SameField ==
  ASSUME TypeInv, UNCHANGED field
  PROVE  field' \in [Drops -> DropSet] /\ IsFiniteSet(Lying')
         /\ Cardinality(Lying') <= MaxDrops
<1>1. Lying' = Lying
  BY DEF Lying
<1> QED BY <1>1, NoNewDrop DEF TypeInv, TypeOK

LEMMA WorkerStepType ==
  ASSUME TypeInv, WorkerStep
  PROVE  TypeInv'
<1>0. TypeOK
  BY DEF TypeInv
<1>1. running # Idle => running.job \in JobSet /\ running \in RunningSet
  BY <1>0 DEF TypeOK, RunningSet
<1>2. CASE JobFails
  <2>1. session' \in [Characters -> SessionSet]
    BY <1>0, <1>2, ReplyType, QueueTypes DEF JobFails
  <2> QED BY <1>0, <1>2, <2>1, QueueTypes, SameField DEF JobFails, TypeInv, TypeOK, db
<1>3. ASSUME NEW mutated \in {"Success", "Full", "CannotUse"}, RunPickup(mutated)
      PROVE  TypeInv'
  <2> DEFINE j == Head(queue)
             result == PickupResult(j.drop, mutated)
  <2>1. j \in JobSet
    BY <1>0, <1>3, QueueTypes DEF RunPickup
  <2>2. CASE result = "Success"
    <3>1. running' \in RunningSet /\ session' = session
      BY <1>3, <2>1, <2>2 DEF RunPickup, RunningSet
    <3> QED BY <1>0, <1>3, <3>1, QueueTypes, SameField DEF RunPickup, TypeInv, TypeOK, db
  <2>3. CASE result # "Success"
    <3>1. Reply(j, result) /\ running' = running
      BY <1>3, <2>3 DEF RunPickup
    <3>2. result \in Verdict \cup {"Full", "StorageError"}
      BY ResultTypes
    <3>3. session' \in [Characters -> SessionSet]
      BY <1>0, <2>1, <3>1, <3>2, ReplyType
    <3> QED BY <1>0, <1>3, <3>1, <3>3, QueueTypes, SameField
           DEF RunPickup, TypeInv, TypeOK, db
  <2> QED BY <2>2, <2>3
<1>4. CASE RunQuery
  <2> DEFINE j == Head(queue)
  <2>1. j \in JobSet /\ Reply(j, QueryResult(j.owner, j.drop))
    BY <1>0, <1>4, QueueTypes DEF RunQuery
  <2>2. session' \in [Characters -> SessionSet]
    BY <1>0, <2>1, ReplyType, ResultTypes
  <2> QED BY <1>0, <1>4, <2>2, QueueTypes, SameField DEF RunQuery, TypeInv, TypeOK, db
<1>5. CASE CommitRunning
  <2>1. /\ claims' \in [Drops -> Characters \cup {None}]
        /\ grants' \in [Characters -> [Drops -> Nat]]
    BY <1>0, <1>1, <1>5, EffectType DEF CommitRunning
  <2>2. running' \in RunningSet
    BY <1>1, <1>5 DEF CommitRunning, RunningSet
  <2> QED BY <1>0, <1>5, <2>1, <2>2, SameField DEF CommitRunning, TypeInv, TypeOK
<1>6. CASE RollbackRunning
  <2>1. session' \in [Characters -> SessionSet]
    BY <1>0, <1>1, <1>6, ReplyType DEF RollbackRunning
  <2> QED BY <1>0, <1>6, <2>1, SameField DEF RollbackRunning, TypeInv, TypeOK, db
<1>7. CASE ReplyCommitted
  <2>1. session' \in [Characters -> SessionSet]
    BY <1>0, <1>1, <1>7, ReplyType, ResultTypes DEF ReplyCommitted
  <2> QED BY <1>0, <1>7, <2>1, SameField DEF ReplyCommitted, TypeInv, TypeOK, db
<1>8. CASE ReplyUnknown
  <2>1. session' \in [Characters -> SessionSet]
    BY <1>0, <1>1, <1>8, ReplyType DEF ReplyUnknown
  <2> QED BY <1>0, <1>8, <2>1, SameField, OpenJobsType DEF ReplyUnknown, TypeInv, TypeOK
<1> QED BY <1>2, <1>3, <1>4, <1>5, <1>6, <1>7, <1>8 DEF WorkerStep

LEMMA TypeInvNext ==
  ASSUME TypeInv, [Next]_vars
  PROVE  TypeInv'
<1>0. TypeOK
  BY DEF TypeInv
<1>1. ASSUME NEW d \in Drops, NEW late \in BOOLEAN, NEW old \in BOOLEAN,
             TickDrop(d, late, old)
      PROVE  TypeInv'
  <2>1. field' \in [Drops -> DropSet] /\ Lying' \subseteq Lying
    BY <1>0, <1>1, GoneTypes DEF TickDrop, TypeOK, DropSet, Lying
  <2> QED BY <1>0, <1>1, <2>1, NoNewDrop DEF TickDrop, TypeInv, TypeOK, db
<1>2. ASSUME NEW j \in orphans, OrphanCommits(j) \/ OrphanRollsBack(j)
      PROVE  TypeInv'
  <2>1. CASE OrphanCommits(j)
    BY <1>0, <2>1, EffectType, SameField DEF OrphanCommits, TypeInv, TypeOK
  <2>2. CASE OrphanRollsBack(j)
    BY <1>0, <2>2, SameField DEF OrphanRollsBack, TypeInv, TypeOK
  <2> QED BY <1>2, <2>1, <2>2
<1>3. CASE Crash
  <2>1. field' \in [Drops -> DropSet] /\ Lying' \subseteq Lying
    BY <1>0, <1>3, GoneTypes DEF Crash, TypeOK, Lying, Gone
  <2>2. IsFiniteSet(Lying') /\ Cardinality(Lying') <= MaxDrops
    BY <2>1, NoNewDrop
  <2>3. queue' \in Seq(JobSet)
    BY <1>3 DEF Crash
  <2>4. session' \in [Characters -> SessionSet]
    BY <1>3, RequestTypes DEF Crash
  <2> QED BY <1>0, <1>3, <2>1, <2>2, <2>3, <2>4, OpenJobsType DEF Crash, TypeInv, TypeOK
<1>4. CASE UNCHANGED vars
  BY <1>0, <1>4, SameField DEF vars, TypeInv, TypeOK
<1> QED BY <1>1, <1>2, <1>3, <1>4, CreateDropType, SessionStepType, WorkerStepType
       DEF Next, FieldStep, SessionStep, DatabaseStep

LEMMA TypeInvInit ==
  ASSUME Init
  PROVE  TypeInv
<1>1. Lying = {}
  BY DEF Init, Lying, Gone
<1>2. IsFiniteSet(Lying) /\ Cardinality(Lying) = 0
  BY <1>1, FS_EmptySet
<1> QED BY <1>2, GoneTypes, RequestTypes, DropAssumption DEF Init, TypeInv, TypeOK, Idle

\* In every reachable state each variable has its type and the field holds no
\* more drops than Map::CreateDrop allows.
THEOREM TypeCorrect == Spec => []TypeOK
<1>1. Init => TypeInv
  BY TypeInvInit
<1>2. TypeInv /\ [Next]_vars => TypeInv'
  BY TypeInvNext
<1>3. TypeInv => TypeOK
  BY DEF TypeInv
<1> QED BY <1>1, <1>2, <1>3, PTL DEF Spec

(***************************************************************************)
(* One grant per drop.  Between its INSERT and its COMMIT a transaction has *)
(* not granted anything, and it holds the claim row: no other open one is  *)
(* for the same drop, and the drop is nobody's yet.                        *)
(***************************************************************************)

OpenApart ==
  /\ \A j, k \in orphans : j.drop = k.drop => j = k
  /\ \A j \in orphans : j.kind = "pickup" /\ claims[j.drop] = None
  /\ running # Idle => running.job.kind = "pickup"
  /\ running # Idle /\ running.outcome = "open" =>
       claims[running.job.drop] = None /\ \A j \in orphans : j.drop # running.job.drop

GrantInv == GrantedOnce /\ OpenApart

LEMMA GrantEffect ==
  ASSUME TypeOK, GrantedOnce, NEW j \in JobSet, claims[j.drop] = None, Effect(j)
  PROVE  GrantedOnce' /\ \A d \in Drops \ {j.drop} : claims'[d] = claims[d]
<1>1. j.owner \in Characters /\ j.drop \in Drops /\ j.owner # None
  BY DropAssumption DEF JobSet
<1>2. \A d \in Drops : claims'[d] = IF d = j.drop THEN j.owner ELSE claims[d]
  BY <1>1 DEF Effect, TypeOK
<1>3. ASSUME NEW c \in Characters, NEW d \in Drops
      PROVE  grants'[c][d] = IF claims'[d] = c THEN 1 ELSE 0
  <2>1. grants[c][d] = IF claims[d] = c THEN 1 ELSE 0
    BY DEF GrantedOnce
  <2>2. CASE d # j.drop
    <3>1. grants'[c][d] = grants[c][d]
      BY <1>1, <2>2 DEF Effect, TypeOK
    <3> QED BY <1>2, <2>1, <2>2, <3>1
  <2>3. CASE d = j.drop /\ c = j.owner
    <3>1. grants[c][d] = 0
      BY <2>1, <2>3, DropAssumption
    <3>2. grants'[c][d] = grants[c][d] + 1
      BY <1>1, <2>3 DEF Effect, TypeOK
    <3> QED BY <1>2, <2>3, <3>1, <3>2
  <2>4. CASE d = j.drop /\ c # j.owner
    <3>1. grants[c][d] = 0
      BY <2>1, <2>4, DropAssumption
    <3>2. grants'[c][d] = grants[c][d]
      BY <1>1, <2>4 DEF Effect, TypeOK
    <3> QED BY <1>2, <2>4, <3>1, <3>2
  <2> QED BY <2>2, <2>3, <2>4
<1> QED BY <1>2, <1>3 DEF GrantedOnce

\* Giving up a request does not change which transactions are open.
LEMMA AbandonKeepsApart ==
  ASSUME TypeOK, GrantInv, NEW c, running' = AbandonRunning(c), UNCHANGED db
  PROVE  GrantInv'
<1>1. CASE running = Idle
  BY <1>1 DEF AbandonRunning, GrantInv, GrantedOnce, OpenApart, db
<1>2. CASE running # Idle
  <2>1. running.job \in JobSet /\ running \in RunningSet
    BY <1>2 DEF TypeOK, RunningSet
  <2>2. running'.job = Abandon(running.job, c) /\ running'.outcome = running.outcome
    BY <1>2, <2>1 DEF AbandonRunning, RunningSet
  <2>3. running'.job.kind = running.job.kind /\ running'.job.drop = running.job.drop
    BY <2>1, <2>2, AbandonType
  <2> QED BY <1>2, <2>2, <2>3 DEF GrantInv, GrantedOnce, OpenApart, db
<1> QED BY <1>1, <1>2

\* What the worker gives up stays open in the database.
LEMMA OrphanedApart ==
  ASSUME TypeOK, GrantInv, orphans' = OpenJobs, running' = Idle, UNCHANGED <<claims, grants>>
  PROVE  GrantInv'
<1>1. \A j \in OpenJobs : j.kind = "pickup" /\ claims[j.drop] = None
  BY DEF OpenJobs, GrantInv, OpenApart
<1>2. \A j, k \in OpenJobs : j.drop = k.drop => j = k
  BY DEF OpenJobs, GrantInv, OpenApart
<1> QED BY <1>1, <1>2 DEF GrantInv, GrantedOnce, OpenApart

LEMMA GrantInvNext ==
  ASSUME TypeInv, GrantInv, [Next]_vars
  PROVE  GrantInv'
<1>0. TypeOK
  BY DEF TypeInv
<1>1. CASE UNCHANGED <<db, running>>
  BY <1>1 DEF GrantInv, GrantedOnce, OpenApart, db
<1>2. ASSUME NEW c \in Characters, Disconnect(c) \/ Timeout(c)
      PROVE  GrantInv'
  BY <1>0, <1>2, AbandonKeepsApart DEF Disconnect, Timeout
<1>3. ASSUME NEW mutated \in {"Success", "Full", "CannotUse"}, RunPickup(mutated)
      PROVE  GrantInv'
  <2> DEFINE j == Head(queue)
  <2>1. CASE UNCHANGED running
    BY <1>1, <1>3, <2>1 DEF RunPickup
  <2>2. CASE PickupResult(j.drop, mutated) = "Success" /\ running' = [job |-> j, outcome |-> "open"]
    <3>1. j \in JobSet /\ j.kind = "pickup" /\ Unlocked(j)
      BY <1>0, <1>3, QueueTypes DEF RunPickup
    <3>2. claims[j.drop] = None
      BY <2>2, <1>3 DEF PickupResult
    <3>3. \A k \in orphans : k.drop # j.drop
      BY <3>1 DEF Unlocked, OpenJobs
    <3>4. UNCHANGED db
      BY <1>3 DEF RunPickup
    <3> QED BY <2>2, <3>1, <3>2, <3>3, <3>4 DEF GrantInv, GrantedOnce, OpenApart, db
  <2> QED BY <1>3, <2>1, <2>2 DEF RunPickup
<1>4. CASE CommitRunning
  <2>1. running.job \in JobSet /\ claims[running.job.drop] = None /\ running.job.kind = "pickup"
    BY <1>0, <1>4 DEF CommitRunning, TypeOK, RunningSet, GrantInv, OpenApart
  <2>2. GrantedOnce' /\ \A d \in Drops \ {running.job.drop} : claims'[d] = claims[d]
    BY <1>0, <1>4, <2>1, GrantEffect DEF CommitRunning, GrantInv
  <2>3. \A k \in orphans : k.drop \in Drops \ {running.job.drop}
    BY <1>0, <1>4 DEF CommitRunning, GrantInv, OpenApart, TypeOK, JobSet
  <2>4. running'.job = running.job /\ running'.outcome = "committed" /\ orphans' = orphans
    BY <1>0, <1>4 DEF CommitRunning, TypeOK, RunningSet
  <2> QED BY <1>4, <2>1, <2>2, <2>3, <2>4 DEF CommitRunning, GrantInv, OpenApart
<1>5. CASE RollbackRunning \/ ReplyCommitted
  BY <1>5 DEF RollbackRunning, ReplyCommitted, GrantInv, GrantedOnce, OpenApart, db
<1>6. CASE ReplyUnknown \/ Crash
  BY <1>0, <1>6, OrphanedApart DEF ReplyUnknown, Crash
<1>7. ASSUME NEW j \in orphans, OrphanCommits(j)
      PROVE  GrantInv'
  <2>1. j \in JobSet /\ claims[j.drop] = None
    BY <1>0 DEF TypeOK, GrantInv, OpenApart
  <2>2. GrantedOnce' /\ \A d \in Drops \ {j.drop} : claims'[d] = claims[d]
    BY <1>0, <1>7, <2>1, GrantEffect DEF OrphanCommits, GrantInv
  <2>3. \A k \in orphans' : k.drop \in Drops \ {j.drop}
    BY <1>0, <1>7 DEF OrphanCommits, GrantInv, OpenApart, TypeOK, JobSet
  <2>4. running # Idle /\ running.outcome = "open" => running.job.drop \in Drops \ {j.drop}
    BY <1>0 DEF GrantInv, OpenApart, TypeOK, RunningSet, JobSet
  <2>5. orphans' \subseteq orphans /\ running' = running
    BY <1>7 DEF OrphanCommits
  <2> QED BY <2>2, <2>3, <2>4, <2>5 DEF GrantInv, OpenApart
<1>8. ASSUME NEW j \in orphans, OrphanRollsBack(j)
      PROVE  GrantInv'
  BY <1>8 DEF OrphanRollsBack, GrantInv, GrantedOnce, OpenApart
<1>9. ASSUME NEW c \in Characters, NEW d \in Drops,
             RequestPickup(c, d) \/ RefusePickup(c, d) \/ QueryDrop(c, d)
      PROVE  UNCHANGED <<db, running>>
  BY <1>9 DEF RequestPickup, RefusePickup, QueryDrop, Submit
<1>10. ASSUME NEW c \in Characters, Enter(c) \/ Answered(c)
       PROVE  UNCHANGED <<db, running>>
  BY <1>10 DEF Enter, Answered
<1>11. ASSUME FieldStep \/ JobFails \/ RunQuery \/ UNCHANGED vars
       PROVE  UNCHANGED <<db, running>>
  BY <1>11 DEF FieldStep, CreateDrop, TickDrop, JobFails, RunQuery, vars, db
<1> QED
  BY <1>1, <1>2, <1>3, <1>4, <1>5, <1>6, <1>7, <1>8, <1>9, <1>10, <1>11
     DEF Next, SessionStep, WorkerStep, DatabaseStep

\* A drop is granted once, to the character its claim names, whatever the two
\* deadlines, lost answers, late commits and restarts do.
THEOREM DropGrantedOnce == Spec => []GrantedOnce
<1>1. Init => TypeInv
  BY TypeInvInit
<1>2. TypeInv /\ [Next]_vars => TypeInv'
  BY TypeInvNext
<1>3. Init => GrantInv
  BY DropAssumption DEF Init, GrantInv, GrantedOnce, OpenApart
<1>4. TypeInv /\ GrantInv /\ [Next]_vars => GrantInv'
  BY GrantInvNext
<1>5. GrantInv => GrantedOnce
  BY DEF GrantInv
<1> QED BY <1>1, <1>2, <1>3, <1>4, <1>5, PTL DEF Spec

(***************************************************************************)
(* A reservation needs its pickup.  The invariant is inductive once every  *)
(* variable has its type: whoever holds a reservation has that pickup as   *)
(* its only request, so ending the request finds and frees it.             *)
(***************************************************************************)

\* Ending the request of c leaves nothing reserved for it.
LEMMA FinishDropFrees ==
  ASSUME TypeOK, ReservedByPickup, NEW c \in Characters, NEW result,
         field' = FinishDrop(c, result)
  PROVE  \A d \in Drops : field'[d].reservedBy # None =>
           /\ field'[d].reservedBy = field[d].reservedBy /\ field'[d].reservedBy # c
           /\ field'[d].stage = "lying"
<1> SUFFICES ASSUME NEW d \in Drops, field'[d].reservedBy # None
             PROVE  /\ field'[d].reservedBy = field[d].reservedBy
                    /\ field'[d].reservedBy # c /\ field'[d].stage = "lying"
  OBVIOUS
<1>1. ~(Pickups(c, d) /\ field[d].reservedBy = c)
  BY DEF FinishDrop, Gone, TypeOK, DropSet
<1>2. field'[d] = field[d]
  BY <1>1 DEF FinishDrop
<1> QED BY <1>1, <1>2, DropAssumption DEF ReservedByPickup

\* An answer changes nothing of the sessions but the answered request.
LEMMA ReplyChanges ==
  ASSUME TypeOK, NEW j \in JobSet, NEW r, Reply(j, r)
  PROVE  /\ \A c \in Characters : c # j.owner \/ ~j.live => session'[c] = session[c]
         /\ j.live => session'[j.owner].request.reply = r
         /\ \A c \in Characters : /\ session'[c].online = session[c].online
                                  /\ session'[c].request.kind = session[c].request.kind
                                  /\ session'[c].request.drop = session[c].request.drop
<1>1. CASE ~j.live
  BY <1>1 DEF Reply
<1>2. CASE j.live
  <2> DEFINE o == j.owner
             q == [session[o].request EXCEPT !.reply = r]
             new == [session[o] EXCEPT !.request = q]
  <2>1. o \in Characters /\ session[o] \in SessionSet
    BY DEF JobSet, TypeOK
  <2>2. session[o].request \in RequestSet
    BY <2>1 DEF SessionSet
  <2>3. q.reply = r /\ q.kind = session[o].request.kind /\ q.drop = session[o].request.drop
    BY <2>2 DEF RequestSet
  <2>4. new.request = q /\ new.online = session[o].online
    BY <2>1 DEF SessionSet
  <2>5. session' = [session EXCEPT ![o] = new]
    BY <1>2 DEF Reply
  <2>6. session'[o] = new /\ \A c \in Characters \ {o} : session'[c] = session[c]
    BY <2>1, <2>5 DEF TypeOK
  <2>7. session'[o].request = q /\ session'[o].online = session[o].online
    BY <2>4, <2>6
  <2> HIDE DEF q, new
  <2>8. session'[o].request.reply = r
    BY <2>3, <2>7
  <2>9. ASSUME NEW c \in Characters
        PROVE  /\ session'[c].online = session[c].online
               /\ session'[c].request.kind = session[c].request.kind
               /\ session'[c].request.drop = session[c].request.drop
    <3>1. CASE c = o
      BY <2>3, <2>7, <3>1
    <3>2. CASE c # o
      BY <2>6, <3>2
    <3> QED BY <3>1, <3>2
  <2> QED BY <1>2, <2>6, <2>8, <2>9
<1> QED BY <1>1, <1>2

LEMMA RequestKept ==
  ASSUME TypeOK, ReservedByPickup, NEW j \in JobSet, NEW r, Reply(j, r), UNCHANGED field
  PROVE  ReservedByPickup'
<1>1. \A d \in Drops : field[d].reservedBy \in Characters \cup {None}
  BY DEF TypeOK, DropSet
<1> QED BY <1>1, ReplyChanges DEF ReservedByPickup, Pickups

LEMMA ReservedNext ==
  ASSUME TypeInv, ReservedByPickup, [Next]_vars
  PROVE  ReservedByPickup'
<1>0. TypeOK
  BY DEF TypeInv
<1>1. \A d \in Drops : field[d].reservedBy \in Characters \cup {None}
  BY <1>0 DEF TypeOK, DropSet
<1>2. CASE UNCHANGED <<field, session>>
  BY <1>2 DEF ReservedByPickup, Pickups
<1>3. CASE FieldStep
  <2>1. ASSUME NEW d \in Drops, NEW e \in Drops, CreateDrop(d), field'[e].reservedBy # None
        PROVE  field'[e] = field[e]
    BY <1>0, <2>1 DEF CreateDrop, TypeOK
  <2>2. ASSUME NEW d \in Drops, NEW late \in BOOLEAN, NEW old \in BOOLEAN,
               TickDrop(d, late, old), NEW e \in Drops, field'[e].reservedBy # None
        PROVE  field'[e] = field[e]
    BY <1>0, <2>2 DEF TickDrop, TypeOK, DropSet, Gone
  <2>3. UNCHANGED session
    BY <1>3 DEF FieldStep, CreateDrop, TickDrop
  <2> QED BY <1>3, <2>1, <2>2, <2>3 DEF FieldStep, ReservedByPickup, Pickups
<1>4. ASSUME NEW c \in Characters, Enter(c)
      PROVE  ReservedByPickup'
  BY <1>0, <1>1, <1>4 DEF Enter, ReservedByPickup, Pickups, TypeOK, SessionSet
<1>5. ASSUME NEW c \in Characters, Disconnect(c) \/ Answered(c) \/ Timeout(c)
      PROVE  ReservedByPickup'
  <2>1. PICK result : field' = FinishDrop(c, result)
    BY <1>5 DEF Disconnect, Answered, Timeout, Finish
  <2>2. \A b \in Characters \ {c} : session'[b] = session[b]
    BY <1>0, <1>5 DEF Disconnect, Answered, Timeout, Finish, TypeOK
  <2> QED BY <1>0, <1>1, <2>1, <2>2, FinishDropFrees DEF ReservedByPickup, Pickups
<1>6. ASSUME NEW c \in Characters, NEW d \in Drops, RequestPickup(c, d)
      PROVE  ReservedByPickup'
  <2>1. /\ session'[c].online /\ Pickups(c, d)'
        /\ \A b \in Characters \ {c} : session'[b] = session[b]
    BY <1>0, <1>6 DEF RequestPickup, Submit, TypeOK, SessionSet, Pickups
  <2>2. /\ field'[d].reservedBy = c /\ field'[d].stage = "lying"
        /\ \A e \in Drops \ {d} : field'[e] = field[e]
    BY <1>0, <1>6 DEF RequestPickup, Reservable, TypeOK, DropSet
  <2>3. \A e \in Drops : field[e].reservedBy # c
    BY <1>6, DropAssumption DEF RequestPickup, Submit, FieldBusy, ReservedByPickup, Pickups, NoRequest
  <2> QED BY <1>1, <2>1, <2>2, <2>3 DEF ReservedByPickup, Pickups
<1>7. ASSUME NEW c \in Characters, NEW d \in Drops, QueryDrop(c, d)
      PROVE  ReservedByPickup'
  <2>1. \A e \in Drops : field[e].reservedBy # c
    BY <1>7, DropAssumption DEF QueryDrop, Submit, FieldBusy, ReservedByPickup, Pickups, NoRequest
  <2>2. \A b \in Characters \ {c} : session'[b] = session[b]
    BY <1>0, <1>7 DEF QueryDrop, Submit, TypeOK
  <2> QED BY <1>1, <1>7, <2>1, <2>2 DEF QueryDrop, ReservedByPickup, Pickups
<1>8. CASE WorkerStep
  <2>1. queue # <<>> => Head(queue) \in JobSet
    BY <1>0, QueueTypes
  <2>2. running # Idle => running.job \in JobSet
    BY <1>0 DEF TypeOK, RunningSet
  <2>3. UNCHANGED field
    BY <1>8 DEF WorkerStep, JobFails, RunPickup, RunQuery, CommitRunning,
                RollbackRunning, ReplyCommitted, ReplyUnknown
  <2>4. UNCHANGED session \/ \E j \in JobSet : \E r : Reply(j, r)
    BY <1>8, <2>1, <2>2 DEF WorkerStep, JobFails, RunPickup, RunQuery, CommitRunning,
                RollbackRunning, ReplyCommitted, ReplyUnknown
  <2> QED BY <1>0, <1>2, <2>3, <2>4, RequestKept
<1>9. CASE Crash
  <2>1. \A d \in Drops : field'[d].reservedBy = None
    BY <1>0, <1>1, <1>9 DEF Crash, Gone, Lying, ReservedByPickup
  <2> QED BY <2>1 DEF ReservedByPickup
<1>10. CASE DatabaseStep \/ UNCHANGED vars
  BY <1>2, <1>10 DEF DatabaseStep, OrphanCommits, OrphanRollsBack, vars
<1>11. ASSUME NEW c \in Characters, NEW d \in Drops, RefusePickup(c, d)
       PROVE  ReservedByPickup'
  BY <1>2, <1>11 DEF RefusePickup
<1> QED
  BY <1>3, <1>4, <1>5, <1>6, <1>7, <1>8, <1>9, <1>10, <1>11 DEF Next, SessionStep

\* A drop is kept from the others only by a pickup that is under way on a
\* connection that lives.
THEOREM ReservationHasPickup == Spec => []ReservedByPickup
<1>1. Init => TypeInv
  BY TypeInvInit
<1>2. TypeInv /\ [Next]_vars => TypeInv'
  BY TypeInvNext
<1>3. Init => ReservedByPickup
  BY DEF Init, Gone, ReservedByPickup
<1>4. TypeInv /\ ReservedByPickup /\ [Next]_vars => ReservedByPickup'
  BY ReservedNext
<1> QED BY <1>1, <1>2, <1>3, <1>4, PTL DEF Spec

(***************************************************************************)
(* Which request an answer reaches.  A job that was not abandoned is the   *)
(* one its owner still waits for, and an owner has no second such job.     *)
(***************************************************************************)

Asked(j) == session[j.owner].request = [kind |-> j.kind, drop |-> j.drop, reply |-> "waiting"]

LiveInv ==
  /\ \A i \in DOMAIN queue : queue[i].live => Asked(queue[i])
  /\ running # Idle /\ running.job.live => Asked(running.job)
  /\ \A i, k \in DOMAIN queue :
       queue[i].live /\ queue[k].live /\ queue[i].owner = queue[k].owner => i = k
  /\ \A i \in DOMAIN queue :
       running # Idle /\ running.job.live /\ queue[i].live => queue[i].owner # running.job.owner

LEMMA QueueElements ==
  ASSUME TypeOK
  PROVE  /\ DOMAIN queue = 1..Len(queue) /\ Len(queue) \in Nat
         /\ \A i \in DOMAIN queue : queue[i] \in JobSet
         /\ running # Idle => running.job \in JobSet
BY ElementOfSeq, LenProperties DEF TypeOK, RunningSet

LEMMA TailElements ==
  ASSUME TypeOK, queue # <<>>, queue' = Tail(queue)
  PROVE  /\ 1 \in DOMAIN queue /\ Head(queue) = queue[1]
         /\ \A i \in DOMAIN queue' : /\ i + 1 \in DOMAIN queue /\ i + 1 # 1
                                     /\ i \in Nat /\ queue'[i] = queue[i + 1]
<1>1. queue \in Seq(JobSet) /\ Len(queue) \in Nat /\ Len(queue) # 0
  BY EmptySeq, LenProperties DEF TypeOK
<1>2. /\ Tail(queue) \in Seq(JobSet) /\ Len(Tail(queue)) = Len(queue) - 1
      /\ \A i \in 1..Len(Tail(queue)) : Tail(queue)[i] = queue[i + 1]
      /\ Head(queue) = queue[1]
  BY <1>1, HeadTailProperties
<1>3. DOMAIN Tail(queue) = 1..Len(Tail(queue)) /\ DOMAIN queue = 1..Len(queue)
  BY <1>1, <1>2, LenProperties
<1> QED BY <1>1, <1>2, <1>3

\* The worker takes the next job, answers it or starts it.
LEMMA TakeLive ==
  ASSUME TypeOK, LiveInv, queue # <<>>, queue' = Tail(queue),
         \/ running' = running /\ \E r : Reply(Head(queue), r)
         \/ /\ running = Idle /\ session' = session
            /\ running' \in RunningSet /\ running'.job = Head(queue)
  PROVE  LiveInv'
<1>1. /\ 1 \in DOMAIN queue /\ Head(queue) = queue[1] /\ queue[1] \in JobSet
      /\ \A i \in DOMAIN queue' : /\ i + 1 \in DOMAIN queue /\ i + 1 # 1
                                  /\ i \in Nat /\ queue'[i] = queue[i + 1]
                                  /\ queue'[i] \in JobSet
  BY TailElements, QueueElements
<1>2. \A i \in DOMAIN queue' : queue'[i].live /\ queue[1].live => queue'[i].owner # queue[1].owner
  BY <1>1 DEF LiveInv
<1>3. \A i, k \in DOMAIN queue' :
        queue'[i].live /\ queue'[k].live /\ queue'[i].owner = queue'[k].owner => i = k
  <2> SUFFICES ASSUME NEW i \in DOMAIN queue', NEW k \in DOMAIN queue',
                      queue'[i].live, queue'[k].live, queue'[i].owner = queue'[k].owner
               PROVE  i = k
    OBVIOUS
  <2>1. i + 1 = k + 1
    BY <1>1 DEF LiveInv
  <2> QED BY <1>1, <2>1
<1>4. CASE running' = running /\ \E r : Reply(Head(queue), r)
  <2>1. \A c \in Characters : c # queue[1].owner \/ ~queue[1].live => session'[c] = session[c]
    BY <1>1, <1>4, ReplyChanges
  <2>2. running # Idle => running.job \in JobSet
    BY QueueElements
  <2>3. \A i \in DOMAIN queue' : queue'[i].live => session'[queue'[i].owner] = session[queue'[i].owner]
    BY <1>1, <1>2, <2>1 DEF JobSet
  <2>4. running # Idle /\ running.job.live => session'[running.job.owner] = session[running.job.owner]
    BY <1>1, <2>1, <2>2 DEF JobSet, LiveInv
  <2>5. \A i \in DOMAIN queue' : queue'[i].live => Asked(queue[i])'
    BY <1>1, <2>3 DEF LiveInv, Asked
  <2>6. running' # Idle /\ running'.job.live => Asked(running.job)'
    BY <1>4, <2>4 DEF LiveInv, Asked
  <2>7. \A i \in DOMAIN queue' :
          running' # Idle /\ running'.job.live /\ queue'[i].live => queue'[i].owner # running'.job.owner
    BY <1>1, <1>4 DEF LiveInv
  <2> QED BY <1>3, <1>4, <2>5, <2>6, <2>7 DEF LiveInv
<1>5. CASE running = Idle /\ session' = session /\ running' \in RunningSet
           /\ running'.job = Head(queue)
  <2>1. \A i \in DOMAIN queue' : queue'[i].live => Asked(queue[i])'
    BY <1>1, <1>5 DEF LiveInv, Asked
  <2>2. running'.job.live => Asked(running.job)'
    BY <1>1, <1>5 DEF LiveInv, Asked
  <2> QED BY <1>1, <1>2, <1>3, <1>5, <2>1, <2>2 DEF LiveInv
<1> QED BY <1>4, <1>5

\* The worker answers the job it was running.
LEMMA AnswerLive ==
  ASSUME TypeOK, LiveInv, running # Idle, UNCHANGED queue,
         running' = Idle, NEW r, Reply(running.job, r)
  PROVE  LiveInv'
<1>1. running.job \in JobSet /\ \A i \in DOMAIN queue : queue[i] \in JobSet
  BY QueueElements
<1>2. \A i \in DOMAIN queue : queue[i].live => session'[queue[i].owner] = session[queue[i].owner]
  BY <1>1, ReplyChanges DEF JobSet, LiveInv
<1> QED BY <1>2 DEF LiveInv, Asked

\* Ending the request of c abandons its job.
LEMMA AbandonLive ==
  ASSUME TypeOK, LiveInv, NEW c \in Characters,
         queue' = AbandonQueue(c), running' = AbandonRunning(c),
         \A b \in Characters \ {c} : session'[b] = session[b]
  PROVE  LiveInv'
<1>1. \A j \in JobSet : /\ Abandon(j, c).live => j.live /\ j.owner # c
                        /\ j.live /\ j.owner # c => Abandon(j, c) = j
                        /\ Abandon(j, c).owner = j.owner
  BY DEF Abandon, JobSet
<1>2. /\ \A i \in DOMAIN queue : queue[i] \in JobSet
      /\ running # Idle => running.job \in JobSet /\ running \in RunningSet
  BY QueueElements DEF TypeOK
<1>3. DOMAIN queue' = DOMAIN queue /\ \A i \in DOMAIN queue : queue'[i] = Abandon(queue[i], c)
  BY DEF AbandonQueue
<1>4. running' # Idle => running # Idle /\ running'.job = Abandon(running.job, c)
  BY <1>2 DEF AbandonRunning, RunningSet
<1>5. \A i \in DOMAIN queue : queue'[i].live =>
        queue'[i] = queue[i] /\ queue[i].live /\ queue[i].owner \in Characters \ {c}
  BY <1>1, <1>2, <1>3 DEF JobSet
<1>6. running' # Idle /\ running'.job.live =>
        running # Idle /\ running'.job = running.job /\ running.job.owner \in Characters \ {c}
  BY <1>1, <1>2, <1>4 DEF JobSet
<1>7. \A i \in DOMAIN queue : queue'[i].live => Asked(queue[i])'
  BY <1>5 DEF LiveInv, Asked
<1>8. running' # Idle /\ running'.job.live => Asked(running.job)'
  BY <1>6 DEF LiveInv, Asked
<1>9. \A i, k \in DOMAIN queue :
        queue'[i].live /\ queue'[k].live /\ queue'[i].owner = queue'[k].owner => i = k
  BY <1>5 DEF LiveInv
<1>10. \A i \in DOMAIN queue :
         running' # Idle /\ running'.job.live /\ queue'[i].live => queue'[i].owner # running'.job.owner
  BY <1>5, <1>6 DEF LiveInv
<1> QED BY <1>3, <1>6, <1>7, <1>8, <1>9, <1>10 DEF LiveInv

\* Asking appends the one live job of its owner.
LEMMA SubmitLive ==
  ASSUME TypeOK, LiveInv, NEW c \in Characters, NEW kind \in {"pickup", "query"},
         NEW d \in Drops, Submit(c, kind, d)
  PROVE  LiveInv'
<1> DEFINE new == Job(kind, c, d)
<1>1. /\ DOMAIN queue = 1..Len(queue) /\ Len(queue) \in Nat
      /\ \A i \in DOMAIN queue : queue[i] \in JobSet
      /\ running # Idle => running.job \in JobSet
  BY QueueElements
<1>2. new \in JobSet /\ new.owner = c /\ new.live /\ new.kind = kind /\ new.drop = d
  BY DEF Job, JobSet
<1>3. /\ DOMAIN queue' = DOMAIN queue \cup {Len(queue) + 1}
      /\ \A i \in DOMAIN queue : queue'[i] = queue[i]
      /\ queue'[Len(queue) + 1] = new
  BY <1>1, <1>2, AppendProperties DEF Submit, TypeOK
<1>4. \A j \in JobSet : Asked(j) => j.owner \in Characters \ {c}
  <2>1. session[c].request.reply # "waiting"
    BY DEF Submit, FieldBusy, NoRequest
  <2>2. \A j \in JobSet : Asked(j) => session[j.owner].request.reply = "waiting"
    BY DEF Asked
  <2> QED BY <2>1, <2>2 DEF JobSet
<1>5. /\ \A i \in DOMAIN queue : queue[i].live => queue[i].owner \in Characters \ {c}
      /\ running # Idle /\ running.job.live => running.job.owner \in Characters \ {c}
  BY <1>1, <1>4 DEF LiveInv
<1>6. /\ \A b \in Characters \ {c} : session'[b] = session[b]
      /\ session'[c].request = [kind |-> kind, drop |-> d, reply |-> "waiting"]
  BY DEF Submit, TypeOK, SessionSet
<1>7. running' = running
  BY DEF Submit
<1>8. Asked(new)'
  BY <1>2, <1>6 DEF Asked
<1>9. \A i \in DOMAIN queue : queue[i].live => Asked(queue[i])'
  BY <1>3, <1>5, <1>6 DEF LiveInv, Asked
<1>10. running # Idle /\ running.job.live => Asked(running.job)'
  BY <1>5, <1>6, <1>7 DEF LiveInv, Asked
<1>11. \A i \in DOMAIN queue' : queue'[i].live => Asked(queue[i])'
  BY <1>3, <1>8, <1>9 DEF Asked
<1>12. \A i, k \in DOMAIN queue' :
         queue'[i].live /\ queue'[k].live /\ queue'[i].owner = queue'[k].owner => i = k
  BY <1>2, <1>3, <1>5 DEF LiveInv
<1>13. \A i \in DOMAIN queue' :
         running' # Idle /\ running'.job.live /\ queue'[i].live => queue'[i].owner # running'.job.owner
  BY <1>2, <1>3, <1>5, <1>7 DEF LiveInv
<1> QED BY <1>7, <1>10, <1>11, <1>12, <1>13 DEF LiveInv

LEMMA LiveInvNext ==
  ASSUME TypeInv, LiveInv, [Next]_vars
  PROVE  LiveInv'
<1>0. TypeOK
  BY DEF TypeInv
<1>1. CASE UNCHANGED <<queue, running, session>>
  BY <1>1 DEF LiveInv, Asked
<1>2. ASSUME NEW c \in Characters, Enter(c)
      PROVE  LiveInv'
  <2>1. \A b \in Characters : session'[b].request = session[b].request
    BY <1>0, <1>2 DEF Enter, TypeOK, SessionSet
  <2>2. queue' = queue /\ running' = running
    BY <1>2 DEF Enter
  <2>3. /\ \A i \in DOMAIN queue : queue[i].owner \in Characters
        /\ running # Idle => running.job.owner \in Characters
    BY <1>0, QueueElements DEF JobSet
  <2>4. \A i \in DOMAIN queue : queue[i].live => Asked(queue[i])'
    BY <2>1, <2>2, <2>3 DEF LiveInv, Asked
  <2>5. running # Idle /\ running.job.live => Asked(running.job)'
    BY <2>1, <2>2, <2>3 DEF LiveInv, Asked
  <2> QED BY <2>2, <2>4, <2>5 DEF LiveInv
<1>3. ASSUME NEW c \in Characters, Disconnect(c) \/ Timeout(c)
      PROVE  LiveInv'
  <2>1. \A b \in Characters \ {c} : session'[b] = session[b]
    BY <1>0, <1>3 DEF Disconnect, Timeout, Finish, TypeOK
  <2> QED BY <1>0, <1>3, <2>1, AbandonLive DEF Disconnect, Timeout
<1>4. ASSUME NEW c \in Characters, Answered(c)
      PROVE  LiveInv'
  <2>1. \A j \in JobSet : Asked(j) => j.owner \in Characters \ {c}
    <3>1. session[c].request.reply # "waiting"
      BY <1>4 DEF Answered
    <3>2. \A j \in JobSet : Asked(j) => session[j.owner].request.reply = "waiting"
      BY DEF Asked
    <3> QED BY <3>1, <3>2 DEF JobSet
  <2>2. \A b \in Characters \ {c} : session'[b] = session[b]
    BY <1>0, <1>4 DEF Answered, Finish, TypeOK
  <2>3. queue' = queue /\ running' = running
    BY <1>4 DEF Answered
  <2>4. \A i \in DOMAIN queue : queue[i].live => Asked(queue[i])'
    BY <1>0, <2>1, <2>2, <2>3, QueueElements DEF LiveInv, Asked
  <2>5. running # Idle /\ running.job.live => Asked(running.job)'
    BY <1>0, <2>1, <2>2, <2>3, QueueElements DEF LiveInv, Asked
  <2> QED BY <2>3, <2>4, <2>5 DEF LiveInv
<1>5. ASSUME NEW c \in Characters, NEW d \in Drops, RequestPickup(c, d) \/ QueryDrop(c, d)
      PROVE  LiveInv'
  BY <1>0, <1>5, SubmitLive DEF RequestPickup, QueryDrop
<1>6. CASE JobFails \/ RunQuery
  BY <1>0, <1>6, TakeLive DEF JobFails, RunQuery
<1>7. ASSUME NEW mutated \in {"Success", "Full", "CannotUse"}, RunPickup(mutated)
      PROVE  LiveInv'
  <2>1. queue # <<>> /\ queue' = Tail(queue) /\ running = Idle /\ Head(queue) \in JobSet
    BY <1>0, <1>7, QueueTypes DEF RunPickup
  <2>2. \/ running' = running /\ \E r : Reply(Head(queue), r)
        \/ running' = [job |-> Head(queue), outcome |-> "open"] /\ session' = session
    BY <1>7 DEF RunPickup
  <2>3. running' = [job |-> Head(queue), outcome |-> "open"] =>
          running' \in RunningSet /\ running'.job = Head(queue)
    BY <2>1 DEF RunningSet
  <2> QED BY <1>0, <2>1, <2>2, <2>3, TakeLive
<1>8. CASE CommitRunning
  <2>1. running # Idle /\ running' # Idle /\ running'.job = running.job
    BY <1>0, <1>8 DEF CommitRunning, TypeOK, RunningSet, Idle
  <2> QED BY <1>8, <2>1 DEF CommitRunning, LiveInv, Asked
<1>9. CASE RollbackRunning \/ ReplyCommitted \/ ReplyUnknown
  BY <1>0, <1>9, AnswerLive DEF RollbackRunning, ReplyCommitted, ReplyUnknown
<1>10. CASE Crash
  BY <1>10 DEF Crash, LiveInv
<1>11. CASE FieldStep \/ DatabaseStep \/ UNCHANGED vars
  BY <1>1, <1>11 DEF FieldStep, CreateDrop, TickDrop, DatabaseStep, OrphanCommits,
                     OrphanRollsBack, vars
<1>12. ASSUME NEW c \in Characters, NEW d \in Drops, RefusePickup(c, d)
       PROVE  LiveInv'
  BY <1>1, <1>12 DEF RefusePickup
<1> QED
  BY <1>2, <1>3, <1>4, <1>5, <1>6, <1>7, <1>8, <1>9, <1>10, <1>11, <1>12
     DEF Next, SessionStep, WorkerStep

(***************************************************************************)
(* The answers are true and stay true.  A claim is never changed, and once *)
(* no transaction of a character for a drop is open, only a new pickup     *)
(* opens one; that pickup resets what the character was told.              *)
(***************************************************************************)

Never(c, d) == claims[d] # c /\ \A j \in OpenJobs : ~(j.owner = c /\ j.drop = d)

AnswerTrue(c, d, r) ==
  /\ r = "Success" => claims[d] = c
  /\ r = "AlreadyTaken" => claims[d] # None
  /\ r = "NoRecord" => Never(c, d)

CommittedClaims ==
  running # Idle /\ running.outcome = "committed" => claims[running.job.drop] = running.job.owner
ReplyTrue(c) ==
  session[c].request.reply \in Verdict =>
    /\ session[c].request.drop \in Drops
    /\ AnswerTrue(c, session[c].request.drop, session[c].request.reply)
    /\ session[c].request.reply = "NoRecord" => session[c].request.kind = "query"
RepliesTrue == \A c \in Characters : ReplyTrue(c)
ToldTrue == \A c \in Characters, d \in Drops : \A r \in told[c][d] : AnswerTrue(c, d, r)
PickupsUntold == \A c \in Characters, d \in Drops : Pickups(c, d) => told[c][d] = {}

\* The worker commits, or the database does: the two ways a claim is made.
LEMMA ClaimStays ==
  ASSUME TypeOK, GrantInv, [Next]_vars
  PROVE  /\ \A d \in Drops : claims[d] # None => claims'[d] = claims[d]
         /\ \A d \in Drops : claims'[d] # claims[d] =>
              \E j \in OpenJobs : j.drop = d /\ claims'[d] = j.owner
<1>1. CASE UNCHANGED claims
  BY <1>1
<1>2. ASSUME NEW j \in OpenJobs, Effect(j)
      PROVE  /\ \A d \in Drops : claims[d] # None => claims'[d] = claims[d]
             /\ \A d \in Drops : claims'[d] # claims[d] =>
                  \E k \in OpenJobs : k.drop = d /\ claims'[d] = k.owner
  <2>1. j \in JobSet /\ claims[j.drop] = None
    BY OpenJobsType DEF OpenJobs, GrantInv, OpenApart
  <2>2. \A d \in Drops : claims'[d] = IF d = j.drop THEN j.owner ELSE claims[d]
    BY <1>2, <2>1 DEF Effect, TypeOK, JobSet
  <2> QED BY <2>1, <2>2
<1>3. CommitRunning => running.job \in OpenJobs /\ Effect(running.job)
  BY DEF CommitRunning, OpenJobs
<1>4. \A j \in orphans : j \in OpenJobs
  BY DEF OpenJobs
<1> HIDE DEF OpenJobs, Effect
<1>5. \A j \in orphans : OrphanCommits(j) => Effect(j)
  BY DEF OrphanCommits
<1>6. CASE CommitRunning
  BY <1>2, <1>3, <1>6
<1>7. ASSUME NEW j \in orphans, OrphanCommits(j)
      PROVE  /\ \A d \in Drops : claims[d] # None => claims'[d] = claims[d]
             /\ \A d \in Drops : claims'[d] # claims[d] =>
                  \E k \in OpenJobs : k.drop = d /\ claims'[d] = k.owner
  BY <1>2, <1>4, <1>5, <1>7
<1>8. ASSUME FieldStep \/ SessionStep \/ Crash \/ UNCHANGED vars
      PROVE  UNCHANGED claims
  BY <1>8 DEF FieldStep, SessionStep, CreateDrop, TickDrop, Enter, Disconnect, Answered,
       Timeout, RequestPickup, RefusePickup, QueryDrop, Submit, Crash, vars, db
<1>9. ASSUME WorkerStep, ~CommitRunning
      PROVE  UNCHANGED claims
  BY <1>9 DEF WorkerStep, JobFails, RunPickup, RunQuery, RollbackRunning,
       ReplyCommitted, ReplyUnknown, db
<1>10. ASSUME NEW j \in orphans, OrphanRollsBack(j)
       PROVE  UNCHANGED claims
  BY <1>10 DEF OrphanRollsBack
<1> QED BY <1>1, <1>6, <1>7, <1>8, <1>9, <1>10 DEF Next, DatabaseStep

\* Only a pickup that was asked for and not given up opens a transaction.
LEMMA OpenFrom ==
  ASSUME TypeInv, LiveInv, [Next]_vars
  PROVE  \A k \in OpenJobs' : \/ \E j \in OpenJobs : j.owner = k.owner /\ j.drop = k.drop
                              \/ Pickups(k.owner, k.drop)
<1>0. TypeOK
  BY DEF TypeInv
<1>1. CASE UNCHANGED <<orphans, running>>
  BY <1>1 DEF OpenJobs
<1>2. CASE orphans' \subseteq OpenJobs /\ (running' = Idle \/ running' = running)
  BY <1>2 DEF OpenJobs
<1>3. ASSUME NEW c \in Characters, Disconnect(c) \/ Timeout(c)
      PROVE  \A k \in OpenJobs' : \E j \in OpenJobs : j.owner = k.owner /\ j.drop = k.drop
  <2>1. orphans' = orphans /\ running' = AbandonRunning(c)
    BY <1>3 DEF Disconnect, Timeout, db
  <2>2. running # Idle => running \in RunningSet /\ running.job \in JobSet
    BY <1>0 DEF TypeOK, RunningSet
  <2>3. running' # Idle => /\ running # Idle /\ running'.outcome = running.outcome
                           /\ running'.job = Abandon(running.job, c)
    BY <2>1, <2>2 DEF AbandonRunning, RunningSet
  <2>4. running' # Idle => /\ running'.job.owner = running.job.owner
                           /\ running'.job.drop = running.job.drop
    BY <2>2, <2>3, AbandonType
  <2> QED BY <2>1, <2>3, <2>4 DEF OpenJobs
<1>4. ASSUME NEW mutated \in {"Success", "Full", "CannotUse"}, RunPickup(mutated)
      PROVE  \A k \in OpenJobs' : \/ \E j \in OpenJobs : j.owner = k.owner /\ j.drop = k.drop
                                  \/ Pickups(k.owner, k.drop)
  <2>1. 1 \in DOMAIN queue /\ Head(queue) = queue[1] /\ orphans' = orphans
    BY <1>0, <1>4, TailElements DEF RunPickup, db
  <2>2. Head(queue).kind = "pickup" /\ Head(queue).live
    BY <1>4 DEF RunPickup
  <2>3. Pickups(Head(queue).owner, Head(queue).drop)
    <3>1. Asked(Head(queue))
      BY <2>1, <2>2 DEF LiveInv
    <3> QED BY <2>2, <3>1 DEF Asked, Pickups
  <2>4. UNCHANGED running \/ running' = [job |-> Head(queue), outcome |-> "open"]
    BY <1>4 DEF RunPickup
  <2>5. \A k \in OpenJobs' : k \in OpenJobs \/ k = Head(queue)
    BY <2>1, <2>4 DEF OpenJobs
  <2> QED BY <2>3, <2>5
<1>5. CASE CommitRunning
  <2>1. running'.outcome = "committed" /\ orphans' = orphans
    BY <1>0, <1>5 DEF CommitRunning, TypeOK, RunningSet
  <2> QED BY <2>1 DEF OpenJobs
<1>6. ASSUME FieldStep \/ JobFails \/ RunQuery \/ UNCHANGED vars
      PROVE  UNCHANGED <<orphans, running>>
  BY <1>6 DEF FieldStep, CreateDrop, TickDrop, JobFails, RunQuery, vars, db
<1>7. ASSUME NEW c \in Characters,
             \/ Enter(c) \/ Answered(c)
             \/ \E d \in Drops : RequestPickup(c, d) \/ RefusePickup(c, d) \/ QueryDrop(c, d)
      PROVE  UNCHANGED <<orphans, running>>
  BY <1>7 DEF Enter, Answered, RequestPickup, RefusePickup, QueryDrop, Submit, db
<1>8. ASSUME RollbackRunning \/ ReplyCommitted \/ ReplyUnknown \/ Crash \/ DatabaseStep
      PROVE  orphans' \subseteq OpenJobs /\ (running' = Idle \/ running' = running)
  BY <1>8 DEF RollbackRunning, ReplyCommitted, ReplyUnknown, Crash, DatabaseStep,
       OrphanCommits, OrphanRollsBack, OpenJobs, db
<1> QED BY <1>1, <1>2, <1>3, <1>4, <1>5, <1>6, <1>7, <1>8 DEF Next, SessionStep, WorkerStep

LEMMA AnswerStays ==
  ASSUME TypeInv, GrantInv, LiveInv, [Next]_vars,
         NEW c \in Characters, NEW d \in Drops, NEW r,
         AnswerTrue(c, d, r), r = "NoRecord" => ~Pickups(c, d)
  PROVE  AnswerTrue(c, d, r)'
<1>1. \A e \in Drops : claims[e] # None => claims'[e] = claims[e]
  BY ClaimStays DEF TypeInv
<1>2. ASSUME Never(c, d), ~Pickups(c, d)
      PROVE  Never(c, d)'
  <2>1. claims'[d] # c
    BY <1>2, ClaimStays DEF Never, TypeInv
  <2>2. \A k \in OpenJobs' : ~(k.owner = c /\ k.drop = d)
    BY <1>2, OpenFrom DEF Never
  <2> QED BY <2>1, <2>2 DEF Never
<1> QED BY <1>1, <1>2, DropAssumption DEF AnswerTrue

TruthInv == CommittedClaims /\ RepliesTrue /\ ToldTrue /\ PickupsUntold /\ TakenIsGranted
DropInv == TypeInv /\ GrantInv /\ LiveInv /\ TruthInv

LEMMA CommittedNext ==
  ASSUME DropInv, [Next]_vars
  PROVE  CommittedClaims'
<1>0. TypeOK /\ GrantInv /\ CommittedClaims
  BY DEF DropInv, TypeInv, TruthInv
<1>1. running # Idle => /\ running \in RunningSet /\ running.job \in JobSet
                        /\ running.job.owner # None /\ running.job.drop \in Drops
  BY <1>0, DropAssumption DEF TypeOK, RunningSet, JobSet
<1>2. CASE CommitRunning
  <2>1. claims'[running.job.drop] = running.job.owner /\ running'.job = running.job
    BY <1>0, <1>1, <1>2 DEF CommitRunning, Effect, TypeOK, RunningSet
  <2> QED BY <2>1 DEF CommittedClaims
<1>3. CASE UNCHANGED running
  BY <1>0, <1>1, <1>3, ClaimStays DEF CommittedClaims
<1>4. ASSUME NEW c \in Characters, running' = AbandonRunning(c)
      PROVE  CommittedClaims'
  <2>1. CASE running = Idle
    BY <1>4, <2>1 DEF AbandonRunning, CommittedClaims
  <2>2. CASE running # Idle
    <3>1. running'.outcome = running.outcome /\ running'.job = Abandon(running.job, c)
      BY <1>1, <1>4, <2>2 DEF AbandonRunning, RunningSet
    <3>2. running'.job.owner = running.job.owner /\ running'.job.drop = running.job.drop
      BY <1>1, <2>2, <3>1, AbandonType
    <3> QED BY <1>0, <1>1, <2>2, <3>1, <3>2, ClaimStays DEF CommittedClaims
  <2> QED BY <2>1, <2>2
<1>5. ASSUME NEW mutated \in {"Success", "Full", "CannotUse"}, RunPickup(mutated)
      PROVE  UNCHANGED running \/ running'.outcome = "open"
  BY <1>5 DEF RunPickup
<1>6. running' = Idle \/ running'.outcome = "open" => CommittedClaims'
  BY DEF CommittedClaims
<1>7. ASSUME FieldStep \/ JobFails \/ RunQuery \/ DatabaseStep \/ UNCHANGED vars
      PROVE  UNCHANGED running
  BY <1>7 DEF FieldStep, CreateDrop, TickDrop, JobFails, RunQuery, DatabaseStep,
       OrphanCommits, OrphanRollsBack, vars
<1>8. ASSUME NEW c \in Characters,
             \/ Enter(c) \/ Answered(c)
             \/ \E d \in Drops : RequestPickup(c, d) \/ RefusePickup(c, d) \/ QueryDrop(c, d)
      PROVE  UNCHANGED running
  BY <1>8 DEF Enter, Answered, RequestPickup, RefusePickup, QueryDrop, Submit
<1>9. ASSUME NEW c \in Characters, Disconnect(c) \/ Timeout(c)
      PROVE  running' = AbandonRunning(c)
  BY <1>9 DEF Disconnect, Timeout
<1>10. ASSUME RollbackRunning \/ ReplyCommitted \/ ReplyUnknown \/ Crash
       PROVE  running' = Idle
  BY <1>10 DEF RollbackRunning, ReplyCommitted, ReplyUnknown, Crash
<1> QED
  BY <1>2, <1>3, <1>4, <1>5, <1>6, <1>7, <1>8, <1>9, <1>10 DEF Next, SessionStep, WorkerStep

\* A request that keeps its reply keeps a true one.
LEMMA SameReplyTrue ==
  ASSUME DropInv, [Next]_vars, NEW c \in Characters,
         session'[c].request = session[c].request
  PROVE  ReplyTrue(c)'
<1> DEFINE q == session[c].request
<1>1. CASE q.reply \notin Verdict
  BY <1>1 DEF ReplyTrue
<1>2. CASE q.reply \in Verdict
  <2>1. /\ q.drop \in Drops /\ AnswerTrue(c, q.drop, q.reply)
        /\ q.reply = "NoRecord" => q.kind = "query"
    BY <1>2 DEF DropInv, TruthInv, RepliesTrue, ReplyTrue
  <2>2. q.reply = "NoRecord" => ~Pickups(c, q.drop)
    BY <2>1 DEF Pickups
  <2>3. \A d \in Drops : \A r : AnswerTrue(c, d, r) /\ (r = "NoRecord" => ~Pickups(c, d))
                                => AnswerTrue(c, d, r)'
    BY AnswerStays DEF DropInv
  <2>4. PICK d \in Drops, r \in Verdict : d = q.drop /\ r = q.reply
    BY <1>2, <2>1
  <2>5. AnswerTrue(c, d, r)'
    BY <2>1, <2>2, <2>3, <2>4
  <2> QED BY <2>1, <2>4, <2>5 DEF ReplyTrue, AnswerTrue, Never
<1> QED BY <1>1, <1>2

\* The worker answers a live job truly: the rows it looked at have not changed.
LEMMA NewReplyTrue ==
  ASSUME DropInv, [Next]_vars, NEW j \in JobSet, NEW r, Reply(j, r),
         j.live => Asked(j),
         r \in Verdict => AnswerTrue(j.owner, j.drop, r)
                          /\ (r = "NoRecord" => j.kind = "query")
  PROVE  RepliesTrue'
<1>0. TypeOK
  BY DEF DropInv, TypeInv
<1> SUFFICES ASSUME NEW c \in Characters PROVE ReplyTrue(c)'
  BY DEF RepliesTrue
<1>1. CASE c # j.owner \/ ~j.live
  BY <1>0, <1>1, ReplyChanges, SameReplyTrue
<1>2. CASE c = j.owner /\ j.live
  <2>1. /\ session'[c].request.reply = r /\ session'[c].request.kind = j.kind
        /\ session'[c].request.drop = j.drop
        /\ session[c].request.kind = j.kind /\ session[c].request.drop = j.drop
    BY <1>0, <1>2, ReplyChanges DEF Asked
  <2>2. j.drop \in Drops
    BY DEF JobSet
  <2>3. CASE r \in Verdict
    <3>1. r = "NoRecord" => ~Pickups(c, j.drop)
      BY <2>1, <2>3 DEF Pickups
    <3>2. PICK d \in Drops : d = j.drop
      BY <2>2
    <3>3. PICK v \in Verdict : v = r
      BY <2>3
    <3>4. AnswerTrue(c, d, v)'
      BY <1>2, <2>3, <3>1, <3>2, <3>3, AnswerStays DEF DropInv
    <3> QED BY <2>1, <2>3, <3>2, <3>3, <3>4 DEF ReplyTrue, AnswerTrue, Never
  <2>4. CASE r \notin Verdict
    BY <2>1, <2>4 DEF ReplyTrue
  <2> QED BY <2>3, <2>4
<1> QED BY <1>1, <1>2

LEMMA RepliesNext ==
  ASSUME DropInv, [Next]_vars
  PROVE  RepliesTrue'
<1>0. TypeOK /\ LiveInv
  BY DEF DropInv, TypeInv
<1>1. ASSUME \A c \in Characters : \/ session'[c].request = session[c].request
                                   \/ session'[c].request.reply \notin Verdict
      PROVE  RepliesTrue'
  <2>1. \A c \in Characters : session'[c].request.reply \notin Verdict => ReplyTrue(c)'
    BY DEF ReplyTrue
  <2> QED BY <1>1, <2>1, SameReplyTrue DEF RepliesTrue
<1>2. queue # <<>> => Head(queue) \in JobSet /\ (Head(queue).live => Asked(Head(queue)))
  BY <1>0, QueueTypes, QueueElements, HeadTailProperties, EmptySeq DEF LiveInv, TypeOK
<1>3. running # Idle => /\ running.job \in JobSet
                        /\ running.job.live => Asked(running.job)
  BY <1>0, QueueElements DEF LiveInv
<1>4. "StorageError" \notin Verdict /\ "Full" \notin Verdict /\ "none" \notin Verdict
      /\ "waiting" \notin Verdict
  BY DEF Verdict
<1>5. ASSUME SessionStep
      PROVE  \A c \in Characters : \/ session'[c].request = session[c].request
                                   \/ session'[c].request.reply \notin Verdict
  BY <1>0, <1>4, <1>5 DEF SessionStep, Enter, Disconnect, Answered, Timeout, Finish,
       RequestPickup, RefusePickup, QueryDrop, Submit, Offline, NoRequest, TypeOK, SessionSet
<1>6. ASSUME FieldStep \/ CommitRunning \/ DatabaseStep \/ UNCHANGED vars
      PROVE  session' = session
  BY <1>6 DEF FieldStep, CreateDrop, TickDrop, CommitRunning, DatabaseStep,
       OrphanCommits, OrphanRollsBack, vars
<1>7. CASE Crash
  BY <1>1, <1>4, <1>7 DEF Crash, Offline, NoRequest
<1>8. CASE JobFails
  BY <1>2, <1>4, <1>8, NewReplyTrue DEF JobFails
<1>9. CASE RollbackRunning \/ ReplyUnknown
  BY <1>3, <1>4, <1>9, NewReplyTrue DEF RollbackRunning, ReplyUnknown
<1>10. CASE ReplyCommitted
  <2>1. AnswerTrue(running.job.owner, running.job.drop, "Success")
    BY <1>10 DEF ReplyCommitted, AnswerTrue, DropInv, TruthInv, CommittedClaims
  <2> QED BY <1>3, <1>10, <2>1, NewReplyTrue DEF ReplyCommitted
<1>11. ASSUME NEW mutated \in {"Success", "Full", "CannotUse"}, RunPickup(mutated)
       PROVE  RepliesTrue'
  <2> DEFINE j == Head(queue)
             r == PickupResult(j.drop, mutated)
  <2>1. CASE r = "Success"
    BY <1>1, <1>11, <2>1 DEF RunPickup
  <2>2. CASE r # "Success"
    <3>1. Reply(j, r) /\ queue # <<>>
      BY <1>11, <2>2 DEF RunPickup
    <3>2. r \in Verdict => r = "AlreadyTaken" /\ claims[j.drop] # None
      BY <1>4, <2>2 DEF PickupResult
    <3>3. r \in Verdict => AnswerTrue(j.owner, j.drop, r) /\ (r = "NoRecord" => j.kind = "query")
      BY <3>2 DEF AnswerTrue
    <3> QED BY <1>2, <3>1, <3>3, NewReplyTrue
  <2> QED BY <2>1, <2>2
<1>12. CASE RunQuery
  <2> DEFINE j == Head(queue)
             r == QueryResult(j.owner, j.drop)
  <2>1. Reply(j, r) /\ queue # <<>> /\ j.kind = "query" /\ Unlocked(j)
    BY <1>12 DEF RunQuery
  <2>2. j.owner # None
    BY <1>2, <2>1, DropAssumption DEF JobSet
  <2>3. r = "NoRecord" => Never(j.owner, j.drop)
    BY <2>1, <2>2 DEF QueryResult, Never, Unlocked
  <2>4. AnswerTrue(j.owner, j.drop, r)
    BY <2>2, <2>3 DEF QueryResult, AnswerTrue
  <2> QED BY <1>2, <2>1, <2>4, NewReplyTrue
<1> QED
  BY <1>1, <1>5, <1>6, <1>7, <1>8, <1>9, <1>10, <1>11, <1>12 DEF Next, WorkerStep

\* What a client is told ends its request, so it was not told while it picks up.
LEMMA UntoldNext ==
  ASSUME DropInv, [Next]_vars
  PROVE  PickupsUntold'
<1>0. TypeOK /\ PickupsUntold
  BY DEF DropInv, TypeInv, TruthInv
<1>1. CASE UNCHANGED <<session, told>>
  BY <1>0, <1>1 DEF PickupsUntold, Pickups
<1>2. ASSUME NEW c \in Characters, Enter(c) \/ Disconnect(c)
      PROVE  PickupsUntold'
  <2>1. told' = told /\ \A b \in Characters : \/ session'[b].request = session[b].request
                                              \/ session'[b].request = NoRequest
    <3>1. CASE Enter(c)
      BY <1>0, <3>1 DEF Enter, TypeOK, SessionSet
    <3>2. CASE Disconnect(c)
      <4>1. Offline.request = NoRequest
        BY DEF Offline
      <4> QED BY <1>0, <3>2, <4>1 DEF Disconnect, TypeOK
    <3> QED BY <1>2, <3>1, <3>2
  <2> QED BY <1>0, <2>1 DEF PickupsUntold, Pickups, NoRequest
<1>3. ASSUME NEW c \in Characters, Answered(c) \/ Timeout(c)
      PROVE  PickupsUntold'
  <2>1. /\ session'[c].request = NoRequest
        /\ \A b \in Characters \ {c} : session'[b] = session[b] /\ told'[b] = told[b]
    BY <1>0, <1>3 DEF Answered, Timeout, Finish, TypeOK, SessionSet
  <2> QED BY <1>0, <2>1 DEF PickupsUntold, Pickups, NoRequest
<1>4. ASSUME NEW c \in Characters, NEW d \in Drops, RequestPickup(c, d)
      PROVE  PickupsUntold'
  <2>1. /\ session'[c].request.drop = d
        /\ \A b \in Characters \ {c} : session'[b] = session[b]
    BY <1>0, <1>4 DEF RequestPickup, Submit, TypeOK, SessionSet
  <2>2. /\ told'[c][d] = {}
        /\ \A b \in Characters \ {c} : told'[b] = told[b]
    BY <1>0, <1>4 DEF RequestPickup, TypeOK
  <2> QED BY <1>0, <2>1, <2>2 DEF PickupsUntold, Pickups
<1>5. ASSUME NEW c \in Characters, NEW d \in Drops, RefusePickup(c, d)
      PROVE  PickupsUntold'
  <2>1. /\ session' = session
        /\ \A b \in Characters, e \in Drops : told'[b][e] = {} \/ told'[b][e] = told[b][e]
    BY <1>0, <1>5 DEF RefusePickup, TypeOK
  <2> QED BY <1>0, <2>1 DEF PickupsUntold, Pickups
<1>6. ASSUME NEW c \in Characters, NEW d \in Drops, QueryDrop(c, d)
      PROVE  PickupsUntold'
  <2>1. /\ session'[c].request.kind = "query" /\ told' = told
        /\ \A b \in Characters \ {c} : session'[b] = session[b]
    BY <1>0, <1>6 DEF QueryDrop, Submit, TypeOK, SessionSet
  <2> QED BY <1>0, <2>1 DEF PickupsUntold, Pickups
<1>7. ASSUME NEW j \in JobSet, NEW r, Reply(j, r), told' = told
      PROVE  PickupsUntold'
  BY <1>0, <1>7, ReplyChanges DEF PickupsUntold, Pickups
<1>8. CASE WorkerStep
  <2>1. told' = told
    BY <1>8 DEF WorkerStep, JobFails, RunPickup, RunQuery, CommitRunning,
                RollbackRunning, ReplyCommitted, ReplyUnknown
  <2>2. /\ queue # <<>> => Head(queue) \in JobSet
        /\ running # Idle => running.job \in JobSet
    BY <1>0, QueueTypes, QueueElements
  <2>3. UNCHANGED session \/ \E j \in JobSet : \E r : Reply(j, r)
    BY <1>8, <2>2 DEF WorkerStep, JobFails, RunPickup, RunQuery, CommitRunning,
                RollbackRunning, ReplyCommitted, ReplyUnknown
  <2> QED BY <1>1, <1>7, <2>1, <2>3
<1>9. CASE Crash
  BY <1>9 DEF Crash, Offline, NoRequest, PickupsUntold, Pickups
<1>10. CASE FieldStep \/ DatabaseStep \/ UNCHANGED vars
  BY <1>1, <1>10 DEF FieldStep, CreateDrop, TickDrop, DatabaseStep, OrphanCommits,
                     OrphanRollsBack, vars
<1> QED
  BY <1>2, <1>3, <1>4, <1>5, <1>6, <1>8, <1>9, <1>10 DEF Next, SessionStep

LEMMA ToldNext ==
  ASSUME DropInv, [Next]_vars
  PROVE  ToldTrue'
<1>0. TypeOK /\ ToldTrue /\ PickupsUntold /\ RepliesTrue
  BY DEF DropInv, TypeInv, TruthInv
<1>1. \A c \in Characters, d \in Drops : \A r \in told[c][d] : AnswerTrue(c, d, r)'
  <2> SUFFICES ASSUME NEW c \in Characters, NEW d \in Drops, NEW r \in told[c][d]
               PROVE  AnswerTrue(c, d, r)'
    OBVIOUS
  <2>1. AnswerTrue(c, d, r) /\ ~Pickups(c, d)
    BY <1>0 DEF ToldTrue, PickupsUntold
  <2> QED BY <2>1, AnswerStays DEF DropInv
<1>2. ASSUME \A c \in Characters, d \in Drops : told'[c][d] \subseteq told[c][d]
      PROVE  ToldTrue'
  BY <1>1, <1>2 DEF ToldTrue
<1>3. ASSUME NEW c \in Characters, NEW result, Finish(c, result),
             result \in Verdict => /\ result = session[c].request.reply
                                   /\ session[c].request.reply \in Verdict
      PROVE  ToldTrue'
  <2> DEFINE x == session[c].request.drop
  <2>1. \A b \in Characters, d \in Drops :
          \A r \in told'[b][d] : r \in told[b][d] \/ (b = c /\ d = x /\ r = result /\ r \in Verdict)
    BY <1>0, <1>3 DEF Finish, TypeOK
  <2>2. ASSUME NEW d \in Drops, NEW v \in Verdict, d = x, v = result
        PROVE  AnswerTrue(c, d, v)'
    <3>1. AnswerTrue(c, d, v) /\ (v = "NoRecord" => ~Pickups(c, d))
      BY <1>0, <1>3, <2>2 DEF RepliesTrue, ReplyTrue, Pickups
    <3> QED BY <3>1, AnswerStays DEF DropInv
  <2>3. ASSUME NEW b \in Characters, NEW d \in Drops, NEW r \in told'[b][d]
        PROVE  AnswerTrue(b, d, r)'
    <3>1. CASE r \in told[b][d]
      BY <1>1, <3>1
    <3>2. CASE b = c /\ d = x /\ r = result /\ r \in Verdict
      BY <2>2, <3>2
    <3> QED BY <2>1, <3>1, <3>2
  <2> QED BY <2>3 DEF ToldTrue
<1>4. ASSUME NEW c \in Characters, Answered(c)
      PROVE  ToldTrue'
  <2>1. Finish(c, session[c].request.reply)
    BY <1>4 DEF Answered
  <2> QED BY <1>3, <2>1
<1>5. ASSUME NEW c \in Characters, Timeout(c)
      PROVE  ToldTrue'
  BY <1>3, <1>5 DEF Timeout, Verdict
<1>6. ASSUME NEW c \in Characters, NEW d \in Drops, RequestPickup(c, d) \/ RefusePickup(c, d)
      PROVE  \A b \in Characters, e \in Drops : told'[b][e] \subseteq told[b][e]
  <2>1. told' = [told EXCEPT ![c][d] = {}]
    BY <1>6 DEF RequestPickup, RefusePickup
  <2>2. told \in [Characters -> [Drops -> SUBSET Verdict]]
    BY <1>0 DEF TypeOK
  <2> QED BY <2>1, <2>2
<1>7. ASSUME NEW c \in Characters, Enter(c) \/ Disconnect(c) \/ \E d \in Drops : QueryDrop(c, d)
      PROVE  told' = told
  BY <1>7 DEF Enter, Disconnect, QueryDrop
<1>8. ASSUME FieldStep \/ WorkerStep \/ DatabaseStep \/ Crash \/ UNCHANGED vars
      PROVE  told' = told
  BY <1>8 DEF FieldStep, CreateDrop, TickDrop, WorkerStep, JobFails, RunPickup, RunQuery,
       CommitRunning, RollbackRunning, ReplyCommitted, ReplyUnknown, DatabaseStep,
       OrphanCommits, OrphanRollsBack, Crash, vars
<1>9. CASE told' = told
  BY <1>2, <1>9
<1> QED
  BY <1>2, <1>4, <1>5, <1>6, <1>7, <1>8, <1>9 DEF Next, SessionStep

LEMMA TakenNext ==
  ASSUME DropInv, [Next]_vars
  PROVE  TakenIsGranted'
<1>0. TypeOK /\ GrantInv /\ RepliesTrue /\ TakenIsGranted
  BY DEF DropInv, TypeInv, TruthInv
<1>1. \A d \in Drops : claims[d] # None => claims'[d] # None
  BY <1>0, ClaimStays
<1>2. ASSUME \A d \in Drops : field'[d].stage = "taken" =>
               field[d].stage = "taken" \/ claims[d] # None
      PROVE  TakenIsGranted'
  BY <1>0, <1>1, <1>2 DEF TakenIsGranted
<1>3. ASSUME NEW c \in Characters, NEW result, field' = FinishDrop(c, result),
             \/ result \notin {"Success", "AlreadyTaken"}
             \/ result = session[c].request.reply
      PROVE  \A d \in Drops : field'[d].stage = "taken" =>
               field[d].stage = "taken" \/ claims[d] # None
  <2> SUFFICES ASSUME NEW d \in Drops, field'[d].stage = "taken", field[d].stage # "taken"
               PROVE  claims[d] # None
    OBVIOUS
  <2>1. /\ Pickups(c, d) /\ result \in {"Success", "AlreadyTaken"}
    BY <1>0, <1>3 DEF FinishDrop, TypeOK, DropSet
  <2>2. AnswerTrue(c, d, result)
    BY <1>0, <1>3, <2>1 DEF RepliesTrue, ReplyTrue, Pickups, Verdict
  <2> QED BY <2>1, <2>2, DropAssumption DEF AnswerTrue
<1>4. ASSUME NEW c \in Characters, Disconnect(c) \/ Answered(c) \/ Timeout(c)
      PROVE  TakenIsGranted'
  <2>1. PICK result : /\ field' = FinishDrop(c, result)
                      /\ \/ result \notin {"Success", "AlreadyTaken"}
                         \/ result = session[c].request.reply
    BY <1>4 DEF Disconnect, Answered, Timeout, Finish
  <2> QED BY <1>2, <1>3, <2>1
<1>5. ASSUME FieldStep \/ Crash
      PROVE  \A d \in Drops : field'[d].stage = "taken" => field[d].stage = "taken"
  <2>1. ASSUME NEW e \in Drops, CreateDrop(e)
        PROVE  \A d \in Drops : field'[d].stage = "taken" => field[d].stage = "taken"
    BY <1>0, <2>1 DEF CreateDrop, TypeOK
  <2>2. ASSUME NEW e \in Drops, NEW late \in BOOLEAN, NEW old \in BOOLEAN, TickDrop(e, late, old)
        PROVE  \A d \in Drops : field'[d].stage = "taken" => field[d].stage = "taken"
    BY <1>0, <2>2 DEF TickDrop, Gone, TypeOK, DropSet
  <2>3. CASE Crash
    BY <2>3 DEF Crash, Gone
  <2> QED BY <1>5, <2>1, <2>2, <2>3 DEF FieldStep
<1>6. ASSUME NEW c \in Characters, NEW d \in Drops, RequestPickup(c, d)
      PROVE  \A e \in Drops : field'[e].stage = "taken" => field[e].stage = "taken"
  BY <1>0, <1>6 DEF RequestPickup, TypeOK, DropSet
<1>7. ASSUME NEW c \in Characters,
             Enter(c) \/ \E d \in Drops : RefusePickup(c, d) \/ QueryDrop(c, d)
      PROVE  field' = field
  BY <1>7 DEF Enter, RefusePickup, QueryDrop
<1>8. ASSUME WorkerStep \/ DatabaseStep \/ UNCHANGED vars
      PROVE  field' = field
  BY <1>8 DEF WorkerStep, JobFails, RunPickup, RunQuery, CommitRunning, RollbackRunning,
       ReplyCommitted, ReplyUnknown, DatabaseStep, OrphanCommits, OrphanRollsBack, vars
<1> QED
  BY <1>2, <1>4, <1>5, <1>6, <1>7, <1>8 DEF Next, SessionStep

LEMMA DropInvariant == Spec => []DropInv
<1>1. Init => DropInv
  <2> SUFFICES ASSUME Init PROVE DropInv
    OBVIOUS
  <2>1. TypeInv
    BY TypeInvInit
  <2>2. GrantInv
    BY DropAssumption DEF Init, GrantInv, GrantedOnce, OpenApart
  <2>3. LiveInv
    BY DEF Init, LiveInv
  <2>4. TruthInv
    BY DEF Init, TruthInv, CommittedClaims, RepliesTrue, ReplyTrue, ToldTrue, PickupsUntold,
           TakenIsGranted, Offline, NoRequest, Gone, Pickups, Verdict
  <2> QED BY <2>1, <2>2, <2>3, <2>4 DEF DropInv
<1>2. DropInv /\ [Next]_vars => DropInv'
  <2> SUFFICES ASSUME DropInv, [Next]_vars PROVE DropInv'
    OBVIOUS
  <2>1. TypeInv' /\ GrantInv' /\ LiveInv'
    BY TypeInvNext, GrantInvNext, LiveInvNext DEF DropInv
  <2>2. TruthInv'
    BY CommittedNext, RepliesNext, ToldNext, UntoldNext, TakenNext DEF TruthInv
  <2> QED BY <2>1, <2>2 DEF DropInv
<1> QED BY <1>1, <1>2, PTL DEF Spec

\* A drop leaves the field as picked up only when its item was granted.
THEOREM TakenDropGranted == Spec => []TakenIsGranted
<1>1. DropInv => TakenIsGranted
  BY DEF DropInv, TruthInv
<1> QED BY <1>1, DropInvariant, PTL

\* Whatever a client is told about a drop is true and stays true until it tries
\* the drop again: the answers to pickups and to later queries, in any order
\* with late commits, reconnects and restarts.
THEOREM AnswersStayTrue == Spec => []AnswersTruthful
<1>1. DropInv => AnswersTruthful
  BY DEF DropInv, TruthInv, ToldTrue, AnswerTrue, Never, AnswersTruthful
<1> QED BY <1>1, DropInvariant, PTL
=============================================================================
