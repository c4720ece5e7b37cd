-------------------------- MODULE Registration_proofs --------------------------
(***************************************************************************)
(* Registration tells the truth, for any number of sessions, ids and       *)
(* attempts and a queue of any length.                                     *)
(*                                                                         *)
(* Accounts are only ever made where there is none: every transaction that *)
(* has written holds the key of an id without an account, and no two hold  *)
(* the same.  What the worker's transaction has written follows from its   *)
(* phase, and a COMMIT was sent only when both rows were: so what becomes  *)
(* visible is never one row alone.  An attempt that is over is in no queue *)
(* and with no worker, has nothing written, and can make nothing any more. *)
(***************************************************************************)
EXTENDS Registration, TLAPS

Attempt ==
  [id: Ids, canceled: BOOLEAN, expired: BOOLEAN, early: BOOLEAN,
   result: Results \cup {None}, told: Results \cup {None}]

Types ==
  /\ session \in [Sessions -> [open: BOOLEAN, pending: Attempts \cup {None},
                               account: Attempts \cup {None}]]
  /\ \A s \in Sessions : session[s].pending # None =>
       session[s].pending \in DOMAIN attempts /\ session[s].open /\ session[s].account = None
  /\ attempts \in Seq(Attempt) /\ Len(attempts) <= MaxAttempts
  /\ jobs \in Seq(DOMAIN attempts) /\ Len(jobs) <= MaxJobs
  /\ worker \in [job: DOMAIN attempts \cup {None}, phase: Phases]
  /\ written \in [Attempts -> SUBSET Tables]
  /\ \A a \in Attempts : a \notin DOMAIN attempts => written[a] = {}
  /\ doubtful \subseteq DOMAIN attempts
  /\ accounts \in [Ids -> DOMAIN attempts \cup {None}]

\* What the queue and the worker still have to do was done by nobody.
Untouched(a) == accounts[IdOf(a)] # a /\ written[a] = {}
Queued(a) == \E i \in DOMAIN jobs : jobs[i] = a
QueueInv ==
  /\ \A i, j \in DOMAIN jobs : jobs[i] = jobs[j] => i = j
  /\ \A a \in DOMAIN attempts : Queued(a) => worker.job # a
  /\ \A a \in DOMAIN attempts : Queued(a) => Untouched(a)

\* Whoever has written holds the key of its id.
KeyInv ==
  /\ \A a \in DOMAIN attempts : written[a] # {} => accounts[IdOf(a)] = None
  /\ \A a, b \in DOMAIN attempts :
       a # b /\ IdOf(a) = IdOf(b) => written[a] = {} \/ written[b] = {}

\* The transaction: what is written by then, and what is visible.
Before(phase) ==
  CASE phase = "Character" -> {"accounts"}
    [] phase = "Commit" -> Tables
    [] OTHER -> {}
WriteInv ==
  /\ \A a \in DOMAIN attempts :
       worker.job = a => accounts[IdOf(a)] # a /\ written[a] = Before(worker.phase)
  /\ \A a \in doubtful : written[a] = Tables /\ worker.job # a
  /\ characters = accounts

\* An attempt that became stale in time never gets past the second check.
Late(a) == worker.job = a /\ worker.phase \notin {"Look", "Hash"}
EarlyInv ==
  \A a \in DOMAIN attempts :
    attempts[a].early => Stale(a) /\ ~Late(a) /\ Untouched(a)

Over(a) == ~Queued(a) /\ worker.job # a /\ Untouched(a)
Truth(a, r) ==
  /\ r = "Success" => accounts[IdOf(a)] = a
  /\ r = "DuplicateId" => accounts[IdOf(a)] \notin {None, a}
  /\ r = "Busy" => Over(a)
TruthInv ==
  \A a \in DOMAIN attempts : Truth(a, attempts[a].result) /\ Truth(a, attempts[a].told)

RegInv == Types /\ QueueInv /\ KeyInv /\ WriteInv /\ EarlyInv /\ TruthInv

-----------------------------------------------------------------------------
(* Sequences.                                                               *)

LEMMA Constants ==
  /\ MaxAttempts \in Nat /\ MaxJobs \in Nat \ {0} /\ \A n \in Nat : n # None
  /\ None \notin Results
BY Bounds DEF Bounds

\* One element of a sequence is replaced.
LEMMA Replaced ==
  ASSUME NEW S, NEW q \in Seq(S), NEW i \in DOMAIN q, NEW e \in S
  PROVE  /\ [q EXCEPT ![i] = e] \in Seq(S)
         /\ Len([q EXCEPT ![i] = e]) = Len(q)
         /\ DOMAIN [q EXCEPT ![i] = e] = DOMAIN q
         /\ [q EXCEPT ![i] = e][i] = e
         /\ \A j \in DOMAIN q : j # i => [q EXCEPT ![i] = e][j] = q[j]
OBVIOUS

LEMMA Appended ==
  ASSUME NEW S, NEW q \in Seq(S), NEW e \in S
  PROVE  /\ Append(q, e) \in Seq(S)
         /\ Len(Append(q, e)) = Len(q) + 1
         /\ DOMAIN Append(q, e) = DOMAIN q \cup {Len(q) + 1}
         /\ Len(q) + 1 \notin DOMAIN q
         /\ Append(q, e)[Len(q) + 1] = e
         /\ \A j \in DOMAIN q : Append(q, e)[j] = q[j]
OBVIOUS

LEMMA HeadTail ==
  ASSUME NEW S, NEW q \in Seq(S), q # <<>>
  PROVE  /\ Head(q) \in S /\ Tail(q) \in Seq(S) /\ Len(Tail(q)) = Len(q) - 1
         /\ 1 \in DOMAIN q /\ q[1] = Head(q)
         /\ \A j \in DOMAIN Tail(q) : j + 1 \in DOMAIN q /\ Tail(q)[j] = q[j + 1] /\ j + 1 # 1
OBVIOUS

LEMMA AttemptFacts ==
  ASSUME RegInv, NEW a \in DOMAIN attempts
  PROVE  /\ attempts[a] \in Attempt /\ IdOf(a) \in Ids /\ a \in Nat /\ a # None /\ a \in Attempts
         /\ attempts[a].told \in Results \cup {None}
         /\ attempts[a].result \in Results \cup {None}
<1>1. attempts[a] \in Attempt /\ a \in Nat
  BY DEF RegInv, Types
<1>2. a \in Attempts
  BY Constants DEF RegInv, Types, Attempts
<1> QED BY <1>1, <1>2, Constants DEF Attempt, IdOf

-----------------------------------------------------------------------------
(* What the attempts, the worker and the tables may do.                     *)

\* Records of attempts may change, but neither their ids nor what decides.
SameAttempts ==
  /\ DOMAIN attempts' = DOMAIN attempts
  /\ \A a \in DOMAIN attempts : attempts'[a].id = attempts[a].id

\* Steps of sessions and of time.
LEMMA RecordStep ==
  ASSUME RegInv, Types', SameAttempts, UNCHANGED <<jobs, worker, database>>,
         \A a \in DOMAIN attempts :
           /\ Stale(a) => Stale(a)'
           /\ attempts'[a].early => attempts[a].early \/ (Stale(a)' /\ Undecided(a))
           /\ attempts'[a].result = attempts[a].result
           /\ attempts'[a].told \in {attempts[a].told, attempts[a].result, "ServerError"}
  PROVE  RegInv'
<1>1. UNCHANGED <<written, doubtful, accounts, characters>>
  BY DEF database
<1>2. \A a \in DOMAIN attempts : (Untouched(a)' <=> Untouched(a)) /\ (Queued(a)' <=> Queued(a))
  BY <1>1 DEF SameAttempts, Untouched, Queued, IdOf
<1>3. QueueInv'
  BY <1>2 DEF RegInv, QueueInv, SameAttempts
<1>4. KeyInv' /\ WriteInv'
  BY <1>1 DEF RegInv, KeyInv, WriteInv, SameAttempts, IdOf
<1>5. ASSUME NEW a \in DOMAIN attempts, Undecided(a) PROVE ~Late(a) /\ Untouched(a)
  <2>1. Queued(a) \/ (worker.job = a /\ worker.phase \in {"Look", "Hash"})
    BY <1>5 DEF Undecided, Running, Queued
  <2> QED BY <2>1 DEF RegInv, QueueInv, WriteInv, Before, Late, Untouched
<1>6. EarlyInv'
  BY <1>2, <1>5 DEF RegInv, EarlyInv, SameAttempts, Late
<1>7. \A a \in DOMAIN attempts, r \in Results \cup {None} : Truth(a, r) => Truth(a, r)'
  BY <1>1, <1>2 DEF Truth, Over, SameAttempts, IdOf
<1>8. \A a \in DOMAIN attempts :
        /\ attempts[a].told \in Results \cup {None} /\ attempts[a].result \in Results \cup {None}
  BY AttemptFacts
<1>9. \A a \in DOMAIN attempts : Truth(a, "ServerError")
  BY DEF Truth
<1>10. TruthInv'
  BY <1>7, <1>8, <1>9 DEF RegInv, TruthInv, SameAttempts, Results
<1> QED BY <1>3, <1>4, <1>6, <1>10 DEF RegInv

\* The worker goes on to its next phase, with what is written by then.
LEMMA PhaseStep ==
  ASSUME RegInv, Types', NEW a \in DOMAIN attempts, worker.job = a, NEW phase \in Phases,
         worker' = [job |-> a, phase |-> phase],
         UNCHANGED <<attempts, jobs, doubtful, accounts, characters>>,
         written' = [written EXCEPT ![a] = Before(phase)],
         phase \notin {"Look", "Hash"} => Late(a) \/ ~Stale(a),
         Before(phase) # {} =>
           written[a] # {} \/ (accounts[IdOf(a)] = None /\ ~Holds(IdOf(a)))
  PROVE  RegInv'
<1>1. /\ written'[a] = Before(phase) /\ \A b \in DOMAIN attempts : b # a => written'[b] = written[b]
      /\ \A b \in DOMAIN attempts : IdOf(b)' = IdOf(b)
  BY AttemptFacts DEF RegInv, Types, IdOf
<1>2. \A b \in DOMAIN attempts :
        /\ b # a => (Untouched(b)' <=> Untouched(b))
        /\ Queued(b)' <=> Queued(b)
        /\ worker'.job = b <=> worker.job = b
        /\ Stale(b)' <=> Stale(b)
  BY <1>1 DEF Untouched, Queued, Stale
<1>3. ~Queued(a) /\ a \notin doubtful /\ accounts[IdOf(a)] # a
  BY DEF RegInv, QueueInv, WriteInv
<1>4. QueueInv'
  BY <1>2, <1>3 DEF RegInv, QueueInv
<1>5. KeyInv'
  <2>1. ASSUME Before(phase) # {}
        PROVE  /\ accounts[IdOf(a)] = None
               /\ \A b \in DOMAIN attempts : b # a /\ IdOf(b) = IdOf(a) => written[b] = {}
    BY <2>1 DEF RegInv, KeyInv, Holds
  <2> QED BY <1>1, <2>1 DEF RegInv, KeyInv
<1>6. WriteInv'
  <2>1. \A b \in doubtful : b \in DOMAIN attempts
    BY DEF RegInv, Types
  <2> QED BY <1>1, <1>3, <2>1 DEF RegInv, WriteInv
<1>7. EarlyInv'
  <2>1. ASSUME NEW b \in DOMAIN attempts, attempts[b].early
        PROVE  Stale(b) /\ ~Late(b)' /\ Untouched(b)'
    <3>1. Stale(b) /\ ~Late(b) /\ Untouched(b)
      BY <2>1 DEF RegInv, EarlyInv
    <3>2. CASE b # a
      BY <1>2, <3>1, <3>2 DEF Late
    <3>3. CASE b = a
      <4>1. phase \in {"Look", "Hash"}
        BY <3>1, <3>3
      <4> QED BY <1>1, <3>1, <3>3, <4>1 DEF Late, Before, Untouched
    <3> QED BY <3>2, <3>3
  <2> QED BY <1>2, <2>1 DEF EarlyInv
<1>8. TruthInv'
  <2>1. \A b \in DOMAIN attempts : Over(b) => b # a /\ Over(b)'
    BY <1>2 DEF Over
  <2> QED BY <1>1, <2>1 DEF RegInv, TruthInv, Truth
<1> QED BY <1>4, <1>5, <1>6, <1>7, <1>8 DEF RegInv

\* A transaction that becomes visible, as a whole, or not at all.
Ended(a) ==
  /\ written' = [written EXCEPT ![a] = {}]
  /\ \/ UNCHANGED <<accounts, characters>>
     \/ /\ written[a] = Tables
        /\ accounts' = [accounts EXCEPT ![IdOf(a)] = a]
        /\ characters' = [characters EXCEPT ![IdOf(a)] = a]

LEMMA EndedKeys ==
  ASSUME RegInv, NEW a \in DOMAIN attempts, Ended(a), SameAttempts
  PROVE  /\ KeyInv' /\ characters' = accounts'
         /\ written' \in [Attempts -> SUBSET Tables] /\ written'[a] = {}
         /\ \A b \in Attempts : b # a => written'[b] = written[b]
         /\ accounts' \in [Ids -> DOMAIN attempts \cup {None}]
         /\ \A b \in DOMAIN attempts : b # a /\ accounts[IdOf(b)] # b => accounts'[IdOf(b)] # b
         /\ \A b \in DOMAIN attempts :
              accounts[IdOf(b)] # None => accounts'[IdOf(b)] = accounts[IdOf(b)]
<1>1. /\ accounts \in [Ids -> DOMAIN attempts \cup {None}] /\ characters = accounts
      /\ written \in [Attempts -> SUBSET Tables] /\ a \in Attempts
      /\ \A b \in DOMAIN attempts : /\ IdOf(b) \in Ids /\ IdOf(b)' = IdOf(b)
                                   /\ b # None /\ b \in Attempts
  BY AttemptFacts DEF RegInv, Types, WriteInv, SameAttempts, IdOf
<1>2. written' \in [Attempts -> SUBSET Tables] /\ written'[a] = {}
      /\ \A b \in Attempts : b # a => written'[b] = written[b]
  BY <1>1 DEF Ended
<1>3. CASE UNCHANGED <<accounts, characters>>
  BY <1>1, <1>2, <1>3 DEF RegInv, KeyInv, SameAttempts
<1>4. CASE /\ written[a] = Tables
           /\ accounts' = [accounts EXCEPT ![IdOf(a)] = a]
           /\ characters' = [characters EXCEPT ![IdOf(a)] = a]
  <2>1. written[a] # {}
    BY <1>4 DEF Tables
  <2>2. /\ accounts[IdOf(a)] = None
        /\ \A b \in DOMAIN attempts : b # a /\ IdOf(b) = IdOf(a) => written[b] = {}
    BY <2>1 DEF RegInv, KeyInv
  <2>3. \A b \in DOMAIN attempts :
          accounts'[IdOf(b)] = IF IdOf(b) = IdOf(a) THEN a ELSE accounts[IdOf(b)]
    BY <1>1, <1>4
  <2>4. KeyInv'
    BY <1>1, <1>2, <2>2, <2>3 DEF RegInv, KeyInv, SameAttempts
  <2>5. accounts' \in [Ids -> DOMAIN attempts \cup {None}] /\ characters' = accounts'
    BY <1>1, <1>4
  <2> QED BY <1>1, <1>2, <2>2, <2>3, <2>4, <2>5
<1> QED BY <1>3, <1>4 DEF Ended

\* The worker ends an attempt: its transaction is ended, or left to the database.
LEMMA FinishStep ==
  ASSUME RegInv, Types', SameAttempts, NEW a \in DOMAIN attempts, worker.job = a, worker' = Idle,
         UNCHANGED jobs,
         \A b \in DOMAIN attempts :
           /\ Stale(b)' <=> Stale(b)
           /\ attempts'[b].early = attempts[b].early /\ attempts'[b].told = attempts[b].told
           /\ b # a => attempts'[b].result = attempts[b].result,
         \/ /\ Ended(a) /\ UNCHANGED doubtful
            /\ \/ attempts'[a].result = "ServerError"
               \/ attempts'[a].result = "Busy" /\ UNCHANGED accounts
               \/ attempts'[a].result = "DuplicateId" /\ accounts[IdOf(a)] # None
               \/ attempts'[a].result = "Success" /\ accounts'[IdOf(a)] = a
         \/ /\ UNCHANGED <<written, accounts, characters>> /\ attempts'[a].result = "ServerError"
            /\ \/ UNCHANGED doubtful
               \/ written[a] = Tables /\ doubtful' = doubtful \cup {a}
  PROVE  RegInv'
<1>1. /\ accounts \in [Ids -> DOMAIN attempts \cup {None}] /\ doubtful \subseteq DOMAIN attempts
      /\ \A b \in DOMAIN attempts : /\ IdOf(b) \in Ids /\ IdOf(b)' = IdOf(b)
                                   /\ b # None /\ b \in Attempts
  BY AttemptFacts DEF RegInv, Types, SameAttempts, IdOf
<1>2. \A b \in DOMAIN attempts : Queued(b)' <=> Queued(b)
  BY DEF Queued
<1>3. worker'.job = None /\ worker'.phase = "Look"
  BY DEF Idle
<1>4. ~Queued(a) /\ a \notin doubtful /\ accounts[IdOf(a)] # a
  BY DEF RegInv, QueueInv, WriteInv
<1>5. /\ KeyInv' /\ characters' = accounts'
      /\ \A b \in DOMAIN attempts : b # a => written'[b] = written[b]
      /\ \A b \in DOMAIN attempts : b # a /\ accounts[IdOf(b)] # b => accounts'[IdOf(b)] # b
      /\ \A b \in DOMAIN attempts :
           accounts[IdOf(b)] # None => accounts'[IdOf(b)] = accounts[IdOf(b)]
  <2>1. CASE Ended(a)
    BY <1>1, <2>1, EndedKeys
  <2>2. CASE UNCHANGED <<written, accounts, characters>>
    BY <1>1, <2>2 DEF RegInv, KeyInv, WriteInv, SameAttempts
  <2> QED BY <2>1, <2>2
<1>6. \A b \in DOMAIN attempts \ {a} : Untouched(b) => Untouched(b)'
  BY <1>1, <1>5 DEF Untouched
<1>7. QueueInv'
  <2>1. \A b \in DOMAIN attempts : Queued(b) => b # a /\ Untouched(b)
    BY <1>4 DEF RegInv, QueueInv
  <2>2. \A i, j \in DOMAIN jobs' : jobs'[i] = jobs'[j] => i = j
    BY DEF RegInv, QueueInv
  <2> QED BY <1>1, <1>2, <1>3, <1>6, <2>1, <2>2 DEF QueueInv, SameAttempts
<1>8. WriteInv'
  <2>1. \A b \in doubtful : b # a /\ written'[b] = Tables
    BY <1>1, <1>4, <1>5 DEF RegInv, WriteInv
  <2>2. \A b \in doubtful' : written'[b] = Tables /\ b # None
    BY <1>1, <2>1
  <2> QED BY <1>1, <1>3, <1>5, <2>2 DEF WriteInv, SameAttempts
<1>9. EarlyInv'
  <2>1. ASSUME NEW b \in DOMAIN attempts, attempts[b].early
        PROVE  Stale(b)' /\ ~Late(b)' /\ Untouched(b)'
    <3>1. Stale(b)' /\ Untouched(b)
      BY <2>1 DEF RegInv, EarlyInv
    <3>2. ~Late(b)'
      BY <1>3 DEF Late
    <3>3. b = a => Untouched(b)'
      <4>1. ASSUME b = a PROVE written[a] = {} /\ written[a] # Tables
        BY <3>1, <4>1 DEF Untouched, Tables
      <4>2. Ended(a) /\ b = a => written'[a] = {}
        BY <1>1, EndedKeys
      <4> QED BY <1>1, <1>4, <4>1, <4>2 DEF Untouched, Ended
    <3> QED BY <1>6, <3>1, <3>2, <3>3
  <2> QED BY <2>1 DEF EarlyInv, SameAttempts
<1>10. ASSUME NEW b \in DOMAIN attempts, NEW r, Truth(b, r) PROVE Truth(b, r)'
  <2>1. r = "Busy" => Over(b)'
    BY <1>1, <1>2, <1>3, <1>6, <1>10 DEF Truth, Over
  <2> QED BY <1>1, <1>5, <1>10, <2>1 DEF Truth
<1>11. Truth(a, attempts[a].result)'
  <2>1. CASE attempts'[a].result = "ServerError"
    BY <2>1 DEF Truth
  <2>2. CASE attempts'[a].result = "Busy" /\ Ended(a) /\ UNCHANGED accounts
    <3>1. Untouched(a)'
      BY <1>1, <1>4, <2>2, EndedKeys DEF Untouched
    <3> QED BY <1>1, <1>2, <1>3, <1>4, <2>2, <3>1 DEF Truth, Over
  <2>3. CASE attempts'[a].result = "DuplicateId" /\ accounts[IdOf(a)] # None
    BY <1>1, <1>4, <1>5, <2>3 DEF Truth
  <2>4. CASE attempts'[a].result = "Success" /\ accounts'[IdOf(a)] = a
    BY <1>1, <2>4 DEF Truth
  <2> QED BY <2>1, <2>2, <2>3, <2>4
<1>12. TruthInv'
  BY <1>10, <1>11 DEF RegInv, TruthInv, SameAttempts
<1> QED BY <1>5, <1>7, <1>8, <1>9, <1>12 DEF RegInv

LEMMA TakeStep ==
  ASSUME RegInv, Take
  PROVE  RegInv'
<1>1. /\ worker.job = None /\ jobs # <<>> /\ worker' = [job |-> Head(jobs), phase |-> "Look"]
      /\ jobs' = Tail(jobs)
      /\ UNCHANGED <<session, attempts, written, doubtful, accounts, characters>>
  BY DEF Take, database
<1>2. jobs \in Seq(DOMAIN attempts)
  BY DEF RegInv, Types
<1>3. /\ Head(jobs) \in DOMAIN attempts /\ jobs' \in Seq(DOMAIN attempts)
      /\ Len(jobs') = Len(jobs) - 1 /\ 1 \in DOMAIN jobs /\ jobs[1] = Head(jobs)
      /\ \A j \in DOMAIN jobs' : j + 1 \in DOMAIN jobs /\ jobs'[j] = jobs[j + 1] /\ j + 1 # 1
  BY <1>1, <1>2, HeadTail
<1>4. DOMAIN attempts \subseteq Nat /\ \A a \in DOMAIN attempts : a # None
  BY Constants DEF RegInv, Types
<1>5. Types'
  <2>1. worker' \in [job: DOMAIN attempts \cup {None}, phase: Phases]
    BY <1>1, <1>3 DEF Phases
  <2>2. Len(jobs') <= MaxJobs
    BY <1>2, <1>3, Constants DEF RegInv, Types
  <2> QED BY <1>1, <1>3, <2>1, <2>2 DEF RegInv, Types
<1>6. \A a \in DOMAIN attempts : Queued(a)' => Queued(a) /\ a # Head(jobs)
  BY <1>3 DEF Queued, RegInv, QueueInv
<1>7. Queued(Head(jobs))
  BY <1>3 DEF Queued
<1>8. \A a \in DOMAIN attempts : Untouched(a)' <=> Untouched(a)
  BY <1>1 DEF Untouched, IdOf
<1>9. QueueInv'
  <2>1. ASSUME NEW i \in DOMAIN jobs', NEW j \in DOMAIN jobs', jobs'[i] = jobs'[j] PROVE i = j
    <3>1. i + 1 = j + 1
      BY <1>3, <2>1 DEF RegInv, QueueInv
    <3>2. i \in Nat /\ j \in Nat
      BY <1>3
    <3> QED BY <3>1, <3>2
  <2>2. \A a \in DOMAIN attempts : Queued(a)' => worker'.job # a
    BY <1>1, <1>6
  <2>3. \A a \in DOMAIN attempts : Queued(a)' => Untouched(a)'
    BY <1>1, <1>6, <1>8 DEF RegInv, QueueInv
  <2> QED BY <1>1, <2>1, <2>2, <2>3 DEF QueueInv
<1>10. \A a \in DOMAIN attempts : ~Late(a)'
  BY <1>1 DEF Late
<1>11. KeyInv' /\ WriteInv'
  <2>1. KeyInv'
    BY <1>1 DEF RegInv, KeyInv, IdOf
  <2>2. Untouched(Head(jobs)) /\ Before("Look") = {} /\ Tables # {}
    BY <1>3, <1>7 DEF RegInv, QueueInv, Before, Tables
  <2>3. \A b \in doubtful : written[b] = Tables /\ b # Head(jobs)
    BY <2>2 DEF RegInv, WriteInv, Untouched
  <2> QED BY <1>1, <2>1, <2>2, <2>3 DEF RegInv, WriteInv, Untouched, IdOf
<1>12. EarlyInv'
  BY <1>1, <1>8, <1>10 DEF RegInv, EarlyInv, Stale
<1>13. \A a \in DOMAIN attempts : Over(a) => Over(a)'
  BY <1>1, <1>6, <1>7, <1>8 DEF Over
<1>14. TruthInv'
  BY <1>1, <1>13 DEF RegInv, TruthInv, Truth, IdOf
<1> QED BY <1>5, <1>9, <1>11, <1>12, <1>14 DEF RegInv

\* The database ends a transaction that nobody waits for any more.
LEMMA SettleStep ==
  ASSUME RegInv, NEW a \in Attempts, Settle(a)
  PROVE  RegInv'
<1>1. /\ worker.job # a /\ written[a] # {} /\ a \in DOMAIN attempts /\ doubtful' = doubtful \ {a}
      /\ UNCHANGED <<session, attempts, jobs, worker>>
  BY DEF Settle, RegInv, Types
<1>2. Ended(a)
  <2>1. a \in doubtful => written[a] = Tables
    BY DEF RegInv, WriteInv
  <2>2. written[a] = Tables => "accounts" \in written[a] /\ "characters" \in written[a]
    BY DEF Tables
  <2> QED BY <2>1, <2>2 DEF Settle, Ended, Publish
<1>3. /\ doubtful \subseteq DOMAIN attempts /\ SameAttempts
      /\ \A b \in DOMAIN attempts : IdOf(b)' = IdOf(b) /\ b # None /\ b \in Attempts
  BY <1>1, AttemptFacts DEF RegInv, Types, IdOf, SameAttempts
<1>4. /\ KeyInv' /\ characters' = accounts'
      /\ written' \in [Attempts -> SUBSET Tables]
      /\ \A b \in Attempts : b # a => written'[b] = written[b]
      /\ accounts' \in [Ids -> DOMAIN attempts \cup {None}]
      /\ \A b \in DOMAIN attempts : b # a /\ accounts[IdOf(b)] # b => accounts'[IdOf(b)] # b
      /\ \A b \in DOMAIN attempts :
           accounts[IdOf(b)] # None => accounts'[IdOf(b)] = accounts[IdOf(b)]
  BY <1>1, <1>2, <1>3, EndedKeys
<1>5. Types'
  BY <1>1, <1>3, <1>4 DEF RegInv, Types
<1>6. \A b \in DOMAIN attempts : Untouched(b) => b # a /\ Untouched(b)'
  BY <1>1, <1>3, <1>4 DEF Untouched
<1>7. \A b \in DOMAIN attempts :
        /\ Queued(b)' <=> Queued(b)
        /\ Late(b)' <=> Late(b)
        /\ Stale(b)' <=> Stale(b)
  BY <1>1 DEF Queued, Late, Stale
<1>8. QueueInv'
  BY <1>1, <1>6, <1>7 DEF RegInv, QueueInv
<1>9. WriteInv'
  BY <1>1, <1>3, <1>4 DEF RegInv, WriteInv
<1>10. EarlyInv'
  BY <1>1, <1>6, <1>7 DEF RegInv, EarlyInv
<1>11. \A b \in DOMAIN attempts : Over(b) => Over(b)'
  BY <1>1, <1>6, <1>7 DEF Over
<1>12. TruthInv'
  BY <1>1, <1>3, <1>4, <1>11 DEF RegInv, TruthInv, Truth
<1> QED BY <1>4, <1>5, <1>8, <1>9, <1>10, <1>12 DEF RegInv

LEMMA RestartStep ==
  ASSUME RegInv, Restart
  PROVE  RegInv'
<1>1. /\ session' = [s \in Sessions |-> Gone] /\ jobs' = <<>> /\ worker' = Idle
      /\ doubtful' = IF worker.job # None /\ worker.phase = "Commit"
                     THEN doubtful \cup {worker.job} ELSE doubtful
      /\ UNCHANGED <<attempts, written, accounts, characters>>
  BY DEF Restart
<1>2. /\ worker.job \in DOMAIN attempts \cup {None} /\ DOMAIN attempts \subseteq Nat
      /\ \A b \in DOMAIN attempts : IdOf(b)' = IdOf(b) /\ b # None
  BY <1>1, Constants DEF RegInv, Types, IdOf
<1>3. /\ worker'.job = None /\ worker'.phase = "Look" /\ worker' \in [job: DOMAIN attempts \cup {None}, phase: Phases]
      /\ Gone \in [open: BOOLEAN, pending: Attempts \cup {None}, account: Attempts \cup {None}]
      /\ Gone.pending = None
  BY <1>1 DEF Idle, Gone, Phases
<1> HIDE DEF Gone
<1>4. Types'
  <2>1. jobs' \in Seq(DOMAIN attempts) /\ Len(jobs') = 0
    BY <1>1
  <2>2. doubtful' \subseteq DOMAIN attempts
    BY <1>1, <1>2 DEF RegInv, Types
  <2>3. session' \in [Sessions -> [open: BOOLEAN, pending: Attempts \cup {None}, account: Attempts \cup {None}]]
    BY <1>1, <1>3
  <2>4. \A s \in Sessions : session'[s].pending = None
    BY <1>1, <1>3
  <2> QED BY <1>1, <1>3, <2>1, <2>2, <2>3, <2>4, Constants DEF RegInv, Types
<1>5. \A b \in DOMAIN attempts :
        /\ ~Queued(b)' /\ worker'.job # b /\ ~Late(b)'
        /\ Stale(b)' <=> Stale(b)
        /\ Untouched(b)' <=> Untouched(b)
  BY <1>1, <1>2, <1>3 DEF Queued, Late, Stale, Untouched
<1>6. QueueInv'
  BY <1>1, <1>5 DEF QueueInv
<1>7. KeyInv'
  BY <1>1, <1>2 DEF RegInv, KeyInv
<1>8. WriteInv'
  <2>1. worker.job # None /\ worker.phase = "Commit" => written[worker.job] = Tables
    BY <1>2 DEF RegInv, WriteInv, Before
  <2>2. \A b \in doubtful : b # None
    BY <1>2 DEF RegInv, Types
  <2>3. \A b \in doubtful' : written[b] = Tables /\ b # None
    BY <1>1, <2>1, <2>2 DEF RegInv, WriteInv
  <2> QED BY <1>1, <1>3, <1>5, <2>3 DEF RegInv, WriteInv
<1>9. EarlyInv'
  BY <1>1, <1>5 DEF RegInv, EarlyInv
<1>10. \A b \in DOMAIN attempts : Over(b) => Over(b)'
  BY <1>5 DEF Over
<1>11. TruthInv'
  BY <1>1, <1>2, <1>10 DEF RegInv, TruthInv, Truth
<1> QED BY <1>4, <1>6, <1>7, <1>8, <1>9, <1>11 DEF RegInv

LEMMA RegisterStep ==
  ASSUME RegInv, NEW s \in Sessions, NEW id \in Ids, Register(s, id)
  PROVE  RegInv'
<1>0. PICK n \in Nat : n = Len(attempts) + 1
  BY DEF RegInv, Types
<1> DEFINE waits == jobs' = Append(jobs, n)
<1>1. /\ session[s].open /\ session[s].pending = None /\ session[s].account = None
      /\ Len(attempts) < MaxAttempts
      /\ UNCHANGED <<worker, written, doubtful, accounts, characters>>
  BY DEF Register, database
<1>2. PICK told \in {None, "Busy"} :
        /\ attempts' = Append(attempts, NewAttempt(id, told))
        /\ \/ told = None /\ Len(jobs) < MaxJobs /\ waits /\ session' = [session EXCEPT ![s].pending = n]
           \/ told = "Busy" /\ UNCHANGED <<session, jobs>>
  BY <1>0 DEF Register
<1> DEFINE e == NewAttempt(id, told)
<1>3. /\ e \in Attempt /\ e.id = id /\ e.early = FALSE /\ e.result = None /\ e.told = told
      /\ e.canceled = FALSE /\ e.expired = FALSE
  BY DEF NewAttempt, Attempt, Results
<1> HIDE DEF e
<1>4. attempts \in Seq(Attempt) /\ jobs \in Seq(DOMAIN attempts)
  BY DEF RegInv, Types
<1>5. /\ attempts' \in Seq(Attempt) /\ Len(attempts') = n
      /\ DOMAIN attempts' = DOMAIN attempts \cup {n} /\ n \notin DOMAIN attempts
      /\ attempts'[n] = e /\ \A a \in DOMAIN attempts : attempts'[a] = attempts[a]
  BY <1>0, <1>2, <1>3, <1>4, Appended DEF e
<1>6. /\ n \in Nat /\ n \in Attempts /\ n # None /\ DOMAIN attempts \subseteq Nat
      /\ \A a \in DOMAIN attempts : a # None
  BY <1>0, <1>1, <1>4, Constants DEF Attempts
<1>7. /\ worker.job \in DOMAIN attempts \cup {None} /\ doubtful \subseteq DOMAIN attempts
      /\ accounts \in [Ids -> DOMAIN attempts \cup {None}]
      /\ \A a \in DOMAIN attempts : IdOf(a) \in Ids /\ IdOf(a)' = IdOf(a)
      /\ IdOf(n)' = id
  BY <1>3, <1>5, AttemptFacts DEF RegInv, Types, IdOf
<1>8. ASSUME waits
      PROVE  /\ jobs' \in Seq(DOMAIN attempts') /\ Len(jobs') = Len(jobs) + 1
             /\ DOMAIN jobs' = DOMAIN jobs \cup {Len(jobs) + 1} /\ Len(jobs) + 1 \notin DOMAIN jobs
             /\ jobs'[Len(jobs) + 1] = n /\ \A i \in DOMAIN jobs : jobs'[i] = jobs[i]
  <2>1. jobs \in Seq(DOMAIN attempts')
    BY <1>4, <1>5
  <2> QED BY <1>5, <1>8, <2>1, Appended
<1>9. jobs' \in Seq(DOMAIN attempts') /\ Len(jobs') <= MaxJobs
  <2>1. CASE waits /\ Len(jobs) < MaxJobs
    BY <1>4, <1>8, <2>1, Constants
  <2>2. CASE UNCHANGED jobs
    BY <1>4, <1>5, <2>2 DEF RegInv, Types
  <2> QED BY <1>2, <2>1, <2>2
<1>10. Types'
  <2>1. session' \in [Sessions -> [open: BOOLEAN, pending: Attempts \cup {None}, account: Attempts \cup {None}]]
    <3>1. session \in [Sessions -> [open: BOOLEAN, pending: Attempts \cup {None}, account: Attempts \cup {None}]]
      BY DEF RegInv, Types
    <3>2. [session[s] EXCEPT !.pending = n]
            \in [open: BOOLEAN, pending: Attempts \cup {None}, account: Attempts \cup {None}]
      BY <1>6, <3>1
    <3>3. session' = [session EXCEPT ![s] = [session[s] EXCEPT !.pending = n]] \/ session' = session
      BY <1>2
    <3> QED BY <3>1, <3>2, <3>3
  <2>2. ASSUME NEW t \in Sessions, session'[t].pending # None
        PROVE  session'[t].pending \in DOMAIN attempts' /\ session'[t].open /\ session'[t].account = None
    <3>1. CASE session' = [session EXCEPT ![s].pending = n]
      <4>1. CASE t = s
        BY <1>1, <1>5, <3>1, <4>1 DEF RegInv, Types
      <4>2. CASE t # s
        BY <1>5, <2>2, <3>1, <4>2 DEF RegInv, Types
      <4> QED BY <4>1, <4>2
    <3>2. CASE UNCHANGED session
      BY <1>5, <2>2, <3>2 DEF RegInv, Types
    <3> QED BY <1>2, <3>1, <3>2
  <2>3. Len(attempts') <= MaxAttempts
    BY <1>0, <1>1, <1>4, <1>5, Constants
  <2> QED BY <1>1, <1>5, <1>7, <1>9, <2>1, <2>2, <2>3 DEF RegInv, Types
<1>11. \A a \in DOMAIN attempts :
         /\ Untouched(a)' <=> Untouched(a)
         /\ Queued(a)' <=> Queued(a)
         /\ Late(a)' <=> Late(a)
         /\ Stale(a)' <=> Stale(a)
  <2>1. \A a \in DOMAIN attempts : Queued(a)' <=> Queued(a)
    <3>1. CASE waits
      BY <1>5, <1>8, <3>1 DEF Queued
    <3>2. CASE UNCHANGED jobs
      BY <3>2 DEF Queued
    <3> QED BY <1>2, <3>1, <3>2
  <2> QED BY <1>1, <1>5, <1>7, <2>1 DEF Untouched, Late, Stale
<1>12. written[n] = {} /\ Untouched(n)' /\ ~Queued(n) /\ worker.job # n /\ ~Late(n)'
  <2>1. written[n] = {}
    BY <1>5, <1>6 DEF RegInv, Types
  <2> QED BY <1>1, <1>4, <1>5, <1>6, <1>7, <2>1 DEF Untouched, Queued, Late
<1>13. QueueInv'
  <2>1. \A i, j \in DOMAIN jobs' : jobs'[i] = jobs'[j] => i = j
    <3>1. CASE waits
      BY <1>4, <1>5, <1>8, <3>1 DEF RegInv, QueueInv
    <3>2. CASE UNCHANGED jobs
      BY <3>2 DEF RegInv, QueueInv
    <3> QED BY <1>2, <3>1, <3>2
  <2> QED BY <1>1, <1>5, <1>11, <1>12, <2>1 DEF RegInv, QueueInv
<1>14. KeyInv' /\ WriteInv'
  <2>1. KeyInv'
    BY <1>1, <1>5, <1>7, <1>12 DEF RegInv, KeyInv
  <2>2. WriteInv'
    BY <1>1, <1>5, <1>7, <1>12 DEF RegInv, WriteInv
  <2> QED BY <2>1, <2>2
<1>15. EarlyInv'
  BY <1>3, <1>5, <1>11 DEF RegInv, EarlyInv
<1>16. \A a \in DOMAIN attempts, r \in Results \cup {None} : Truth(a, r) => Truth(a, r)'
  BY <1>1, <1>7, <1>11 DEF Truth, Over
<1>17. \A a \in DOMAIN attempts :
         attempts[a].told \in Results \cup {None} /\ attempts[a].result \in Results \cup {None}
  BY AttemptFacts
<1>18. Truth(n, None)' /\ (told = "Busy" => Truth(n, told)')
  <2>1. None \notin Results
    BY Constants
  <2>2. told = "Busy" => UNCHANGED jobs
    BY <1>2, <2>1 DEF Results
  <2>3. told = "Busy" => Over(n)'
    BY <1>1, <1>12, <2>2 DEF Over, Queued
  <2> QED BY <2>1, <2>3 DEF Truth, Results
<1>19. TruthInv'
  BY <1>2, <1>3, <1>5, <1>16, <1>17, <1>18 DEF RegInv, TruthInv
<1> QED BY <1>10, <1>13, <1>14, <1>15, <1>19 DEF RegInv

-----------------------------------------------------------------------------
(* The actions.                                                             *)

Session == [open: BOOLEAN, pending: Attempts \cup {None}, account: Attempts \cup {None}]

\* A session that waits for nothing any more.
LEMMA SessionAt ==
  ASSUME RegInv, NEW s \in Sessions, NEW r \in Session, r.pending = None,
         session' = [session EXCEPT ![s] = r], DOMAIN attempts' = DOMAIN attempts
  PROVE  /\ session' \in [Sessions -> Session]
         /\ \A t \in Sessions : session'[t].pending # None =>
              session'[t].pending \in DOMAIN attempts' /\ session'[t].open /\ session'[t].account = None
<1>1. session \in [Sessions -> Session]
  BY DEF RegInv, Types, Session
<1>2. session' \in [Sessions -> Session]
  BY <1>1
<1>3. \A t \in Sessions : session'[t] = IF t = s THEN r ELSE session[t]
  BY <1>1
<1> QED BY <1>2, <1>3 DEF RegInv, Types

LEMMA RecordAt ==
  ASSUME RegInv, NEW a \in DOMAIN attempts, NEW e \in Attempt, e.id = attempts[a].id,
         attempts' = [attempts EXCEPT ![a] = e]
  PROVE  /\ attempts' \in Seq(Attempt) /\ Len(attempts') = Len(attempts)
         /\ SameAttempts /\ attempts'[a] = e
         /\ \A b \in DOMAIN attempts : b # a => attempts'[b] = attempts[b]
<1>1. attempts \in Seq(Attempt)
  BY DEF RegInv, Types
<1>2. /\ attempts' \in Seq(Attempt) /\ Len(attempts') = Len(attempts)
      /\ DOMAIN attempts' = DOMAIN attempts /\ attempts'[a] = e
      /\ \A b \in DOMAIN attempts : b # a => attempts'[b] = attempts[b]
  BY <1>1, Replaced
<1> QED BY <1>2 DEF SameAttempts

\* Only a session changes.
LEMMA OnlySession ==
  ASSUME RegInv, NEW s \in Sessions, NEW r \in Session, r.pending = None,
         session' = [session EXCEPT ![s] = r], UNCHANGED <<attempts, jobs, worker, database>>
  PROVE  RegInv'
<1>1. Types'
  BY SessionAt DEF RegInv, Types, database, Session
<1>2. SameAttempts
  BY DEF SameAttempts
<1> QED BY <1>1, <1>2, RecordStep DEF Stale

\* A session changes, or none, and the record of one attempt.
LEMMA SessionAndRecord ==
  ASSUME RegInv, NEW a \in DOMAIN attempts, NEW e \in Attempt, e.id = attempts[a].id,
         attempts' = [attempts EXCEPT ![a] = e],
         UNCHANGED <<jobs, worker, database>>,
         \/ UNCHANGED session
         \/ \E s \in Sessions, r \in Session :
              r.pending = None /\ session' = [session EXCEPT ![s] = r],
         attempts[a].canceled => e.canceled, attempts[a].expired => e.expired,
         e.early => attempts[a].early \/ ((e.canceled \/ e.expired) /\ Undecided(a)),
         e.result = attempts[a].result,
         e.told \in {attempts[a].told, attempts[a].result, "ServerError"}
  PROVE  RegInv'
<1>1. /\ attempts' \in Seq(Attempt) /\ Len(attempts') = Len(attempts)
      /\ SameAttempts /\ attempts'[a] = e
      /\ \A b \in DOMAIN attempts : b # a => attempts'[b] = attempts[b]
  BY RecordAt
<1>2. DOMAIN attempts' = DOMAIN attempts
  BY <1>1 DEF SameAttempts
<1>3. /\ session' \in [Sessions -> Session]
      /\ \A t \in Sessions : session'[t].pending # None =>
           session'[t].pending \in DOMAIN attempts' /\ session'[t].open /\ session'[t].account = None
  <2>1. CASE UNCHANGED session
    BY <1>2, <2>1 DEF RegInv, Types, Session
  <2>2. CASE \E s \in Sessions, r \in Session :
               r.pending = None /\ session' = [session EXCEPT ![s] = r]
    BY <1>2, <2>2, SessionAt
  <2> QED BY <2>1, <2>2
<1>4. Types'
  BY <1>1, <1>2, <1>3 DEF RegInv, Types, database, Session
<1>5. \A b \in DOMAIN attempts :
        /\ Stale(b) => Stale(b)'
        /\ attempts'[b].early => attempts[b].early \/ (Stale(b)' /\ Undecided(b))
        /\ attempts'[b].result = attempts[b].result
        /\ attempts'[b].told \in {attempts[b].told, attempts[b].result, "ServerError"}
  BY <1>1 DEF Stale
<1> QED BY <1>1, <1>4, <1>5, RecordStep

LEMMA Canceled ==
  ASSUME NEW a, attempts[a] \in Attempt
  PROVE  /\ Cancel(a) \in Attempt /\ Cancel(a).id = attempts[a].id /\ Cancel(a).canceled
         /\ Cancel(a).expired = attempts[a].expired
         /\ Cancel(a).result = attempts[a].result /\ Cancel(a).told = attempts[a].told
         /\ Cancel(a).early => attempts[a].early \/ Undecided(a)
BY DEF Cancel, Attempt, Undecided

LEMMA PendingFacts ==
  ASSUME RegInv, NEW s \in Sessions
  PROVE  /\ session[s] \in Session
         /\ session[s].pending # None => session[s].pending \in DOMAIN attempts
         /\ [session[s] EXCEPT !.pending = None] \in Session
         /\ Gone \in Session /\ Gone.pending = None
         /\ [session[s] EXCEPT !.pending = None].pending = None
         /\ [Gone EXCEPT !.open = TRUE] \in Session /\ [Gone EXCEPT !.open = TRUE].pending = None
<1>1. session[s] \in Session /\ (session[s].pending # None => session[s].pending \in DOMAIN attempts)
  BY DEF RegInv, Types, Session
<1> QED BY <1>1 DEF Session, Gone

LEMMA ConnectStep == ASSUME RegInv, NEW s \in Sessions, Connect(s) PROVE RegInv'
BY PendingFacts, OnlySession DEF Connect

LEMMA LoginStep ==
  ASSUME RegInv, NEW s \in Sessions, NEW a \in Attempts, Login(s, a)
  PROVE  RegInv'
<1> DEFINE r == [session[s] EXCEPT !.account = a]
<1>1. r \in Session /\ r.pending = None
  BY PendingFacts DEF Login, Session
<1>2. session' = [session EXCEPT ![s] = r] /\ UNCHANGED <<attempts, jobs, worker, database>>
  BY DEF Login
<1> QED BY <1>1, <1>2, OnlySession

LEMMA AnswerStep == ASSUME RegInv, NEW s \in Sessions, Answer(s) PROVE RegInv'
<1>1. PICK a : a = session[s].pending
  OBVIOUS
<1>2. /\ a \in DOMAIN attempts /\ attempts' = [attempts EXCEPT ![a].told = attempts[a].result]
      /\ session' = [session EXCEPT ![s].pending = None] /\ UNCHANGED <<jobs, worker, database>>
  BY <1>1, PendingFacts DEF Answer
<1> DEFINE e == [attempts[a] EXCEPT !.told = attempts[a].result]
           r == [session[s] EXCEPT !.pending = None]
<1>3. attempts[a] \in Attempt
  BY <1>2, AttemptFacts
<1>4. /\ e \in Attempt /\ e.id = attempts[a].id /\ (attempts[a].canceled => e.canceled)
      /\ (attempts[a].expired => e.expired) /\ (e.early => attempts[a].early)
      /\ e.result = attempts[a].result /\ e.told = attempts[a].result
  BY <1>3 DEF Attempt
<1>5. attempts' = [attempts EXCEPT ![a] = e] /\ session' = [session EXCEPT ![s] = r]
  BY <1>2
<1>6. r \in Session /\ r.pending = None
  BY PendingFacts
<1> HIDE DEF e, r
<1>7. \E t \in Sessions, q \in Session : q.pending = None /\ session' = [session EXCEPT ![t] = q]
  BY <1>5, <1>6
<1> QED BY <1>2, <1>4, <1>5, <1>7, SessionAndRecord

LEMMA GiveUpStep == ASSUME RegInv, NEW s \in Sessions, GiveUp(s) PROVE RegInv'
<1>1. PICK a : a = session[s].pending
  OBVIOUS
<1> DEFINE e == [Cancel(a) EXCEPT !.told = "ServerError"]
           r == [session[s] EXCEPT !.pending = None]
<1>2. /\ a \in DOMAIN attempts /\ attempts' = [attempts EXCEPT ![a] = e]
      /\ session' = [session EXCEPT ![s] = r] /\ UNCHANGED <<jobs, worker, database>>
  BY <1>1, PendingFacts DEF GiveUp
<1>3. attempts[a] \in Attempt
  BY <1>2, AttemptFacts
<1>4. /\ e \in Attempt /\ e.id = attempts[a].id /\ e.canceled
      /\ e.expired = attempts[a].expired /\ e.result = attempts[a].result /\ e.told = "ServerError"
      /\ e.early => attempts[a].early \/ Undecided(a)
  BY <1>3, Canceled DEF Attempt, Results
<1>5. r \in Session /\ r.pending = None
  BY PendingFacts
<1> HIDE DEF e, r
<1>6. \E t \in Sessions, q \in Session : q.pending = None /\ session' = [session EXCEPT ![t] = q]
  BY <1>2, <1>5
<1> QED BY <1>2, <1>4, <1>6, SessionAndRecord

LEMMA DisconnectStep == ASSUME RegInv, NEW s \in Sessions, Disconnect(s) PROVE RegInv'
<1>1. PICK a : a = session[s].pending
  OBVIOUS
<1>2. /\ attempts' = IF a = None THEN attempts ELSE [attempts EXCEPT ![a] = Cancel(a)]
      /\ session' = [session EXCEPT ![s] = Gone] /\ UNCHANGED <<jobs, worker, database>>
      /\ a # None => a \in DOMAIN attempts
      /\ Gone \in Session /\ Gone.pending = None
  BY <1>1, PendingFacts DEF Disconnect
<1> HIDE DEF Gone
<1>3. CASE a = None
  BY <1>2, <1>3, OnlySession
<1>4. CASE a # None
  <2>1. attempts[a] \in Attempt
    BY <1>2, <1>4, AttemptFacts
  <2> DEFINE e == Cancel(a)
  <2>2. /\ e \in Attempt /\ e.id = attempts[a].id /\ e.canceled
        /\ e.expired = attempts[a].expired /\ e.result = attempts[a].result /\ e.told = attempts[a].told
        /\ e.early => attempts[a].early \/ Undecided(a)
    BY <2>1, Canceled
  <2>3. attempts' = [attempts EXCEPT ![a] = e]
    BY <1>2, <1>4
  <2> HIDE DEF e
  <2> QED BY <1>2, <1>4, <2>2, <2>3, SessionAndRecord
<1> QED BY <1>3, <1>4

LEMMA ExpireStep == ASSUME RegInv, NEW a \in Attempts, Expire(a) PROVE RegInv'
<1> DEFINE e == [attempts[a] EXCEPT !.expired = TRUE, !.early = @ \/ Undecided(a)]
<1>1. /\ a \in DOMAIN attempts /\ attempts' = [attempts EXCEPT ![a] = e]
      /\ UNCHANGED <<session, jobs, worker, database>>
  BY DEF Expire
<1>2. attempts[a] \in Attempt
  BY <1>1, AttemptFacts
<1>3. /\ e \in Attempt /\ e.id = attempts[a].id /\ e.canceled = attempts[a].canceled /\ e.expired
      /\ e.result = attempts[a].result /\ e.told = attempts[a].told
      /\ e.early => attempts[a].early \/ Undecided(a)
  BY <1>2 DEF Attempt, Undecided
<1> HIDE DEF e
<1> QED BY <1>1, <1>3, SessionAndRecord

\* The worker runs a job that is there.
LEMMA RunningFacts ==
  ASSUME RegInv, NEW a \in Attempts, NEW phase, Running(a, phase)
  PROVE  /\ a \in DOMAIN attempts /\ worker.job = a /\ worker.phase = phase
         /\ phase \in Phases
<1>1. worker = [job |-> a, phase |-> phase]
  BY DEF Running
<1>2. worker.job \in DOMAIN attempts \cup {None} /\ worker.phase \in Phases
  BY DEF RegInv, Types
<1>3. a # None
  BY Constants DEF Attempts
<1> QED BY <1>1, <1>2, <1>3

LEMMA ProceedStep ==
  ASSUME RegInv, NEW a \in Attempts, NEW phase, Running(a, phase), NEW next \in Phases,
         Proceed(next), UNCHANGED <<session, jobs, doubtful, accounts, characters>>,
         written' = [written EXCEPT ![a] = Before(next)],
         next \notin {"Look", "Hash"} => phase \notin {"Look", "Hash"} \/ ~Stale(a),
         Before(next) # {} =>
           written[a] # {} \/ (accounts[IdOf(a)] = None /\ ~Holds(IdOf(a)))
  PROVE  RegInv'
<1>1. a \in DOMAIN attempts /\ worker.job = a /\ worker.phase = phase
  BY RunningFacts
<1>2. worker' = [job |-> a, phase |-> next] /\ UNCHANGED attempts
  BY DEF Proceed, Running
<1>3. worker' \in [job: DOMAIN attempts \cup {None}, phase: Phases]
  BY <1>1, <1>2
<1>4. written' \in [Attempts -> SUBSET Tables]
      /\ \A b \in Attempts : b # a => written'[b] = written[b]
  BY DEF RegInv, Types, Before, Tables
<1>5. Types'
  BY <1>1, <1>2, <1>3, <1>4 DEF RegInv, Types
<1> QED BY <1>1, <1>2, <1>5, PhaseStep DEF Late

\* The worker's attempt ends, with its transaction ended or left.
LEMMA ResultStep ==
  ASSUME RegInv, NEW a \in Attempts, NEW phase, Running(a, phase), NEW result \in Results,
         Finish(a, result), UNCHANGED <<session, jobs>>,
         \/ /\ Ended(a) /\ UNCHANGED doubtful
            /\ \/ result = "ServerError"
               \/ result = "Busy" /\ UNCHANGED accounts
               \/ result = "DuplicateId" /\ accounts[IdOf(a)] # None
               \/ result = "Success" /\ accounts'[IdOf(a)] = a
         \/ /\ UNCHANGED <<written, accounts, characters>> /\ result = "ServerError"
            /\ \/ UNCHANGED doubtful
               \/ written[a] = Tables /\ doubtful' = doubtful \cup {a}
  PROVE  RegInv'
<1> DEFINE e == [attempts[a] EXCEPT !.result = result]
<1>1. a \in DOMAIN attempts /\ worker.job = a
  BY RunningFacts
<1>2. attempts' = [attempts EXCEPT ![a] = e] /\ worker' = Idle
  BY DEF Finish
<1>3. /\ e \in Attempt /\ e.id = attempts[a].id /\ e.result = result /\ e.told = attempts[a].told
      /\ (e.canceled <=> attempts[a].canceled) /\ (e.expired <=> attempts[a].expired)
      /\ e.early = attempts[a].early
  BY <1>1, AttemptFacts DEF Attempt
<1> HIDE DEF e
<1>4. /\ attempts' \in Seq(Attempt) /\ Len(attempts') = Len(attempts)
      /\ SameAttempts /\ attempts'[a] = e
      /\ \A b \in DOMAIN attempts : b # a => attempts'[b] = attempts[b]
  BY <1>1, <1>2, <1>3, RecordAt
<1>5. DOMAIN attempts' = DOMAIN attempts /\ Idle \in [job: DOMAIN attempts \cup {None}, phase: Phases]
  BY <1>4 DEF SameAttempts, Idle, Phases
<1>6. /\ doubtful' \subseteq DOMAIN attempts /\ accounts' \in [Ids -> DOMAIN attempts \cup {None}]
      /\ written' \in [Attempts -> SUBSET Tables]
      /\ \A b \in Attempts : b # a => written'[b] = written[b]
  <2>1. CASE Ended(a) /\ UNCHANGED doubtful
    BY <1>1, <1>4, <2>1, EndedKeys DEF RegInv, Types
  <2>2. CASE /\ UNCHANGED <<written, accounts, characters>>
             /\ UNCHANGED doubtful \/ doubtful' = doubtful \cup {a}
    BY <1>1, <2>2 DEF RegInv, Types
  <2> QED BY <2>1, <2>2
<1>7. Types'
  BY <1>1, <1>2, <1>4, <1>5, <1>6 DEF RegInv, Types
<1>8. \A b \in DOMAIN attempts :
        /\ Stale(b)' <=> Stale(b)
        /\ attempts'[b].early = attempts[b].early /\ attempts'[b].told = attempts[b].told
        /\ b # a => attempts'[b].result = attempts[b].result
  BY <1>3, <1>4 DEF Stale
<1>9. attempts'[a].result = result
  BY <1>3, <1>4
<1> QED BY <1>1, <1>2, <1>4, <1>7, <1>8, <1>9, FinishStep

\* What the phase says is written.
LEMMA WrittenBy ==
  ASSUME RegInv, NEW a \in Attempts, NEW phase, Running(a, phase)
  PROVE  /\ written[a] = Before(phase) /\ written \in [Attempts -> SUBSET Tables]
         /\ Before(phase) = {} =>
              [written EXCEPT ![a] = {}] = written
BY RunningFacts DEF RegInv, WriteInv, Types

\* A failure before anything is written.
LEMMA FailStep ==
  ASSUME RegInv, NEW a \in Attempts, NEW phase, Running(a, phase), NEW result \in Results,
         Finish(a, result), UNCHANGED <<session, jobs, database>>, phase \in {"Look", "Hash"},
         result \in {"ServerError", "Busy"} \/ (result = "DuplicateId" /\ accounts[IdOf(a)] # None)
  PROVE  RegInv'
<1>1. UNCHANGED <<written, doubtful, accounts, characters>>
  BY DEF database
<1>2. Before(phase) = {}
  BY DEF Before
<1>3. Ended(a)
  BY <1>1, <1>2, WrittenBy DEF Ended
<1> QED BY <1>1, <1>3, ResultStep

\* A failure that rolls back, or leaves it to the database.
LEMMA RollbackStep ==
  ASSUME RegInv, NEW a \in Attempts, NEW phase, Running(a, phase),
         NEW result \in {"ServerError", "DuplicateId"}, Finish(a, result), Rollback(a),
         UNCHANGED <<session, jobs>>,
         result = "DuplicateId" => accounts[IdOf(a)] # None /\ written[a] = {}
  PROVE  RegInv'
<1>1. UNCHANGED <<doubtful, accounts, characters>> /\ result \in Results
      /\ (written' = [written EXCEPT ![a] = {}] \/ UNCHANGED written)
  BY DEF Rollback, Results
<1>2. CASE written' = [written EXCEPT ![a] = {}]
  BY <1>1, <1>2, ResultStep DEF Ended
<1>3. CASE UNCHANGED written /\ result = "ServerError"
  BY <1>1, <1>3, ResultStep
<1>4. CASE UNCHANGED written /\ result = "DuplicateId"
  <2>1. written' = [written EXCEPT ![a] = {}]
    BY <1>4, WrittenBy
  <2> QED BY <1>1, <2>1, ResultStep DEF Ended
<1> QED BY <1>1, <1>2, <1>3, <1>4

LEMMA LookStep == ASSUME RegInv, NEW a \in Attempts, Look(a) PROVE RegInv'
<1>1. Running(a, "Look") /\ UNCHANGED <<session, jobs, database>>
  BY DEF Look
<1>2. CASE \E r \in {"Busy", "ServerError"} : Finish(a, r)
  BY <1>1, <1>2, FailStep DEF Results
<1>3. CASE accounts[IdOf(a)] # None /\ Finish(a, "DuplicateId")
  BY <1>1, <1>3, FailStep DEF Results
<1>4. CASE Proceed("Hash")
  <2>1. written' = [written EXCEPT ![a] = Before("Hash")] /\ Before("Hash") = {}
    BY <1>1, WrittenBy DEF Before, database
  <2> QED BY <1>1, <1>4, <2>1, ProceedStep DEF Phases, database
<1> QED BY <1>2, <1>3, <1>4 DEF Look

LEMMA HashStep == ASSUME RegInv, NEW a \in Attempts, Hash(a) PROVE RegInv'
<1>1. Running(a, "Hash") /\ UNCHANGED <<session, jobs, database>>
  BY DEF Hash
<1>2. CASE \E r \in {"Busy", "ServerError"} : Finish(a, r)
  BY <1>1, <1>2, FailStep DEF Results
<1>3. CASE ~Stale(a) /\ Proceed("Insert")
  <2>1. written' = [written EXCEPT ![a] = Before("Insert")] /\ Before("Insert") = {}
    BY <1>1, WrittenBy DEF Before, database
  <2> QED BY <1>1, <1>3, <2>1, ProceedStep DEF Phases, database
<1> QED BY <1>2, <1>3 DEF Hash

LEMMA InsertStep == ASSUME RegInv, NEW a \in Attempts, Insert(a) PROVE RegInv'
<1>1. Running(a, "Insert") /\ UNCHANGED <<session, jobs>>
  BY DEF Insert
<1>2. written[a] = {}
  BY <1>1, WrittenBy DEF Before
<1>3. CASE Finish(a, "ServerError") /\ Rollback(a)
  BY <1>1, <1>3, RollbackStep
<1>4. CASE accounts[IdOf(a)] # None /\ Finish(a, "DuplicateId") /\ Rollback(a)
  BY <1>1, <1>2, <1>4, RollbackStep
<1>5. CASE /\ accounts[IdOf(a)] = None /\ ~Holds(IdOf(a))
           /\ Proceed("Character") /\ WriteRow(a, "accounts")
  <2>1. written' = [written EXCEPT ![a] = Before("Character")]
    BY <1>2, <1>5 DEF WriteRow, Before
  <2>2. /\ UNCHANGED <<doubtful, accounts, characters>> /\ "Character" \in Phases
        /\ "Insert" \notin {"Look", "Hash"}
    BY <1>5 DEF WriteRow, Phases
  <2> QED BY <1>1, <1>5, <2>1, <2>2, ProceedStep
<1> QED BY <1>3, <1>4, <1>5 DEF Insert

LEMMA CharacterStep == ASSUME RegInv, NEW a \in Attempts, Character(a) PROVE RegInv'
<1>1. Running(a, "Character") /\ UNCHANGED <<session, jobs>>
  BY DEF Character
<1>2. written[a] = {"accounts"}
  BY <1>1, WrittenBy DEF Before
<1>3. CASE Finish(a, "ServerError") /\ Rollback(a)
  BY <1>1, <1>3, RollbackStep
<1>4. CASE Proceed("Commit") /\ WriteRow(a, "characters")
  <2>1. written' = [written EXCEPT ![a] = Before("Commit")]
    BY <1>2, <1>4 DEF WriteRow, Before, Tables
  <2>2. /\ UNCHANGED <<doubtful, accounts, characters>> /\ "Commit" \in Phases /\ written[a] # {}
        /\ "Character" \notin {"Look", "Hash"}
    BY <1>2, <1>4 DEF WriteRow, Phases
  <2> QED BY <1>1, <1>4, <2>1, <2>2, ProceedStep
<1> QED BY <1>3, <1>4 DEF Character

\* The commit succeeds, fails, or is left in doubt.
LEMMA CommitStep == ASSUME RegInv, NEW a \in Attempts, Commit(a) PROVE RegInv'
<1>1. Running(a, "Commit") /\ UNCHANGED <<session, jobs>>
  BY DEF Commit
<1>2. written[a] = Tables
  BY <1>1, WrittenBy DEF Before
<1>3. CASE Finish(a, "ServerError") /\ Rollback(a)
  BY <1>1, <1>3, RollbackStep
<1>4. CASE /\ Finish(a, "Success") /\ Publish(a)
           /\ written' = [written EXCEPT ![a] = {}] /\ UNCHANGED doubtful
  <2>1. /\ accounts' = [accounts EXCEPT ![IdOf(a)] = a]
        /\ characters' = [characters EXCEPT ![IdOf(a)] = a]
    BY <1>2, <1>4 DEF Publish, Tables
  <2>2. accounts'[IdOf(a)] = a
    <3>1. a \in DOMAIN attempts
      BY <1>1, RunningFacts
    <3> QED BY <2>1, <3>1, AttemptFacts DEF RegInv, Types
  <2> QED BY <1>1, <1>2, <1>4, <2>1, <2>2, ResultStep DEF Ended, Results
<1>5. CASE /\ Finish(a, "ServerError") /\ doubtful' = doubtful \cup {a}
           /\ UNCHANGED <<written, accounts, characters>>
  BY <1>1, <1>2, <1>5, ResultStep DEF Results
<1> QED BY <1>3, <1>4, <1>5 DEF Commit

-----------------------------------------------------------------------------
(* The invariant and what it says.                                          *)

LEMMA InitInv == ASSUME Init PROVE RegInv
<1>1. /\ session = [s \in Sessions |-> Gone] /\ attempts = <<>> /\ jobs = <<>> /\ worker = Idle
      /\ written = [a \in Attempts |-> {}] /\ doubtful = {}
      /\ accounts = [id \in Ids |-> None] /\ characters = [id \in Ids |-> None]
  BY DEF Init
<1>2. DOMAIN attempts = {} /\ DOMAIN jobs = {}
  BY <1>1
<1>3. Types
  <2>1. Gone \in Session /\ Gone.pending = None
    BY DEF Gone, Session
  <2> HIDE DEF Gone
  <2>2. session \in [Sessions -> Session] /\ \A s \in Sessions : session[s].pending = None
    BY <1>1, <2>1
  <2>3. attempts \in Seq(Attempt) /\ Len(attempts) <= MaxAttempts
        /\ jobs \in Seq(DOMAIN attempts) /\ Len(jobs) <= MaxJobs
    BY <1>1, Constants
  <2>4. worker \in [job: DOMAIN attempts \cup {None}, phase: Phases]
    BY <1>1 DEF Idle, Phases
  <2> QED BY <1>1, <2>2, <2>3, <2>4 DEF Types, Session
<1>4. WriteInv
  BY <1>1, <1>2 DEF WriteInv
<1> QED BY <1>2, <1>3, <1>4 DEF RegInv, QueueInv, KeyInv, EarlyInv, TruthInv

LEMMA StepInv == ASSUME RegInv, [Next]_vars PROVE RegInv'
<1>1. CASE \E s \in Sessions : Connect(s) \/ Answer(s) \/ GiveUp(s) \/ Disconnect(s)
  BY <1>1, ConnectStep, AnswerStep, GiveUpStep, DisconnectStep
<1>2. CASE \E s \in Sessions, id \in Ids : Register(s, id)
  BY <1>2, RegisterStep
<1>3. CASE \E s \in Sessions, a \in Attempts : Login(s, a)
  BY <1>3, LoginStep
<1>4. CASE \E a \in Attempts : \/ Expire(a) \/ Look(a) \/ Hash(a) \/ Insert(a) \/ Character(a)
                               \/ Commit(a) \/ Settle(a)
  BY <1>4, ExpireStep, LookStep, HashStep, InsertStep, CharacterStep, CommitStep, SettleStep
<1>5. CASE Take
  BY <1>5, TakeStep
<1>6. CASE Restart
  BY <1>6, RestartStep
<1>7. CASE UNCHANGED vars
  <2>1. Types'
    BY <1>7 DEF vars, database, RegInv, Types
  <2>2. SameAttempts
    BY <1>7 DEF vars, SameAttempts
  <2>3. UNCHANGED <<attempts, jobs, worker, database>>
    BY <1>7 DEF vars, database
  <2> QED BY <2>1, <2>2, <2>3, RecordStep DEF Stale
<1> QED BY <1>1, <1>2, <1>3, <1>4, <1>5, <1>6, <1>7 DEF Next

LEMMA InvType == ASSUME RegInv PROVE TypeOK
<1>1. DOMAIN attempts \subseteq Attempts
  <2>1. attempts \in Seq(Attempt) /\ Len(attempts) <= MaxAttempts
    BY DEF RegInv, Types
  <2> QED BY <2>1, Constants DEF Attempts
<1>2. \A a \in DOMAIN attempts :
        attempts[a] \in [id: Ids, canceled: BOOLEAN, expired: BOOLEAN, early: BOOLEAN,
                         result: Results \cup {None}, told: Results \cup {None}]
  BY AttemptFacts DEF Attempt
<1>3. jobs \in Seq(DOMAIN attempts)
  BY DEF RegInv, Types
<1>4. \A i \in DOMAIN jobs : jobs[i] \in DOMAIN attempts
  BY <1>3
<1>5. worker \in [job: Attempts \cup {None}, phase: Phases]
  BY <1>1 DEF RegInv, Types
<1>6. accounts \in [Ids -> Attempts \cup {None}] /\ characters \in [Ids -> Attempts \cup {None}]
  BY <1>1 DEF RegInv, Types, WriteInv
<1>7. doubtful \subseteq Attempts /\ written \in [Attempts -> SUBSET Tables]
  BY <1>1 DEF RegInv, Types
<1> QED BY <1>2, <1>4, <1>5, <1>6, <1>7 DEF RegInv, Types, TypeOK

LEMMA InvTruthful == ASSUME RegInv PROVE RegistrationTruthful
BY DEF RegInv, TruthInv, Truth, Over, Untouched, RegistrationTruthful

LEMMA InvComplete == ASSUME RegInv PROVE AccountsComplete
BY DEF RegInv, WriteInv, AccountsComplete

LEMMA InvLate == ASSUME RegInv PROVE LateNeverCreates
BY DEF RegInv, EarlyInv, Untouched, LateNeverCreates

LEMMA Invariance == Spec => []RegInv
<1>1. Init => RegInv
  BY InitInv
<1>2. RegInv /\ [Next]_vars => RegInv'
  BY StepInv
<1> QED BY <1>1, <1>2, PTL DEF Spec

\* Every value stays in its type: no attempt is lost and the queue of eight
\* jobs (RegistrationService.cpp:50) never overflows.
THEOREM TypeCorrect == Spec => []TypeOK
<1>1. RegInv => TypeOK
  BY InvType
<1> QED BY <1>1, Invariance, PTL

\* What LoginSession tells a client about its attempt (LoginSession.cpp:34-49)
\* is true and stays true: an account said to be made is there, one said to
\* be somebody else's is, and an attempt answered Busy never makes one.
THEOREM AnswersStayTrue == Spec => []RegistrationTruthful
<1>1. RegInv => RegistrationTruthful
  BY InvTruthful
<1> QED BY <1>1, Invariance, PTL

\* AccountRepository writes the account and its character in two statements, and
\* no half of them ever becomes visible, whichever statement fails, whether the
\* connection or the server is lost in between, and however late a COMMIT that
\* nobody waits for is carried out (AccountRepository.cpp:14-53).
THEOREM NeverHalfAnAccount == Spec => []AccountsComplete
<1>1. RegInv => AccountsComplete
  BY InvComplete
<1> QED BY <1>1, Invariance, PTL

\* The worker's second look at the flag and at the clock is the last: an
\* attempt that was stale by then makes no account, even by a commit in
\* doubt (RegistrationService.cpp:43-45).
THEOREM StaleMakesNothing == Spec => []LateNeverCreates
<1>1. RegInv => LateNeverCreates
  BY InvLate
<1> QED BY <1>1, Invariance, PTL
=============================================================================
