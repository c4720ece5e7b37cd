---------------------------- MODULE Registration ----------------------------
(***************************************************************************)
(* Account registration in the login server.  A session hands an attempt   *)
(* to RegistrationService, whose one worker thread looks the id up, hashes  *)
(* the password and creates the account with its first character in one    *)
(* transaction; the main loop polls the future of each session and gives   *)
(* up after ten seconds, the worker after eight.  Attempts are numbered:   *)
(* the number stands for the password, and an account for the attempt that *)
(* made it.  Ids are in lower case.                                        *)
(*                                                                         *)
(* A transaction's rows are its own until it commits.  The worker has one  *)
(* connection; when that is lost, so is the transaction, and the database  *)
(* ends it by itself, later.  Left out: the Busy of a session that asks    *)
(* again within two seconds, which submits nothing (LoginSession.cpp:20).  *)
(***************************************************************************)
EXTENDS Naturals, Sequences, FiniteSets

CONSTANTS Sessions, Ids, None,
          MaxAttempts,  \* bound on the attempts of a run
          MaxJobs       \* jobs that may wait for the worker (8)

Results == {"Success", "DuplicateId", "Busy", "ServerError"}
Tables == {"accounts", "characters"}

ASSUME Bounds ==
  /\ MaxAttempts \in Nat /\ MaxJobs \in Nat \ {0}
  /\ None \notin Nat \cup Results

VARIABLES
  session,     \* LoginSession: its connection, its future and who it is
  attempts,    \* every attempt submitted, with its shared cancel flag
  jobs,        \* RegistrationService::_jobs
  worker,      \* the attempt the worker thread runs and how far it is
  written,     \* the tables in which an attempt's transaction has an uncommitted row
  doubtful,    \* transactions whose commit was sent and never answered
  accounts,    \* table accounts: the attempt that made the id's account
  characters   \* table characters: the account its character belongs to
database == <<written, doubtful, accounts, characters>>
vars == <<session, attempts, jobs, worker, database>>

Attempts == 1..MaxAttempts
Phases == {"Look", "Hash", "Insert", "Character", "Commit"}
Gone == [open |-> FALSE, pending |-> None, account |-> None]
Idle == [job |-> None, phase |-> "Look"]

TypeOK ==
  /\ session \in [Sessions -> [open: BOOLEAN, pending: Attempts \cup {None},
                               account: Attempts \cup {None}]]
  /\ \A s \in Sessions : session[s].pending # None => session[s].open /\ session[s].account = None
  /\ Len(attempts) <= MaxAttempts
  /\ \A a \in DOMAIN attempts :
       attempts[a] \in [id: Ids, canceled: BOOLEAN, expired: BOOLEAN, early: BOOLEAN,
                        result: Results \cup {None}, told: Results \cup {None}]
  /\ Len(jobs) <= MaxJobs /\ \A i \in DOMAIN jobs : jobs[i] \in DOMAIN attempts
  /\ worker \in [job: Attempts \cup {None}, phase: Phases]
  /\ written \in [Attempts -> SUBSET Tables] /\ doubtful \subseteq Attempts
  /\ accounts \in [Ids -> Attempts \cup {None}]
  /\ characters \in [Ids -> Attempts \cup {None}]

IdOf(a) == attempts[a].id
Running(a, phase) == worker = [job |-> a, phase |-> phase]

----------------------------------------------------------------------------
(* The sessions, on the main loop.                                         *)

Connect(s) ==
  /\ ~session[s].open
  /\ session' = [session EXCEPT ![s] = [Gone EXCEPT !.open = TRUE]]
  /\ UNCHANGED <<attempts, jobs, worker, database>>

NewAttempt(id, told) ==
  [id |-> id, canceled |-> FALSE, expired |-> FALSE, early |-> FALSE,
   result |-> None, told |-> told]

\* HandleRegistration of a well-formed request the session accepts; a full
\* queue is answered at once.
Register(s, id) ==
  /\ session[s].open /\ session[s].pending = None /\ session[s].account = None
  /\ Len(attempts) < MaxAttempts
  /\ \/ /\ Len(jobs) < MaxJobs
        /\ attempts' = Append(attempts, NewAttempt(id, None))
        /\ jobs' = Append(jobs, Len(attempts) + 1)
        /\ session' = [session EXCEPT ![s].pending = Len(attempts) + 1]
     \/ /\ Len(jobs) >= MaxJobs
        /\ attempts' = Append(attempts, NewAttempt(id, "Busy"))
        /\ UNCHANGED <<session, jobs>>
  /\ UNCHANGED <<worker, database>>

\* Before the worker's last look at the cancel flag and the clock.
Undecided(a) ==
  \/ \E i \in DOMAIN jobs : jobs[i] = a
  \/ Running(a, "Look") \/ Running(a, "Hash")
Cancel(a) == [attempts[a] EXCEPT !.canceled = TRUE, !.early = @ \/ Undecided(a)]

\* LoginSession::Update with a result.
Answer(s) ==
  LET a == session[s].pending IN
  /\ a # None /\ attempts[a].result # None
  /\ attempts' = [attempts EXCEPT ![a].told = attempts[a].result]
  /\ session' = [session EXCEPT ![s].pending = None]
  /\ UNCHANGED <<jobs, worker, database>>

\* LoginSession::Update without one, ten seconds after the request.
AwaitResult(s) == FALSE /\ UNCHANGED vars
GiveUpAsBusy(s) ==
  LET a == session[s].pending IN
  /\ a # None /\ attempts[a].result = None /\ attempts[a].expired
  /\ attempts' = [attempts EXCEPT ![a] = [Cancel(a) EXCEPT !.told = "Busy"]]
  /\ session' = [session EXCEPT ![s].pending = None]
  /\ UNCHANGED <<jobs, worker, database>>
GiveUp(s) ==
  LET a == session[s].pending IN
  /\ a # None /\ attempts[a].result = None /\ attempts[a].expired
  /\ attempts' = [attempts EXCEPT ![a] = [Cancel(a) EXCEPT !.told = "ServerError"]]
  /\ session' = [session EXCEPT ![s].pending = None]
  /\ UNCHANGED <<jobs, worker, database>>

\* OnDisconnected: what the session waits for is canceled and forgotten.
Disconnect(s) ==
  LET a == session[s].pending IN
  /\ session[s].open
  /\ attempts' = IF a = None THEN attempts ELSE [attempts EXCEPT ![a] = Cancel(a)]
  /\ session' = [session EXCEPT ![s] = Gone]
  /\ UNCHANGED <<jobs, worker, database>>

\* HandleLogin with the id and the password of attempt a.
Login(s, a) ==
  /\ session[s].open /\ session[s].pending = None /\ session[s].account = None
  /\ a \in DOMAIN attempts /\ accounts[IdOf(a)] = a
  /\ session' = [session EXCEPT ![s].account = a]
  /\ UNCHANGED <<attempts, jobs, worker, database>>

\* Eight seconds have passed since the request.
Expire(a) ==
  /\ a \in DOMAIN attempts /\ ~attempts[a].expired
  /\ attempts' = [attempts EXCEPT ![a] = [attempts[a] EXCEPT !.expired = TRUE,
                                                             !.early = @ \/ Undecided(a)]]
  /\ UNCHANGED <<session, jobs, worker, database>>

----------------------------------------------------------------------------
(* The worker thread.                                                      *)

Proceed(phase) == worker' = [worker EXCEPT !.phase = phase] /\ UNCHANGED attempts
Finish(a, result) ==
  /\ attempts' = [attempts EXCEPT ![a].result = result]
  /\ worker' = Idle
Stale(a) == attempts[a].canceled \/ attempts[a].expired

\* Run takes the next job.
Take ==
  /\ worker.job = None /\ jobs # <<>>
  /\ worker' = [job |-> Head(jobs), phase |-> "Look"]
  /\ jobs' = Tail(jobs)
  /\ UNCHANGED <<session, attempts, database>>

\* The first check, the connection and the lookup.
Look(a) ==
  /\ Running(a, "Look")
  /\ \/ Stale(a) /\ Finish(a, "Busy")
     \/ ~Stale(a) /\ Finish(a, "ServerError")
     \/ ~Stale(a) /\ accounts[IdOf(a)] # None /\ Finish(a, "DuplicateId")
     \/ ~Stale(a) /\ accounts[IdOf(a)] = None /\ Proceed("Hash")
  /\ UNCHANGED <<session, jobs, database>>

\* The hash and the second check.
HashOnly(a) ==
  /\ Running(a, "Hash")
  /\ Finish(a, "ServerError") \/ Proceed("Insert")
  /\ UNCHANGED <<session, jobs, database>>
Hash(a) ==
  /\ Running(a, "Hash")
  /\ \/ Finish(a, "ServerError")
     \/ Stale(a) /\ Finish(a, "Busy")
     \/ ~Stale(a) /\ Proceed("Insert")
  /\ UNCHANGED <<session, jobs, database>>

\* What becomes visible when a transaction commits.
Publish(a) ==
  /\ accounts' = IF "accounts" \in written[a] THEN [accounts EXCEPT ![IdOf(a)] = a] ELSE accounts
  /\ characters' = IF "characters" \in written[a] THEN [characters EXCEPT ![IdOf(a)] = a]
                   ELSE characters

\* ~Transaction, however CreateWithCharacter is left: rollback() and then
\* setAutoCommit(true), which would commit what is still open.  Without the
\* connection neither arrives, and the transaction is left to the database.
RollbackForgotten(a) ==
  /\ Publish(a) /\ written' = [written EXCEPT ![a] = {}]
  /\ UNCHANGED doubtful
Rollback(a) ==
  /\ written' = [written EXCEPT ![a] = {}] \/ UNCHANGED written
  /\ UNCHANGED <<doubtful, accounts, characters>>

\* INSERT INTO accounts.  The unique key turns a second account of the id
\* down; a transaction that is still open holds the key until the wait times
\* out (an error as any other).
Holds(id) == \E b \in DOMAIN attempts : written[b] # {} /\ IdOf(b) = id
WriteRow(a, table) ==
  /\ written' = [written EXCEPT ![a] = @ \cup {table}]
  /\ UNCHANGED <<doubtful, accounts, characters>>
Insert(a) ==
  /\ Running(a, "Insert")
  /\ \/ Finish(a, "ServerError") /\ Rollback(a)
     \/ accounts[IdOf(a)] # None /\ Finish(a, "DuplicateId") /\ Rollback(a)
     \/ /\ accounts[IdOf(a)] = None /\ ~Holds(IdOf(a))
        /\ Proceed("Character") /\ WriteRow(a, "accounts")
  /\ UNCHANGED <<session, jobs>>

\* INSERT INTO characters and its name.
Character(a) ==
  /\ Running(a, "Character")
  /\ \/ Finish(a, "ServerError") /\ Rollback(a)
     \/ Proceed("Commit") /\ WriteRow(a, "characters")
  /\ UNCHANGED <<session, jobs>>

\* COMMIT may fail, or be carried out by the database without an answer.
Commit(a) ==
  /\ Running(a, "Commit")
  /\ \/ /\ Finish(a, "Success") /\ Publish(a)
        /\ written' = [written EXCEPT ![a] = {}] /\ UNCHANGED doubtful
     \/ Finish(a, "ServerError") /\ Rollback(a)
     \/ /\ Finish(a, "ServerError") /\ doubtful' = doubtful \cup {a}
        /\ UNCHANGED <<written, accounts, characters>>
  /\ UNCHANGED <<session, jobs>>

\* The database ends a transaction whose connection is lost: it rolls back,
\* unless the COMMIT has arrived.
Settle(a) ==
  /\ worker.job # a /\ written[a] # {}
  /\ written' = [written EXCEPT ![a] = {}] /\ doubtful' = doubtful \ {a}
  /\ (a \in doubtful /\ Publish(a)) \/ UNCHANGED <<accounts, characters>>
  /\ UNCHANGED <<session, attempts, jobs, worker>>

\* The login server dies: its queue is gone and so is its connection, with a
\* transaction in the middle; a commit under way is in doubt.
Restart ==
  /\ session' = [s \in Sessions |-> Gone]
  /\ jobs' = <<>>
  /\ worker' = Idle
  /\ doubtful' = IF worker.job # None /\ worker.phase = "Commit"
                 THEN doubtful \cup {worker.job} ELSE doubtful
  /\ UNCHANGED <<attempts, written, accounts, characters>>

----------------------------------------------------------------------------

Init ==
  /\ session = [s \in Sessions |-> Gone]
  /\ attempts = <<>>
  /\ jobs = <<>>
  /\ worker = Idle
  /\ written = [a \in Attempts |-> {}]
  /\ doubtful = {}
  /\ accounts = [id \in Ids |-> None]
  /\ characters = [id \in Ids |-> None]

Next ==
  \/ \E s \in Sessions : Connect(s) \/ Answer(s) \/ GiveUp(s) \/ Disconnect(s)
  \/ \E s \in Sessions, id \in Ids : Register(s, id)
  \/ \E s \in Sessions, a \in Attempts : Login(s, a)
  \/ \E a \in Attempts : \/ Expire(a) \/ Look(a) \/ Hash(a) \/ Insert(a) \/ Character(a)
                         \/ Commit(a) \/ Settle(a)
  \/ Take \/ Restart

Spec == Init /\ [][Next]_vars

\* The main loop updates its sessions and time passes; neither the worker
\* nor the database need ever finish.
FairSpec ==
  /\ Spec
  /\ \A s \in Sessions : WF_vars(Answer(s)) /\ WF_vars(GiveUp(s))
  /\ \A a \in Attempts : WF_vars(Expire(a))

----------------------------------------------------------------------------
(* Properties.                                                             *)

\* What a client is told about its attempt is true and stays true, however
\* late the worker and the database are: Success means the account is there
\* with its password, DuplicateId that another attempt made it (which may be
\* the same client's earlier one, given up and committed after all), and after
\* Busy the attempt makes none.  ServerError promises nothing (LoginSession.cpp:45).
RegistrationTruthful ==
  \A a \in DOMAIN attempts :
    /\ attempts[a].told = "Success" => accounts[IdOf(a)] = a
    /\ attempts[a].told = "DuplicateId" => accounts[IdOf(a)] \notin {None, a}
    /\ attempts[a].told = "Busy" => accounts[IdOf(a)] # a

\* An account never exists without the character made with it, nor the
\* character without the account (the comment at AccountRepository.cpp:42):
\* whichever statement fails, whether the connection, the login server or the
\* answer to COMMIT is lost, no half of a transaction becomes visible.
AccountsComplete == \A id \in Ids : characters[id] = accounts[id]

\* An attempt whose connection ended or whose time ran out while it waited
\* or hashed makes no account and does not begin to (the comment at
\* RegistrationService.cpp:43).
LateNeverCreates ==
  \A a \in DOMAIN attempts :
    attempts[a].early => accounts[IdOf(a)] # a /\ written[a] = {}

\* Every registration is answered, even when the worker hangs in a call to
\* the database for good.
AnswersCome == \A s \in Sessions : session[s].pending # None ~> session[s].pending = None
=============================================================================
