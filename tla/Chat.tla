--------------------------------- MODULE Chat ---------------------------------
(***************************************************************************)
(* What players say to their map and to each other, and how much of it.    *)
(*                                                                         *)
(* An account has a bucket of tokens, made full when it is first heard of; *)
(* a request costs a token, whatever becomes of it, and the bucket refills *)
(* with time.  It is filled when it is looked at, and erased once it is    *)
(* full again.  Buckets outlive connections and characters, but not the    *)
(* process.  Texts are left out: a message can be read or cannot.          *)
(***************************************************************************)
EXTENDS GameEntry

CONSTANTS Capacity, \* of a bucket, in the units of time it takes to fill it
          Cost,     \* of a request, in the same units
          Speakers  \* bound: the accounts whose clients talk

ASSUME ChatAssumption ==
  /\ {Capacity, Cost} \subseteq Nat \ {0} /\ Speakers \subseteq Accounts
  /\ None \notin [tokens : Nat, age : Nat]

VARIABLES
  bucket, \* ChatLimiter::_buckets: tokens, and the time since they were counted
  credit  \* history: what the account has not used of Capacity and the time gone by

chatVars == <<bucket, credit>>

AtMost(n) == IF n < Capacity THEN n ELSE Capacity

-----------------------------------------------------------------------------
(* ChatLimiter.                                                             *)

\* A bucket once it is refilled; TryConsume makes one that is full.
Refill(a) == IF bucket[a] = None THEN Capacity ELSE AtMost(bucket[a].tokens + bucket[a].age)

\* A request is counted when it is accepted, and a refusal keeps what was
\* refilled.
Accepts(a) == Refill(a) >= Cost
Counted(a, tokens) == bucket' = [bucket EXCEPT ![a] = [tokens |-> tokens, age |-> 0]]
Charge(a) == Counted(a, Refill(a) - Cost) /\ credit' = [credit EXCEPT ![a] = @ - Cost]
Refuse(a) == Counted(a, Refill(a)) /\ UNCHANGED credit

UsableAgain(a) == Refill(a) >= Cost
FullAgain(a) == Refill(a) = Capacity
Cleanup ==
  /\ bucket' = [a \in Accounts |->
       IF FullAgain(a) THEN None ELSE [tokens |-> Refill(a), age |-> 0]]
  /\ UNCHANGED <<vars, credit>>

-----------------------------------------------------------------------------
(* Requests of a player in the game.                                        *)

Speaker(s) == Owner[game.session[s].player]
Speaks(s) == Connected(game, s) /\ Playing(game, s) /\ Speaker(s) \in Speakers
Unchanged == UNCHANGED <<issued, asking, given, ticket, uses>>

\* SendResult: the client is told, or its connection ends.
Told(s) ==
  \/ UNCHANGED game
  \/ \E failing \in SUBSET Sessions : game' = Close(game, s, failing)

\* Too much was said, by anybody who has the account.
RateLimited(s) ==
  /\ Speaks(s) /\ ~Accepts(Speaker(s))
  /\ Refuse(Speaker(s))
  /\ Told(s) /\ Unchanged

\* It cannot be read, or names nobody who is in the game and connected.
InvalidMessage(s) ==
  /\ Speaks(s) /\ Accepts(Speaker(s))
  /\ Charge(Speaker(s))
  /\ Told(s) /\ Unchanged

\* Everybody in the map hears it, its sender too; who cannot be sent to is
\* closed.
NotifyPlayerChat(g, s, failing) ==
  LET m == g.session[s].map
  IN [g EXCEPT !.session = [t \in Sessions |->
        IF t \in failing /\ t \in {g.members[m][c] : c \in Characters}
        THEN [g.session[t] EXCEPT !.closing = TRUE] ELSE g.session[t]]]
SendMap(s) ==
  /\ Speaks(s) /\ Accepts(Speaker(s))
  /\ Charge(Speaker(s))
  /\ \E failing \in SUBSET Sessions : game' = NotifyPlayerChat(game, s, failing)
  /\ Unchanged

\* A player in any map hears it, and its sender is sent it too.  A target that
\* cannot be sent to is closed, and the sender told so.
SendWhisper(s, c) ==
  LET target == game.byCharacter[c]
      lost == [game EXCEPT !.session[target].closing = TRUE]
  IN /\ Speaks(s) /\ Accepts(Speaker(s))
     /\ target # None /\ Connected(game, target)
     /\ Charge(Speaker(s))
     /\ \/ Told(s)
        \/ target # s /\ game' = lost
        \/ \E failing \in SUBSET Sessions : game' = Close(lost, s, failing)
     /\ Unchanged

-----------------------------------------------------------------------------

Elapse ==
  /\ bucket' = [a \in Accounts |-> IF bucket[a] = None THEN None
                                   ELSE [bucket[a] EXCEPT !.age = AtMost(@ + 1)]]
  /\ credit' = [a \in Accounts |-> AtMost(credit[a] + 1)]
  /\ UNCHANGED vars

\* Buckets are lost with the process.
Reset == bucket' = [a \in Accounts |-> None] /\ credit' = [a \in Accounts |-> Capacity]

ChatInit == Init /\ bucket = [a \in Accounts |-> None] /\ credit = [a \in Accounts |-> Capacity]

ChatNext ==
  \/ Step /\ UNCHANGED chatVars
  \/ Restart /\ Reset
  \/ \E s \in Sessions :
       \/ RateLimited(s) \/ InvalidMessage(s) \/ SendMap(s)
       \/ \E c \in Characters : SendWhisper(s, c)
  \/ Cleanup \/ Elapse

ChatSpec == ChatInit /\ [][ChatNext]_<<vars, chatVars>> /\ Fairness

-----------------------------------------------------------------------------

\* An account says as much as its bucket holds and time refills, no more and no
\* less: not by reconnecting, by changing the character, or by waiting until
\* its bucket is erased; and neither asking in vain nor a cleanup delays it
\* (ChatLimiter.h:29).
SpeechExact ==
  \A a \in Accounts : credit[a] >= 0 /\ Refill(a) = credit[a]
=============================================================================
