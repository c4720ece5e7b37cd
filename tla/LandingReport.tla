--------------------------- MODULE LandingReport ---------------------------
(***************************************************************************)
(* MovementRelay with clients that follow docs/MOVEMENT_3D.md: each reports *)
(* every action of its own physics once, in order, over a connection that  *)
(* loses nothing.  The server ignores the reports of a player while its    *)
(* combat is paused: from a hit that the database did not answer for until *)
(* the answer to one of the repetitions.  The client takes no input then,  *)
(* but who is in the air comes down, and it does not apply the server's    *)
(* MovementState3D to itself (docs/HEADLESS_FIELD_VALIDATION_2026-10-16.md *)
(* line 100).  The hit comes at any time: its player may be jumping.       *)
(***************************************************************************)
EXTENDS MovementRelay

VARIABLES
  client,   \* where the client itself stands: its last report
  paused    \* Player::CombatPaused
clientVars == <<vars, client, paused>>

NoReports == [p \in Players |-> {}]
Standing == [seq |-> 0, jump |-> 0, air |-> FALSE]

\* What a client may report next: it moves on, takes off, or lands.
Report(p) ==
  LET c == client[p]
      next(kind, jump, grounded) ==
        [seq |-> c.seq + 1, kind |-> kind, jump |-> jump, grounded |-> grounded]
      jumps == IF paused[p] THEN {} ELSE {next("Jump", c.jump + 1, FALSE)}
  IN  {a \in {next("Input", c.jump, ~c.air)}
             \cup IF c.air THEN {next("Land", c.jump, TRUE)} ELSE jumps : a \in Action}

\* The client acts; the server listens unless combat is paused.
Act(p) ==
  /\ where[p] # None
  /\ \E a \in Report(p) :
       /\ client' = [client EXCEPT ![p] = [seq |-> a.seq, jump |-> a.jump, air |-> ~a.grounded]]
       /\ \/ ~paused[p] /\ ReceiveActions(p, move[p].gen, <<a>>) /\ UNCHANGED <<where, screen>>
          \/ paused[p] /\ UNCHANGED vars
  /\ UNCHANGED paused

\* A hit is not answered for, and is.
Pause(p) ==
  /\ where[p] # None /\ ~paused[p]
  /\ paused' = [paused EXCEPT ![p] = TRUE]
  /\ UNCHANGED <<vars, client>>
Resume(p) ==
  /\ paused[p]
  /\ paused' = [paused EXCEPT ![p] = FALSE]
  /\ UNCHANGED <<vars, client>>

\* A player starts a visit standing.
Start(p) == client' = [client EXCEPT ![p] = Standing] /\ paused' = [paused EXCEPT ![p] = FALSE]

ClientInit == Init /\ client = [p \in Players |-> Standing] /\ paused = [p \in Players |-> FALSE]
ClientNext ==
  \/ \E p \in Players : Act(p) \/ Pause(p) \/ Resume(p)
  \/ \E p \in Players, m \in Maps :
       (Enter(p, m) \/ (~paused[p] /\ ChangeMap(p, m)) \/ Cleanup(p)) /\ Start(p)
  \/ \E m \in Maps : \E to \in SUBSET Due(m) : Tick(m, to) /\ UNCHANGED <<client, paused>>
  \/ \E p \in Players : RequestClose(p) /\ UNCHANGED <<client, paused>>
ClientSpec == ClientInit /\ [][ClientNext]_clientVars

\* Who has landed can jump again (docs/MOVEMENT_3D.md:27), and the stored state
\* and the position are brought together before the fight goes on
\* (docs/FIELD_EXPANSION_2026-10-13.md:17): the server does not take one that
\* stands for one in the air.
LandedCanJump ==
  \A p \in Players : where[p] # None /\ ~paused[p] /\ ~client[p].air => ~move[p].air
=============================================================================
