-------------------------- MODULE MCMovementRelay --------------------------
(* Two players for TLC.  p1 may jump twice, and claims what it likes about  *)
(* its jumps; p2 walks one step.                                           *)
EXTENDS MovementRelay

CONSTANTS p1, p2
Report(kind, jump, grounded) ==
  {[seq |-> n, kind |-> kind, jump |-> jump, grounded |-> grounded] : n \in 1..MaxNumber}
Jumper == UNION {Report("Jump", 1, FALSE), Report("Jump", 2, FALSE),
                 Report("Land", 1, TRUE), Report("Land", 2, TRUE), Report("Respawn", 1, TRUE),
                 Report("Input", 1, TRUE), Report("Input", 1, FALSE)}
Walker == {a \in Report("Input", 0, TRUE) : a.seq = 1}
ReportsOf == [p \in Players |-> IF p = p1 THEN Jumper ELSE Walker]
=============================================================================
