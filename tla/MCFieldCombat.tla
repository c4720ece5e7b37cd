---------------------------- MODULE MCFieldCombat ----------------------------
(* One monster that stays, a player who fights and one who is only hit and   *)
(* may walk out of sight, for TLC.                                           *)
EXTENDS FieldCombat

CONSTANTS p1, p2, lawn, hill
MCNumbers == [p \in Players |-> IF p = p1 THEN {1, 2} ELSE {}]
MCHitLimit == [p \in Players |-> IF p = p1 THEN 1 ELSE 2]
MCWithin == [place \in Places |-> {place}]
MCPaths == [x \in Players \cup Monsters |-> IF x = p2 THEN {hill} ELSE {}]
=============================================================================
