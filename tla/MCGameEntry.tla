---------------------------- MODULE MCGameEntry ----------------------------
(* Three characters of two accounts for TLC: c1 and c2 share an account.   *)
EXTENDS Chat

CONSTANTS c1, c2, c3, a1, a2
OwnerOf == [c \in Characters |-> IF c = c3 THEN a2 ELSE a1]
=============================================================================
