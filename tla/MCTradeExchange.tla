--------------------------- MODULE MCTradeExchange ---------------------------
(* Two traders a and b for TLC, who own a sword and a shield.              *)
EXTENDS TradeExchange

CONSTANTS a, b, t1, sword, shield, OperationsA, OperationsB
MCOwners == [x \in Characters |-> IF x = a THEN {sword} ELSE IF x = b THEN {shield} \cap Goods ELSE {}]
MCOperations == [x \in Characters |-> IF x = a THEN OperationsA ELSE OperationsB]
=============================================================================
