--------------------------- MODULE MCInventoryRows ---------------------------
(* TLC instances of InventoryRows: two places in a category, stacks of three,  *)
(* and a new character whose two places of potions are both taken.             *)
EXTENDS InventoryRows

CONSTANTS a, b, d1, d2, h1, t1
MCLimit == [k \in Categories |-> IF k = 0 THEN 1 ELSE 3]
MCStarterPack ==
  [mesos |-> 2, hp |-> 1, mp |-> 0,
   entries |-> [k \in Categories |-> [i \in SlotIds |->
     IF k = 1 /\ i = 0 THEN Stack(101, 2) ELSE IF k = 1 /\ i = 1 THEN Stack(101, 1) ELSE Empty]]]
MCDrops == d1 :> [item |-> 101, quantity |-> 2] @@ d2 :> [item |-> 102, quantity |-> 1]
MCPairs == {<<a, b>>}
MCHits == [h \in {h1} |-> 2]
=============================================================================
