---------------------------- MODULE MCFieldDrops ----------------------------
(* TLC instances of FieldDrops: interchangeable players and drops.            *)
EXTENDS FieldDrops, TLC

CONSTANTS a, b, d1, d2
MCSymmetry == Permutations(Characters) \cup Permutations(Drops)
=============================================================================
