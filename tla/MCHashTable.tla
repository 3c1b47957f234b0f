---------------------------- MODULE MCHashTable ----------------------------
(* Constants of the model-checking runs of HashTable.                      *)
EXTENDS HashTable, TLC

CONSTANTS a, b, c, small, big

MCKeys == {a, b, c}
MCValues == {small, big}
MCKeySize == [k \in MCKeys |-> 1]
MCValueSize == (small :> 1 @@ big :> 3)
\* a and b collide in the last slot of tables of 3, 6 and 12 slots; b, and the
\* probes for c, wrap around
MCHash == (a :> 11 @@ b :> 11 @@ c :> 12)
=============================================================================
