---------------------------- MODULE MCViewChange ----------------------------
(* Constants of the model-checking runs of ViewChange.                     *)
EXTENDS ViewChange, TLC

CONSTANTS k1, k2, v1, v2

ThreeServers == {1, 2, 3}
OneKey == {k1}
TwoKeys == {k1, k2}
TwoValues == {v1, v2}
FirstTwo == {1, 2}
LastTwo == {2, 3}
\* the puts of one key go to a replica that stays, the other's to server 3
OneWriterEach == [k \in TwoKeys |-> IF k = k1 THEN {1} ELSE {3}]
LastWrites == [k \in OneKey |-> {3}]
FirstTwoWrite == [k \in OneKey |-> {1, 2}]
LastTwoWrite == [k \in OneKey |-> {2, 3}]
\* the leaver crashes before clients put anything: the others do not know yet
CrashedInit ==
  /\ Init
  /\ gone = TRUE
  /\ at = [s \in Servers |-> "old"]
  /\ num = [s \in Servers |-> NoCall]
CrashedSpec == CrashedInit /\ [][VNext]_vvars /\ VFairness
\* values are told apart by equality only
SameValues == Permutations(TwoValues)
=============================================================================
