--------------------------- MODULE MCAntiEntropy ---------------------------
(* Constants of the model-checking runs of AntiEntropy.                    *)
EXTENDS AntiEntropy

CONSTANTS k1, v1, v2

TwoServers == {1, 2}
ThreeServers == {1, 2, 3}
OneKey == {k1}
OneValue == {v1}
TwoValues == {v1, v2}
\* clients choose a replica at random
AnyWriter == [k \in OneKey |-> {1, 2}]
FirstWriter == [k \in OneKey |-> {1}]
=============================================================================
