--------------------------- MODULE MCCacheServer ---------------------------
(* Constants of the model-checking runs of CacheServer.                    *)
EXTENDS CacheServer

CONSTANTS k1, k2

TwoKeys == {k1, k2}
All(g) == [k \in TwoKeys |-> g]
Split(g, h) == [k \in TwoKeys |-> IF k = k1 THEN g ELSE h]
\* server 1 with replica 2, then with one of the keys only and replica 3
OneGroup == {All({1, 2}), Split({1, 3}, {2})}
\* server 1 with its replica, then with one of the keys only; or the ring is empty
OnePeer == {All({1, 2}), Split({1}, {2}), EmptyRing}
\* server 1 has joined twice and is in two groups
TwoGroups == OneGroup \union {Split({1, 2}, {1, 3})}
\* one key: server 1 alone, with a replica, and not responsible
OneKey == {k1}
OneKeyRings == {[k \in OneKey |-> g] : g \in {{1}, {1, 2}, {2}}}
OneKeyMayBeEmpty == OneKeyRings \union {[k \in OneKey |-> {}]}
=============================================================================
