-------------------------------- MODULE Ring --------------------------------
(***************************************************************************)
(* The lookup of a key's replica group on the ring, in its three           *)
(* implementations: getServer of ConsistentHashing.h, which servers and    *)
(* C++ clients share, getServer of ConsistentHashing.java, and getServer   *)
(* of client.py.  The ring is the set of positions that have a group       *)
(* (hashToServer); servers join and leave between lookups.                 *)
(*                                                                         *)
(* The C++ and Python lookups use an ordered map and a sorted list and are *)
(* operators.  The Java lookup is a loop over a hash map, in any order,    *)
(* and is modelled one iteration per step.                                 *)
(***************************************************************************)
EXTENDS Integers, FiniteSets

CONSTANT Half   \* 2^31: hash values and positions are -Half .. Half - 1

ASSUME RingAssumption == Half \in Nat \ {0}

Circle == -Half .. Half - 1

VARIABLES
  positions,   \* the keys of hashToServer
  hash,        \* the hash value that is looked up
  java         \* the Java lookup: keys still to visit, find1, minHash, find2, lb

vars == <<positions, hash, java>>

Least(S) == CHOOSE p \in S : \A q \in S : p <= q

\* Mutant: past the last position the search stays there instead of wrapping.
getServerNoWrap(h, P) ==
  LET after == {p \in P : p >= h}
  IN IF after = {} THEN CHOOSE p \in P : \A q \in P : q <= p ELSE Least(after)

\* Mutant: the key's hash modulo the number of positions.
getServerModulo(h, P) ==
  CHOOSE p \in P : Cardinality({q \in P : q < p}) = h % Cardinality(P)

(***************************************************************************)
(* C++: lower_bound(hash), or begin() behind the last position.            *)
(***************************************************************************)
getServer(h, P) ==
  LET after == {p \in P : p >= h}
  IN IF after = {} THEN Least(P) ELSE Least(after)

\* Mutant: the sign is taken from the wrong half.
pythonHashFlipped(h) ==
  LET u == h % (2 * Half) IN IF u < Half THEN u - (2 * Half - 1) ELSE u

(***************************************************************************)
(* Python: the unsigned hash becomes a signed number.                      *)
(***************************************************************************)
pythonHash(h) ==
  LET u == h % (2 * Half) IN IF u > Half THEN u - (2 * Half - 1) ELSE u

(***************************************************************************)
(* Python: bisect finds the first position strictly after the hash.        *)
(***************************************************************************)
pythonServer(h, P) ==
  LET after == {p \in P : p > pythonHash(h)}
  IN IF after = {} THEN Least(P) ELSE Least(after)

-----------------------------------------------------------------------------
Idle == [todo |-> {}, find1 |-> FALSE, minHash |-> 0, find2 |-> FALSE, lb |-> 0]

Init == positions = {} /\ hash = 0 /\ java = Idle

(***************************************************************************)
(* addServer puts a group at a position, checkPings empties some.          *)
(***************************************************************************)
Join(p) ==
  /\ java = Idle
  /\ positions' = positions \union {p}
  /\ UNCHANGED <<hash, java>>

Leave(p) ==
  /\ java = Idle
  /\ p \in positions
  /\ positions' = positions \ {p}
  /\ UNCHANGED <<hash, java>>

(***************************************************************************)
(* A lookup; an empty ring raises EmptyRingException instead.              *)
(***************************************************************************)
Lookup(h) ==
  /\ java = Idle
  /\ positions # {}
  /\ hash' = h
  /\ java' = [Idle EXCEPT !.todo = positions]
  /\ UNCHANGED positions

\* Mutant: lb takes the last position visited that is not before the hash.
VisitLast(h) ==
  /\ h \in java.todo
  /\ java' = [todo |-> java.todo \ {h},
       find1 |-> TRUE,
       minHash |-> IF ~ java.find1 \/ h < java.minHash THEN h ELSE java.minHash,
       find2 |-> java.find2 \/ h >= hash,
       lb |-> IF h >= hash THEN h ELSE java.lb]
  /\ UNCHANGED <<positions, hash>>

(***************************************************************************)
(* One iteration of the Java loop, for key h.                              *)
(***************************************************************************)
Visit(h) ==
  /\ h \in java.todo
  /\ java' = [todo |-> java.todo \ {h},
       find1 |-> TRUE,
       minHash |-> IF ~ java.find1 \/ h < java.minHash THEN h ELSE java.minHash,
       find2 |-> java.find2 \/ h >= hash,
       lb |-> IF h >= hash /\ (~ java.find2 \/ h < java.lb) THEN h ELSE java.lb]
  /\ UNCHANGED <<positions, hash>>

Found == java.todo = {} /\ java.find1

javaServer == IF java.find2 THEN java.lb ELSE java.minHash

Return == Found /\ java' = Idle /\ UNCHANGED <<positions, hash>>

Next ==
  \/ \E p \in Circle : Join(p) \/ Leave(p) \/ Lookup(p) \/ Visit(p)
  \/ Return

Spec == Init /\ [][Next]_vars

-----------------------------------------------------------------------------
(* Properties.                                                             *)

(***************************************************************************)
(* How far position p is from the hash h, clockwise.                       *)
(***************************************************************************)
Distance(h, p) == (p - h) % (2 * Half)

FirstClockwise(h, p) == \A q \in positions : Distance(h, p) <= Distance(h, q)

(***************************************************************************)
(* getServer of the servers and C++ clients finds the first group that is  *)
(* reached when the circle is traversed clockwise from the hash, across    *)
(* the seam between the largest and the smallest int as well.              *)
(***************************************************************************)
FindsFirst ==
  positions # {} => \A h \in Circle :
    getServer(h, positions) \in positions /\ FirstClockwise(h, getServer(h, positions))

(***************************************************************************)
(* The Java loop finds the same group, in whatever order it meets the keys *)
(* of the hash map.                                                        *)
(***************************************************************************)
JavaFindsSame == Found => javaServer = getServer(hash, positions)

(***************************************************************************)
(* A server that joins or leaves moves only the keys that come to it or    *)
(* were at it; every other key stays where it was.                         *)
(***************************************************************************)
OnlyNeighboursMove ==
  [][positions # {} /\ positions' # {} => \A h \in Circle :
       LET before == getServer(h, positions)
           now == getServer(h, positions')
       IN now # before => now \notin positions \/ before \notin positions']_vars

(***************************************************************************)
(* The Python lookup differs from the one of the servers only when a       *)
(* position is at the hash or, for a negative hash, right after it: its    *)
(* sign conversion is off by one, and bisect skips an equal position.      *)
(***************************************************************************)
PythonMissesNeighbours ==
  positions # {} => \A h \in Circle :
    pythonServer(h, positions) # getServer(h, positions) =>
      h \in positions \/ (h < 0 /\ h + 1 \in positions)

(***************************************************************************)
(* report/blank.tex: "A key is assigned to a server if the server is the   *)
(* first one reached when traversing the circle clockwise from the key's   *)
(* hashed location."  The Python client does so.                           *)
(***************************************************************************)
PythonFindsFirst ==
  positions # {} => \A h \in Circle : FirstClockwise(h, pythonServer(h, positions))
=============================================================================
