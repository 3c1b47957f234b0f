----------------------------- MODULE RingProofs -----------------------------
(***************************************************************************)
(* Proofs about Ring: for a circle of every size and any set of positions, *)
(* the lookup of the C++ code finds the group that consistent hashing      *)
(* assigns, the Java loop finds the same one in whatever order it meets    *)
(* the positions, and the Python lookup differs only next to the hash.     *)
(***************************************************************************)
EXTENDS Ring, Induction

(***************************************************************************)
(* A nonempty set of positions has a least element, which Least chooses:   *)
(* begin() of the ordered map, and the first element of the sorted list.   *)
(***************************************************************************)
LEMMA LeastIsLeast ==
  ASSUME NEW S \in SUBSET Circle, S # {}
  PROVE  Least(S) \in S /\ \A q \in S : Least(S) <= q
<1> USE RingAssumption DEF Circle
<1> DEFINE T == {p + Half : p \in S}
<1>1. PICK x \in T : \A y \in T : x <= y
  <2>1. \A p \in S : p \in Int /\ p >= - Half
    OBVIOUS
  <2>2. \A p \in S : p + Half \in Nat
    BY <2>1
  <2>3. T \subseteq Nat /\ T # {}
    BY <2>2, Zenon
  <2> HIDE DEF T
  <2> QED
    BY <2>3, LeastNumber
<1>2. PICK p \in S : x = p + Half
  BY <1>1
<1>3. \A q \in S : p + Half <= q + Half
  BY <1>1, <1>2
<1>4. \A q \in S : p <= q
  BY <1>3
<1> QED
  BY <1>4 DEF Least

(***************************************************************************)
(* There is only one.                                                      *)
(***************************************************************************)
LEMMA LeastUnique ==
  ASSUME NEW S \in SUBSET Circle, NEW x \in S, \A q \in S : x <= q
  PROVE  Least(S) = x
<1>1. Least(S) \in S /\ Least(S) <= x
  BY LeastIsLeast
<1>2. x <= Least(S)
  BY <1>1
<1>3. x \in Circle /\ Least(S) \in Circle
  BY <1>1
<1>4. x \in Int /\ Least(S) \in Int
  BY <1>3, RingAssumption DEF Circle
<1> QED
  BY <1>1, <1>2, <1>4

(***************************************************************************)
(* The reduction modulo the size of the circle of a difference of two      *)
(* positions adds one turn to a negative difference and nothing else.      *)
(***************************************************************************)
LEMMA ModCircle ==
  ASSUME NEW d \in Int, - (2 * Half) <= d, d < 2 * Half
  PROVE  d % (2 * Half) = IF d < 0 THEN d + 2 * Half ELSE d
  BY RingAssumption

(***************************************************************************)
(* The clockwise distance between two points of the circle.                *)
(***************************************************************************)
LEMMA DistanceIs ==
  ASSUME NEW h \in Circle, NEW p \in Circle
  PROVE  Distance(h, p) = IF p < h THEN p - h + 2 * Half ELSE p - h
<1>1. p \in Int /\ h \in Int
  BY DEF Circle
<1> DEFINE d == p - h
<1>2. d \in Int /\ - (2 * Half) <= d /\ d < 2 * Half
  BY RingAssumption DEF Circle
<1>3. d % (2 * Half) = IF d < 0 THEN d + 2 * Half ELSE d
  <2> HIDE DEF d
  <2> QED
    BY <1>2, ModCircle
<1>4. d < 0 <=> p < h
  BY <1>1
<1> QED
  BY <1>3, <1>4 DEF Distance

(***************************************************************************)
(* getServer returns one of the positions, and the one that is nearest to  *)
(* the hash clockwise.                                                     *)
(***************************************************************************)
LEMMA GetServerNearest ==
  ASSUME NEW P \in SUBSET Circle, P # {}, NEW h \in Circle
  PROVE  /\ getServer(h, P) \in P
         /\ \A q \in P : Distance(h, getServer(h, P)) <= Distance(h, q)
<1> DEFINE after == {p \in P : p >= h}
<1>1. CASE after = {}
  <2>1. getServer(h, P) = Least(P)
    BY <1>1 DEF getServer
  <2>2. Least(P) \in P /\ \A q \in P : Least(P) <= q
    BY LeastIsLeast
  <2>3. \A q \in P : q < h
    BY <1>1, RingAssumption DEF Circle
  <2> HIDE DEF after
  <2>4. ASSUME NEW q \in P PROVE Distance(h, Least(P)) <= Distance(h, q)
    <3>1. q < h /\ Least(P) < h /\ Least(P) <= q
      BY <2>2, <2>3
    <3>2. Distance(h, q) = q - h + 2 * Half /\ Distance(h, Least(P)) = Least(P) - h + 2 * Half
      BY <2>2, <3>1, DistanceIs
    <3>3. q \in Int /\ h \in Int /\ Least(P) \in Int
      <4>1. q \in Circle /\ Least(P) \in Circle
        BY <2>2
      <4> QED
        BY <4>1, RingAssumption DEF Circle
    <3> QED
      BY <3>1, <3>2, <3>3, RingAssumption
  <2> QED
    BY <2>1, <2>2, <2>4
<1>2. CASE after # {}
  <2>1. getServer(h, P) = Least(after)
    BY <1>2 DEF getServer
  <2>2. Least(after) \in after /\ \A q \in after : Least(after) <= q
    BY <1>2, LeastIsLeast
  <2>3. ASSUME NEW q \in P PROVE Distance(h, Least(after)) <= Distance(h, q)
    <3>1. Least(after) >= h /\ (q < h \/ Least(after) <= q)
      BY <2>2 DEF Circle
    <3>2. /\ q \in Int /\ h \in Int /\ Least(after) \in Int
          /\ q >= - Half /\ h < Half /\ Least(after) < Half
      <4>1. Least(after) \in Circle /\ q \in Circle
        BY <2>2
      <4> HIDE DEF after
      <4> QED
        BY <4>1, RingAssumption DEF Circle
    <3>3. Distance(h, Least(after)) = Least(after) - h
      <4>1. ~ (Least(after) < h) /\ Least(after) \in Circle
        BY <2>2, <3>1, <3>2
      <4> QED
        BY <4>1, DistanceIs
    <3>4. Distance(h, q) = IF q < h THEN q - h + 2 * Half ELSE q - h
      BY DistanceIs
    <3> HIDE DEF after
    <3> QED
      BY <3>1, <3>2, <3>3, <3>4, RingAssumption
  <2> QED
    BY <2>1, <2>2, <2>3
<1> QED
  BY <1>1, <1>2

-----------------------------------------------------------------------------
(* The inductive invariant.                                                *)

(***************************************************************************)
(* What the Java loop knows of the positions it has visited: minHash is    *)
(* the least of them, lb the least of those that are not before the hash,  *)
(* and find1 and find2 tell whether there are any.                         *)
(***************************************************************************)
Visited == positions \ java.todo

RingTypes ==
  /\ positions \in SUBSET Circle
  /\ hash \in Circle
  /\ java \in [todo: SUBSET positions, find1: BOOLEAN, minHash: Int,
               find2: BOOLEAN, lb: Int]

LoopInv ==
  /\ java # Idle => \A q \in Visited : q >= hash => java.find2
  /\ ~ java.find1 => ~ java.find2 /\ (java = Idle \/ java.todo = positions)
  /\ java.find1 => java.minHash \in Visited /\ \A q \in Visited : java.minHash <= q
  /\ java.find2 => /\ java.lb \in Visited /\ java.lb >= hash
                   /\ \A q \in Visited : q >= hash => java.lb <= q

RingInv == RingTypes /\ LoopInv

(***************************************************************************)
(* RingInv is preserved by joins, departures, and every step of a lookup.  *)
(***************************************************************************)
LEMMA RingInvStep == RingInv /\ [Next]_vars => RingInv'
<1> SUFFICES ASSUME RingInv, [Next]_vars PROVE RingInv'
  OBVIOUS
<1> USE RingAssumption DEF RingInv, RingTypes, LoopInv, Visited, Idle, Circle
<1>1. ASSUME NEW p \in Circle, Join(p) PROVE RingInv'
  BY <1>1 DEF Join
<1>2. ASSUME NEW p \in Circle, Leave(p) PROVE RingInv'
  BY <1>2 DEF Leave
<1>3. ASSUME NEW p \in Circle, Lookup(p) PROVE RingInv'
  <2>1. java' = [todo |-> positions, find1 |-> FALSE, minHash |-> 0, find2 |-> FALSE, lb |-> 0]
    BY <1>3, Zenon DEF Lookup, Idle
  <2> QED
    BY <1>3, <2>1 DEF Lookup
<1>4. ASSUME NEW p \in Circle, Visit(p) PROVE RingInv'
  <2>1. RingTypes'
    BY <1>4 DEF Visit
  <2>2. Visited' = Visited \union {p}
    BY <1>4 DEF Visit
  <2>3. java # Idle
    BY <1>4 DEF Visit
  <2>4. /\ p \in Int /\ hash \in Int /\ Visited \subseteq Int
        /\ java.minHash \in Int /\ java.lb \in Int
    <3>1. p \in Circle /\ hash \in Circle /\ java.minHash \in Int /\ java.lb \in Int
      OBVIOUS
    <3>2. positions \subseteq Circle
      OBVIOUS
    <3>3. \A q \in Circle : q \in Int
      OBVIOUS
    <3> QED
      BY <3>1, <3>2, <3>3, Zenon DEF Visited
  <2>5. (\A q \in Visited : q >= hash => java.find2)'
    BY <1>4, <2>2, <2>3, <2>4 DEF Visit
  <2>6. (~ java.find1 => ~ java.find2 /\ (java = Idle \/ java.todo = positions))'
    BY <1>4 DEF Visit
  <2>7. (java.minHash \in Visited /\ \A q \in Visited : java.minHash <= q)'
    <3>1. CASE ~ java.find1
      BY <1>4, <2>2, <2>3, <2>4, <3>1 DEF Visit
    <3>2. CASE java.find1
      BY <1>4, <2>2, <2>3, <2>4, <3>2 DEF Visit
    <3> QED
      BY <3>1, <3>2
  <2>8. (java.find2 => /\ java.lb \in Visited /\ java.lb >= hash
                      /\ \A q \in Visited : q >= hash => java.lb <= q)'
    <3>1. CASE p >= hash /\ (~ java.find2 \/ p < java.lb)
      BY <1>4, <2>2, <2>3, <2>4, <3>1 DEF Visit
    <3>2. CASE ~ (p >= hash /\ (~ java.find2 \/ p < java.lb))
      BY <1>4, <2>2, <2>3, <2>4, <3>2 DEF Visit
    <3> QED
      BY <3>1, <3>2
  <2> QED
    BY <2>1, <2>5, <2>6, <2>7, <2>8
<1>5. CASE Return
  BY <1>5 DEF Return, Found
<1>6. CASE UNCHANGED vars
  BY <1>6 DEF vars
<1> QED
  BY <1>1, <1>2, <1>3, <1>4, <1>5, <1>6 DEF Next

(***************************************************************************)
(* RingInv holds in every reachable state.                                 *)
(***************************************************************************)
LEMMA RingInvariant == Spec => []RingInv
<1>1. Init => RingInv
  BY RingAssumption DEF Init, RingInv, RingTypes, LoopInv, Visited, Idle, Circle
<1> QED
  BY <1>1, RingInvStep, PTL DEF Spec

-----------------------------------------------------------------------------
(***************************************************************************)
(* The group that getServer of the C++ code finds for a hash is the first  *)
(* one clockwise, on every circle and for every set of positions.          *)
(***************************************************************************)
THEOREM LookupCorrect == Spec => []FindsFirst
<1>1. RingInv => FindsFirst
  BY GetServerNearest DEF RingInv, RingTypes, FindsFirst, FirstClockwise
<1> QED
  BY <1>1, RingInvariant, PTL

(***************************************************************************)
(* The Java loop ends with the group that the C++ lookup finds, whatever   *)
(* the order in which the hash map yields its keys.                        *)
(***************************************************************************)
THEOREM JavaLookupCorrect == Spec => []JavaFindsSame
<1>1. ASSUME RingInv, Found PROVE javaServer = getServer(hash, positions)
  <2> DEFINE after == {p \in positions : p >= hash}
  <2> USE <1>1 DEF RingInv, RingTypes, LoopInv, Visited, Found, Idle, Circle
  <2>1. positions # {} /\ Visited = positions /\ java # Idle
    OBVIOUS
  <2>2. CASE java.find2
    <3>1. java.lb \in after /\ \A q \in after : java.lb <= q
      BY <2>1, <2>2
    <3>2. after \in SUBSET Circle
      OBVIOUS
    <3>3. Least(after) = java.lb
      BY <3>1, <3>2, LeastUnique, Zenon
    <3> QED
      BY <2>2, <3>1, <3>3 DEF javaServer, getServer
  <2>3. CASE ~ java.find2
    <3>1. after = {}
      BY <2>1, <2>3
    <3>2. java.minHash \in positions /\ \A q \in positions : java.minHash <= q
      BY <2>1
    <3>3. Least(positions) = java.minHash
      BY <3>2, LeastUnique, Zenon
    <3> QED
      BY <2>3, <3>1, <3>3 DEF javaServer, getServer
  <2> QED
    BY <2>2, <2>3
<1>2. RingInv => JavaFindsSame
  BY <1>1 DEF JavaFindsSame
<1> QED
  BY <1>2, RingInvariant, PTL

(***************************************************************************)
(* A join or a departure moves only the keys of the server that comes or   *)
(* goes: two lookups that differ cannot both be for positions that are in  *)
(* both rings, since each is the nearest in its own.                       *)
(***************************************************************************)
THEOREM MovesCorrect == Spec => OnlyNeighboursMove
<1>1. ASSUME NEW P \in SUBSET Circle, NEW Q \in SUBSET Circle, P # {}, Q # {},
             NEW h \in Circle, getServer(h, Q) # getServer(h, P)
      PROVE  getServer(h, Q) \notin P \/ getServer(h, P) \notin Q
  <2> DEFINE before == getServer(h, P)
             now == getServer(h, Q)
  <2>1. before \in P /\ \A q \in P : Distance(h, before) <= Distance(h, q)
    BY <1>1, GetServerNearest
  <2>2. now \in Q /\ \A q \in Q : Distance(h, now) <= Distance(h, q)
    BY <1>1, GetServerNearest
  <2>3. SUFFICES ASSUME now \in P, before \in Q PROVE now = before
    BY <1>1
  <2>4. Distance(h, before) <= Distance(h, now) /\ Distance(h, now) <= Distance(h, before)
    BY <2>1, <2>2, <2>3
  <2>5. before \in Circle /\ now \in Circle
    BY <2>1, <2>2
  <2> HIDE DEF before, now
  <2> QED
    BY <2>4, <2>5, DistanceIs, RingAssumption DEF Circle
<1> DEFINE Moves ==
      positions # {} /\ positions' # {} => \A h \in Circle :
        LET before == getServer(h, positions)
            now == getServer(h, positions')
        IN now # before => now \notin positions \/ before \notin positions'
<1>2. RingInv /\ RingInv' => Moves
  BY <1>1 DEF RingInv, RingTypes
<1>3. RingInv /\ RingInv' => [Moves]_vars
  BY <1>2
<1> QED
  BY <1>3, RingInvariant, PTL DEF OnlyNeighboursMove

(***************************************************************************)
(* The Python lookup can miss the group of the servers only when there is  *)
(* a position at the hash or, for a negative hash, right after it.         *)
(***************************************************************************)
THEOREM PythonLookupCorrect == Spec => []PythonMissesNeighbours
<1>1. ASSUME NEW P \in SUBSET Circle, NEW h \in Circle,
             h \notin P, h < 0 => h + 1 \notin P
      PROVE  pythonServer(h, P) = getServer(h, P)
  <2> USE RingAssumption DEF Circle
  <2> DEFINE after == {p \in P : p >= h}
             later == {p \in P : p > pythonHash(h)}
  <2>1. h % (2 * Half) = IF h < 0 THEN h + 2 * Half ELSE h
    <3>1. h \in Int /\ - (2 * Half) <= h /\ h < 2 * Half
      OBVIOUS
    <3> QED
      BY <3>1, ModCircle, Zenon
  <2>2. pythonHash(h) = IF h >= 0 THEN h ELSE IF h = - Half THEN Half ELSE h + 1
    BY <2>1 DEF pythonHash
  <2>3. CASE h = - Half
    <3>1. pythonHash(h) = Half
      BY <2>2, <2>3
    <3>2. ASSUME NEW p \in P PROVE ~ (p > pythonHash(h)) /\ p >= h
      BY <2>3, <3>1
    <3>3. later = {} /\ after = P
      BY <3>2
    <3> QED
      BY <3>3 DEF pythonServer, getServer
  <2>4. CASE h # - Half
    <3>1. pythonHash(h) = IF h >= 0 THEN h ELSE h + 1
      BY <2>2, <2>4
    <3>2. ASSUME NEW p \in P PROVE p > pythonHash(h) <=> p >= h
      BY <1>1, <3>1
    <3>3. later = after
      BY <3>2
    <3> QED
      BY <3>3 DEF pythonServer, getServer
  <2> QED
    BY <2>3, <2>4
<1>2. RingInv => PythonMissesNeighbours
  BY <1>1, RingAssumption DEF RingInv, RingTypes, PythonMissesNeighbours, Circle
<1> QED
  BY <1>2, RingInvariant, PTL
=============================================================================
