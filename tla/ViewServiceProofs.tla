-------------------------- MODULE ViewServiceProofs --------------------------
(***************************************************************************)
(* Proofs about ViewService: the invariants of the ring hold, and the view *)
(* number identifies the view, for every set of servers and positions and  *)
(* any number of joins, crashes and false suspicions.                      *)
(***************************************************************************)
EXTENDS ViewService, TLAPS

(***************************************************************************)
(* The types are preserved by every step of the I/O thread, of checkPings  *)
(* and of the server processes.                                            *)
(***************************************************************************)
LEMMA TypeOKStep == TypeOK /\ [Next]_vars => TypeOK'
<1> SUFFICES ASSUME TypeOK, [Next]_vars PROVE TypeOK'
  OBVIOUS
<1> USE ViewAssumption DEF TypeOK, serviceVars, Idle, Asleep, SetPing, SetFresh
<1>1. ASSUME NEW s \in Servers, Start(s) PROVE TypeOK'
  BY <1>1 DEF Start
<1>2. ASSUME NEW s \in Servers, Crash(s) PROVE TypeOK'
  BY <1>2 DEF Crash
<1>3. ASSUME NEW s \in Servers, Expire(s) PROVE TypeOK'
  BY <1>3 DEF Expire
<1>4. ASSUME NEW s \in Servers, AddServer(s) PROVE TypeOK'
  BY <1>4 DEF AddServer
<1>5. ASSUME NEW s \in Servers, ReceivePing(s) PROVE TypeOK'
  BY <1>5 DEF ReceivePing
<1>6. ASSUME NEW s \in Servers, NEW m \in Servers, AddReplica(s, m) PROVE TypeOK'
  BY <1>6 DEF AddReplica, JoinGroup, WithMaster
<1>7. CASE AddToRing
  BY <1>7 DEF AddToRing, Place
<1>8. CASE GetView
  BY <1>8 DEF GetView
<1>9. CASE ListRing
  BY <1>9 DEF ListRing, RingServers
<1>13. ASSUME NEW s \in Servers, ListServer(s) PROVE TypeOK'
  BY <1>13 DEF ListServer
<1>14. CASE EndListing
  BY <1>14 DEF EndListing
<1>10. CASE Scan
  <2>1. CASE Stale = {}
    BY <1>10, <2>1 DEF Scan
  <2>2. CASE Stale # {}
    <3>1. PICK R \in (SUBSET Stale) \ {{}} :
             /\ checker' = [Asleep EXCEPT !.pc = "remove", !.toRemove = R]
             /\ pings' = [s \in DOMAIN pings \ R |-> pings[s]]
      BY <1>10, <2>2 DEF Scan
    <3>2. R \subseteq Servers /\ R # {}
      BY DEF Stale
    <3> QED
      BY <1>10, <3>1, <3>2 DEF Scan
  <2> QED
    BY <2>1, <2>2
<1>11. CASE RemoveServers
  BY <1>11 DEF RemoveServers, RingWithout
<1>12. CASE UNCHANGED vars
  BY <1>12 DEF vars
<1> QED
  BY <1>1, <1>2, <1>3, <1>4, <1>5, <1>6, <1>7, <1>8, <1>9, <1>10, <1>11, <1>12,
     <1>13, <1>14 DEF Next

(***************************************************************************)
(* The variables of the view service always have their types.              *)
(***************************************************************************)
THEOREM TypeCorrect == Spec => []TypeOK
<1>1. Init => TypeOK
  BY ViewAssumption DEF Init, TypeOK, Idle, Asleep, NoGroups, NoPings
<1> QED
  BY <1>1, TypeOKStep, PTL DEF Spec

(***************************************************************************)
(* No group of the ring is empty and every server of the ring is a member  *)
(* of the view.  Both parts are needed together with the types: a group    *)
(* can only become empty, or a member unknown, when servers are removed,   *)
(* and then view and ring lose the same servers.                           *)
(***************************************************************************)
RingOK == GroupsNonEmpty /\ RingWithinView

(***************************************************************************)
(* Joins and removals keep view and ring in agreement.                     *)
(***************************************************************************)
LEMMA RingOKStep == TypeOK /\ RingOK /\ [Next]_vars => RingOK'
<1> SUFFICES ASSUME TypeOK, RingOK, [Next]_vars PROVE RingOK'
  OBVIOUS
<1> USE DEF RingOK, GroupsNonEmpty, RingWithinView, RingServers
<1>1. CASE UNCHANGED <<view, ring>>
  BY <1>1
<1>2. ASSUME NEW s \in Servers, NEW m \in Servers, AddReplica(s, m) PROVE RingOK'
  <2>1. CASE m \notin view
    BY <1>2, <2>1 DEF AddReplica, serviceVars
  <2>2. CASE m \in view
    <3>1. view' = view \union {s} /\ ring' = JoinGroup(s, m)
      BY <1>2, <2>2 DEF AddReplica
    <3>2. \A p \in DOMAIN ring : JoinGroup(s, m)[p] \in {ring[p], ring[p] \union {s}}
      BY DEF JoinGroup
    <3>3. DOMAIN JoinGroup(s, m) = DOMAIN ring
      BY DEF JoinGroup
    <3> QED
      BY <3>1, <3>2, <3>3
  <2> QED
    BY <2>1, <2>2
<1>3. CASE AddToRing
  <2>1. PICK p \in Positions : Place(handler.server, p)
    BY <1>3 DEF AddToRing
  <2> QED
    BY <2>1 DEF Place
<1>4. CASE RemoveServers
  <2>1. \A p \in DOMAIN ring' : p \in DOMAIN ring /\ ring'[p] = ring[p] \ checker.toRemove /\ ring'[p] # {}
    BY <1>4 DEF RemoveServers, RingWithout
  <2>2. view' = view \ checker.toRemove
    BY <1>4 DEF RemoveServers
  <2> QED
    BY <2>1, <2>2
<1>5. UNCHANGED <<view, ring>> \/ AddToRing \/ RemoveServers
        \/ \E s \in Servers, m \in Servers : AddReplica(s, m)
  BY DEF Next, vars, serviceVars, Start, Crash, Expire, AddServer, ReceivePing,
         GetView, ListRing, ListServer, EndListing, Scan
<1> QED
  BY <1>1, <1>2, <1>3, <1>4, <1>5

(***************************************************************************)
(* Requests are only ever routed to non-empty groups of members of the     *)
(* view, whatever joins and removals overlap.                              *)
(***************************************************************************)
THEOREM RingCorrect == Spec => [](GroupsNonEmpty /\ RingWithinView)
<1>1. Init => RingOK
  BY DEF Init, RingOK, GroupsNonEmpty, RingWithinView, RingServers, NoGroups
<1>2. RingOK => GroupsNonEmpty /\ RingWithinView
  BY DEF RingOK
<1> QED
  BY <1>1, <1>2, TypeCorrect, RingOKStep, PTL DEF Spec

(***************************************************************************)
(* No position of the ring ever has an empty group, so the clients never   *)
(* divide by the size of one.                                              *)
(***************************************************************************)
THEOREM GroupsCorrect == Spec => []GroupsNonEmpty
BY RingCorrect, PTL

(***************************************************************************)
(* No process has been sent a view number beyond the current one.          *)
(***************************************************************************)
KnownBehind == \A s \in Servers : known[s] <= viewNum

(***************************************************************************)
(* The view number never falls, and grows with every new view.             *)
(***************************************************************************)
LEMMA ViewAdvances ==
  ASSUME TypeOK, Next
  PROVE  /\ viewNum' >= viewNum
         /\ <<view, ring>>' # <<view, ring>> => viewNum' > viewNum
<1>1. CASE UNCHANGED serviceVars
  BY <1>1 DEF serviceVars, TypeOK
<1>2. CASE viewNum' = viewNum + 1
  BY <1>2 DEF TypeOK
<1>3. \A s \in Servers, m \in Servers :
        AddReplica(s, m) => UNCHANGED serviceVars \/ viewNum' = viewNum + 1
  BY DEF AddReplica
<1>4. AddToRing \/ RemoveServers => viewNum' = viewNum + 1
  BY DEF AddToRing, Place, RemoveServers
<1>5. UNCHANGED serviceVars \/ viewNum' = viewNum + 1
  BY <1>3, <1>4 DEF Next, Start, Crash, Expire, AddServer, ReceivePing, GetView,
                    ListRing, ListServer, EndListing, Scan
<1> QED
  BY <1>1, <1>2, <1>5

(***************************************************************************)
(* What a process knows of the view number changes when it starts again,   *)
(* and when it is answered.                                                *)
(***************************************************************************)
LEMMA KnownMoves ==
  ASSUME TypeOK, Next
  PROVE  \/ UNCHANGED known
         \/ \E s \in Servers : proc[s] = "down" /\ known' = [known EXCEPT ![s] = 0]
         \/ \E s \in Servers : /\ known' = [known EXCEPT ![s] = viewNum]
                              /\ UNCHANGED viewNum
<1>1. CASE GetView
  <2>1. handler.server \in Servers
    BY <1>1 DEF GetView, TypeOK
  <2>2. CASE handler.answered
    BY <1>1, <2>1, <2>2 DEF GetView, serviceVars
  <2>3. CASE ~ handler.answered
    BY <1>1, <2>1, <2>3 DEF GetView, TypeOK
  <2> QED
    BY <2>2, <2>3
<1>2. CASE ~ GetView
  BY <1>2 DEF Next, Start, Crash, Expire, AddServer, ReceivePing, AddReplica, AddToRing,
         ListRing, ListServer, EndListing, Scan, RemoveServers
<1> QED
  BY <1>1, <1>2

(***************************************************************************)
(* No step takes a process beyond the current view number.                 *)
(***************************************************************************)
LEMMA KnownBehindStep == TypeOK /\ KnownBehind /\ [Next]_vars => KnownBehind'
<1> SUFFICES ASSUME TypeOK, KnownBehind, [Next]_vars PROVE KnownBehind'
  OBVIOUS
<1>1. CASE UNCHANGED vars
  BY <1>1 DEF vars, serviceVars, KnownBehind
<1>2. CASE Next
  <2>1. viewNum' \in Nat /\ viewNum \in Nat /\ known \in [Servers -> Nat]
    BY TypeOKStep DEF TypeOK
  <2> QED
    BY <1>2, <2>1, ViewAdvances, KnownMoves DEF KnownBehind
<1> QED
  BY <1>1, <1>2

(***************************************************************************)
(* Two different views never share a number, and the service never answers *)
(* a process with an older view than before.                               *)
(***************************************************************************)
THEOREM NumberTheorem == Spec => NumberIdentifiesView
<1>1. Init => KnownBehind
  <2> SUFFICES ASSUME Init, NEW s \in Servers PROVE known[s] <= viewNum
    BY DEF KnownBehind
  <2>1. known[s] = 0 /\ viewNum = 0
    BY DEF Init
  <2> QED
    BY <2>1
<1>2. TypeOK /\ KnownBehind /\ [Next]_vars =>
        [/\ <<view, ring>>' # <<view, ring>> => viewNum' > viewNum
         /\ \A s \in Servers : proc[s] # "down" => known'[s] >= known[s]]_vars
  <2> SUFFICES ASSUME TypeOK, KnownBehind, Next
               PROVE  /\ <<view, ring>>' # <<view, ring>> => viewNum' > viewNum
                      /\ \A s \in Servers : proc[s] # "down" => known'[s] >= known[s]
    OBVIOUS
  <2>1. known \in [Servers -> Nat] /\ viewNum \in Nat
    BY DEF TypeOK
  <2>2. \A s \in Servers : proc[s] # "down" => known'[s] >= known[s]
    BY <2>1, KnownMoves DEF KnownBehind
  <2> QED
    BY <2>2, ViewAdvances
<1> QED
  BY <1>1, <1>2, TypeCorrect, KnownBehindStep, PTL DEF Spec, NumberIdentifiesView
=============================================================================
