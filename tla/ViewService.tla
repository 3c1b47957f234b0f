----------------------------- MODULE ViewService -----------------------------
(***************************************************************************)
(* The view service (prototype/view.cpp) and the life of the servers that  *)
(* register with it.  Two threads share its state: the one I/O thread of   *)
(* the RPC server, which runs addServer, addReplica and receivePing to the *)
(* end one after the other, and checkPings.  Each critical section of      *)
(* pingsMutex or viewMutex is one step, so the two threads interleave      *)
(* where the code releases its locks.                                      *)
(*                                                                         *)
(* Of views and hashToServer only the last elements are ever read; they    *)
(* are view and ring here.  The members of a view and of a replica group   *)
(* are vectors in the code, but they are only searched with find, drawn    *)
(* from at random or copied, so they are sets here.  Time is abstract: a   *)
(* ping is "fresh" until more than DEAD_TIME may have passed, then         *)
(* "stale"; "never" is the not_a_date_time that pings[*it2] inserts, which *)
(* no comparison finds older than anything.                                *)
(***************************************************************************)
EXTENDS Integers

CONSTANTS
  Servers,     \* addresses of cache servers
  Positions,   \* values gen() may return, a finite set of integers
  NoServer,    \* where no server is concerned
  MaxJoins     \* bound: how many times a server process is started

ASSUME ViewAssumption ==
  /\ Positions \subseteq Int
  /\ NoServer \notin Servers
  /\ MaxJoins \in Nat

VARIABLES
  viewNum,     \* number of the current view
  view,        \* views[viewNum]: the members
  ring,        \* hashToServer[viewNum]: replica groups by position
  pings,       \* last ping of the registered servers
  handler,     \* the I/O thread: the call it is in the middle of
  checker,     \* the checkPings thread
  proc,        \* the server processes: "down", "joining" or "up"
  known,       \* known[s]: number of the last view s was sent
  joins        \* server processes started so far

serviceVars == <<viewNum, view, ring>>
vars == <<serviceVars, pings, handler, checker, proc, known, joins>>

Idle == [call |-> "none", server |-> NoServer, answered |-> FALSE]
Asleep == [pc |-> "sleep", left |-> {}, num |-> 0, toRemove |-> {}]

NoGroups == [p \in {} |-> {}]
NoPings == [s \in {} |-> "fresh"]

RingServers == UNION {ring[p] : p \in DOMAIN ring}

(***************************************************************************)
(* pings[s] = t, which registers s if it is not there.                     *)
(***************************************************************************)
SetPing(s, t) ==
  [x \in DOMAIN pings \union {s} |-> IF x = s THEN t ELSE pings[x]]

(***************************************************************************)
(* The I/O thread sets the ping of s, under pingsMutex.  The listing of    *)
(* checkPings looks up and inserts in the same map without that mutex, so  *)
(* that while it runs the lookup may miss or the insertion be lost.        *)
(***************************************************************************)
SetFresh(s) ==
  \/ pings' = SetPing(s, "fresh")
  \/ checker.pc = "list" /\ UNCHANGED pings

Init ==
  /\ viewNum = 0 /\ view = {} /\ ring = NoGroups
  /\ pings = NoPings
  /\ handler = Idle /\ checker = Asleep
  /\ proc = [s \in Servers |-> "down"]
  /\ known = [s \in Servers |-> 0]
  /\ joins = 0

-----------------------------------------------------------------------------
(* Server processes: start, crash, and the passing of time.                *)

Start(s) ==
  /\ proc[s] = "down"
  /\ joins < MaxJoins
  /\ joins' = joins + 1
  /\ proc' = [proc EXCEPT ![s] = "joining"]
  /\ known' = [known EXCEPT ![s] = 0]
  /\ UNCHANGED <<serviceVars, pings, handler, checker>>

Crash(s) ==
  /\ proc[s] # "down"
  /\ proc' = [proc EXCEPT ![s] = "down"]
  /\ handler' = [handler EXCEPT !.answered = @ /\ handler.server # s]
  /\ UNCHANGED <<serviceVars, pings, checker, known, joins>>

Expire(s) ==
  /\ s \in DOMAIN pings /\ pings[s] = "fresh"
  /\ pings' = SetPing(s, "stale")
  /\ UNCHANGED <<serviceVars, handler, checker, proc, known, joins>>

-----------------------------------------------------------------------------
(* The I/O thread.  handler.answered tells that the process that made the  *)
(* call still waits for its answer: it is FALSE once that process crashes. *)

(***************************************************************************)
(* addServer, first section: the ping is recorded under pingsMutex.        *)
(***************************************************************************)
AddServer(s) ==
  /\ handler = Idle
  /\ proc[s] = "joining"
  /\ SetFresh(s)
  /\ handler' = [call |-> "addServer", server |-> s, answered |-> TRUE]
  /\ UNCHANGED <<serviceVars, checker, proc, known, joins>>

(***************************************************************************)
(* addServer, second section, under viewMutex: s becomes the only member   *)
(* of the group at the position gen() returns, whatever was there.  The    *)
(* call returns, and the process starts its threads.                       *)
(***************************************************************************)
Place(s, p) ==
  /\ view' = view \union {s}
  /\ ring' = [x \in DOMAIN ring \union {p} |-> IF x = p THEN {s} ELSE ring[x]]
  /\ viewNum' = viewNum + 1

AddToRing ==
  LET s == handler.server IN
  /\ handler.call = "addServer"
  /\ \E p \in Positions : Place(s, p)
  /\ handler' = Idle
  /\ proc' = [proc EXCEPT ![s] = IF handler.answered THEN "up" ELSE @]
  /\ UNCHANGED <<pings, checker, known, joins>>

(***************************************************************************)
(* addReplica, under viewMutex: s joins the first group with its master.   *)
(***************************************************************************)
WithMaster(master) == {p \in DOMAIN ring : master \in ring[p]}

JoinGroup(s, master) ==
  [p \in DOMAIN ring |->
     IF p \in WithMaster(master) /\ \A q \in WithMaster(master) : p <= q
     THEN ring[p] \union {s} ELSE ring[p]]

\* Mutant: the replica joins the group of its master but not the view.
AddReplicaOutsideView(s, master) ==
  /\ handler = Idle
  /\ proc[s] = "joining"
  /\ IF master \in view
     THEN /\ ring' = JoinGroup(s, master)
          /\ viewNum' = viewNum + 1
          /\ SetFresh(s)
          /\ UNCHANGED view
     ELSE UNCHANGED <<serviceVars, pings>>
  /\ proc' = [proc EXCEPT ![s] = "up"]
  /\ UNCHANGED <<handler, checker, known, joins>>

AddReplica(s, master) ==
  /\ handler = Idle
  /\ proc[s] = "joining"
  /\ IF master \in view
     THEN /\ view' = view \union {s}
          /\ ring' = JoinGroup(s, master)
          /\ viewNum' = viewNum + 1
          /\ SetFresh(s)
     ELSE UNCHANGED <<serviceVars, pings>>
  /\ proc' = [proc EXCEPT ![s] = "up"]
  /\ UNCHANGED <<handler, checker, known, joins>>

\* Mutant: an unregistered server is turned away without the view.
ReceivePingRegistered(s) ==
  /\ handler = Idle
  /\ proc[s] = "up"
  /\ s \in DOMAIN pings
  /\ SetFresh(s)
  /\ handler' = [call |-> "receivePing", server |-> s, answered |-> TRUE]
  /\ UNCHANGED <<serviceVars, checker, proc, known, joins>>

(***************************************************************************)
(* receivePing: only a registered server is refreshed; then getView.       *)
(***************************************************************************)
ReceivePing(s) ==
  /\ handler = Idle
  /\ proc[s] = "up"
  /\ IF s \in DOMAIN pings THEN SetFresh(s) ELSE UNCHANGED pings
  /\ handler' = [call |-> "receivePing", server |-> s, answered |-> TRUE]
  /\ UNCHANGED <<serviceVars, checker, proc, known, joins>>

GetView ==
  /\ handler.call = "receivePing"
  /\ known' = [known EXCEPT ![handler.server] =
                 IF handler.answered THEN viewNum ELSE @]
  /\ handler' = Idle
  /\ UNCHANGED <<serviceVars, pings, checker, proc, joins>>

-----------------------------------------------------------------------------
(* The checkPings thread.                                                  *)

(***************************************************************************)
(* The listing of the ring, without a lock: pings[*it2] inserts a default  *)
(* entry for every server of the ring that has none.  checker.left are     *)
(* those it has not come to, checker.num is the view it started in.        *)
(***************************************************************************)
ListRing ==
  /\ checker.pc = "sleep"
  /\ checker' = [checker EXCEPT !.pc = "list", !.left = RingServers \ DOMAIN pings,
                               !.num = viewNum]
  /\ UNCHANGED <<serviceVars, pings, handler, proc, known, joins>>

(***************************************************************************)
(* The insertion may be lost to one of addServer.                          *)
(***************************************************************************)
ListServer(s) ==
  /\ checker.pc = "list" /\ s \in checker.left
  /\ \/ pings' = IF s \in DOMAIN pings THEN pings ELSE SetPing(s, "never")
     \/ handler.call = "addServer" /\ UNCHANGED pings
  /\ checker' = [checker EXCEPT !.left = @ \ {s}]
  /\ UNCHANGED <<serviceVars, handler, proc, known, joins>>

(***************************************************************************)
(* The end of the loop is looked up anew in each iteration.  When the view *)
(* has changed it is the end of another map, and the maps may have moved:  *)
(* the loop may stop anywhere.  It may also crash the view service or run  *)
(* on for ever, which ends what the thread does.                           *)
(***************************************************************************)
EndListing ==
  /\ checker.pc = "list"
  /\ checker.left = {} \/ viewNum # checker.num
  /\ checker' = [Asleep EXCEPT !.pc = "scan"]
  /\ UNCHANGED <<serviceVars, pings, handler, proc, known, joins>>

Stale == {s \in DOMAIN pings : pings[s] = "stale"}

\* Mutant: all the stale servers are erased, one of them is collected.
ScanCollectsOne ==
  /\ checker.pc = "scan"
  /\ IF Stale = {}
     THEN checker' = Asleep /\ UNCHANGED pings
     ELSE \E s \in Stale :
            /\ checker' = [Asleep EXCEPT !.pc = "remove", !.toRemove = {s}]
            /\ pings' = [x \in DOMAIN pings \ Stale |-> pings[x]]
  /\ UNCHANGED <<serviceVars, handler, proc, known, joins>>

(***************************************************************************)
(* The scan, under pingsMutex.  The loop erases the element its iterator   *)
(* stands on and then advances the iterator, which is undefined: it may    *)
(* meet all, or only some, of the other stale servers.  It may also crash  *)
(* the view service, which ends the behaviour.                             *)
(***************************************************************************)
Scan ==
  /\ checker.pc = "scan"
  /\ IF Stale = {}
     THEN checker' = Asleep /\ UNCHANGED pings
     ELSE \E R \in (SUBSET Stale) \ {{}} :
            /\ checker' = [Asleep EXCEPT !.pc = "remove", !.toRemove = R]
            /\ pings' = [s \in DOMAIN pings \ R |-> pings[s]]
  /\ UNCHANGED <<serviceVars, handler, proc, known, joins>>

\* Mutant: every position is copied to the new ring, emptied groups too.
RingWithoutKeepEmpty(R) == [p \in DOMAIN ring |-> ring[p] \ R]

(***************************************************************************)
(* The ring without the servers R: a position whose group becomes empty is *)
(* left out.                                                               *)
(***************************************************************************)
RingWithout(R) == [p \in {q \in DOMAIN ring : ring[q] \ R # {}} |-> ring[p] \ R]

\* Mutant: the list of servers to remove outlives the iteration.
RemoveServersKeepList ==
  LET R == checker.toRemove IN
  /\ checker.pc = "remove"
  /\ view' = view \ R
  /\ ring' = RingWithout(R)
  /\ viewNum' = viewNum + 1
  /\ checker' = [checker EXCEPT !.pc = "sleep"]
  /\ UNCHANGED <<pings, handler, proc, known, joins>>

\* Mutant: the new view replaces the current one under its number.
RemoveServersInPlace ==
  LET R == checker.toRemove IN
  /\ checker.pc = "remove"
  /\ view' = view \ R
  /\ ring' = RingWithout(R)
  /\ checker' = Asleep
  /\ UNCHANGED <<viewNum, pings, handler, proc, known, joins>>

(***************************************************************************)
(* The new view, under viewMutex: the servers collected by the scan leave  *)
(* the view and the ring as they are now.                                  *)
(***************************************************************************)
RemoveServers ==
  LET R == checker.toRemove IN
  /\ checker.pc = "remove"
  /\ view' = view \ R
  /\ ring' = RingWithout(R)
  /\ viewNum' = viewNum + 1
  /\ checker' = Asleep
  /\ UNCHANGED <<pings, handler, proc, known, joins>>

-----------------------------------------------------------------------------
Next ==
  \/ \E s \in Servers :
       \/ Start(s) \/ Crash(s) \/ Expire(s)
       \/ AddServer(s) \/ ReceivePing(s) \/ ListServer(s)
       \/ \E m \in Servers \ {s} : AddReplica(s, m)
  \/ AddToRing \/ GetView
  \/ ListRing \/ EndListing \/ Scan \/ RemoveServers

Spec == Init /\ [][Next]_vars

CheckPings ==
  ListRing \/ (\E s \in Servers : ListServer(s)) \/ EndListing \/ Scan \/ RemoveServers

(***************************************************************************)
(* Both threads keep running, a running server pings every PING_INTERVAL,  *)
(* and a ping that is not repeated becomes old.                            *)
(***************************************************************************)
Fairness ==
  /\ WF_vars(AddToRing \/ GetView)
  /\ WF_vars(CheckPings)
  /\ \A s \in Servers :
       /\ SF_vars(ReceivePing(s))
       /\ WF_vars(proc[s] = "down" /\ Expire(s))

FairSpec == Spec /\ Fairness

-----------------------------------------------------------------------------
(* Properties.                                                             *)

(***************************************************************************)
(* The variables have their types, and the fields of a thread are set only *)
(* where it is in the middle of something.                                 *)
(***************************************************************************)
TypeOK ==
  /\ viewNum \in Nat
  /\ view \subseteq Servers
  /\ DOMAIN ring \subseteq Positions
  /\ \A p \in DOMAIN ring : ring[p] \subseteq Servers
  /\ DOMAIN pings \subseteq Servers
  /\ \A s \in DOMAIN pings : pings[s] \in {"fresh", "stale", "never"}
  /\ handler.call \in {"none", "addServer", "receivePing"}
  /\ handler.server \in Servers \union {NoServer}
  /\ handler.call # "none" => handler.server \in Servers
  /\ handler.answered \in BOOLEAN
  /\ checker.pc \in {"sleep", "list", "scan", "remove"}
  /\ checker.left \subseteq Servers /\ checker.num \in Nat
  /\ checker.toRemove \subseteq Servers
  /\ (checker.pc = "remove") <=> (checker.toRemove # {})
  /\ proc \in [Servers -> {"down", "joining", "up"}]
  /\ known \in [Servers -> Nat]
  /\ joins \in 0 .. MaxJoins

(***************************************************************************)
(* No position of the ring has an empty group: getServerID of the clients  *)
(* divides by the size of the group it is sent to.                         *)
(***************************************************************************)
GroupsNonEmpty == \A p \in DOMAIN ring : ring[p] # {}

(***************************************************************************)
(* Every server that requests are routed to is a member of the view, so    *)
(* that addReplica accepts it as a master and statistics count it, through *)
(* any overlap of joins and removals.                                      *)
(***************************************************************************)
RingWithinView == RingServers \subseteq view

(***************************************************************************)
(* The view number identifies the view: no two views of a run have the     *)
(* same number, so checkServer and antiEntropy may take equal numbers as   *)
(* equal views, and no answer of the service is older than one it has sent *)
(* to the same process.                                                    *)
(***************************************************************************)
NumberIdentifiesView ==
  [][/\ <<view, ring>>' # <<view, ring>> => viewNum' > viewNum
     /\ \A s \in Servers : proc[s] # "down" => known'[s] >= known[s]]_vars

(***************************************************************************)
(* A server that dies after it was registered leaves the ring, unless it   *)
(* is started again.                                                       *)
(***************************************************************************)
RegisteredDeadLeave ==
  \A s \in Servers :
    (proc[s] = "down" /\ s \in DOMAIN pings /\ pings[s] # "never" /\ handler = Idle)
      ~> (s \notin RingServers \/ proc[s] # "down")

(***************************************************************************)
(* Every running server learns of the view there is, or of a later one.    *)
(***************************************************************************)
ServersLearn ==
  \A s \in Servers, n \in 1 .. 2 :
    (proc[s] = "up" /\ viewNum = n) ~> (proc[s] # "up" \/ known[s] >= n)

(***************************************************************************)
(* report/blank.tex: "We update the view if a new server joins the         *)
(* configuration or if a server dies".  When neither thread is in the      *)
(* middle of a change, every server that is registered for pings, and so   *)
(* has joined and is not known to be dead, is a member of the view.        *)
(***************************************************************************)
RegisteredInView ==
  handler = Idle /\ checker.pc = "sleep" => DOMAIN pings \subseteq view

(***************************************************************************)
(* report/blank.tex: "We update the view if a new server joins the         *)
(* configuration or if a server dies (i.e., it stops sending pings to the  *)
(* viewservice)."  A dead server leaves the ring.                          *)
(***************************************************************************)
DeadLeave ==
  \A s \in Servers :
    (proc[s] = "down" /\ s \in RingServers) ~> (s \notin RingServers \/ proc[s] # "down")

(***************************************************************************)
(* report/blank.tex: "Our viewservice keeps track of which servers are     *)
(* currently alive, and their locations in the consistent hashing ring."   *)
(* A server that keeps running and pinging is in the ring, or comes back   *)
(* to it after it was removed because its pings were late.                 *)
(***************************************************************************)
AliveListed ==
  \A s \in Servers :
    (proc[s] = "up" /\ s \in checker.toRemove)
      ~> (proc[s] # "up" \/ (s \in RingServers /\ s \notin checker.toRemove))
=============================================================================
