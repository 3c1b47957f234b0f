------------------------------- MODULE Routing -------------------------------
(***************************************************************************)
(* How a request finds its server: the clients (prototype/client.h and     *)
(* client.py, SimpleBlog/src/CacheClient.java) with their cached views and *)
(* checkServer of prototype/server.cpp, while views change, servers crash  *)
(* and start again and the view service is out of reach for a while.       *)
(*                                                                         *)
(* One key is followed: a view is the key's replica group, empty when the  *)
(* ring is.  What the server's threads do to each other in checkServer is  *)
(* in CacheServer.tla; here it is one step.                                *)
(***************************************************************************)
EXTENDS Integers, Sequences

CONSTANTS
  Servers,
  Clients,      \* C++ and Java clients
  Pythons,      \* Python clients
  MaxViews      \* bound: views made

ASSUME RoutingAssumption == Clients \cap Pythons = {} /\ MaxViews \in Nat

AllClients == Clients \union Pythons

VARIABLES
  views,        \* views[n]: the key's group in the view with number n
  alive,        \* servers that run
  reachable,    \* can the view service be reached?
  currentView,  \* number of the view each server is at
  client        \* clients: where they are, reply_.viewNum, server, last result

vars == <<views, alive, reachable, currentView, client>>

Group(n) == IF n = 0 THEN {} ELSE views[n]

(***************************************************************************)
(* The constructor of a client gets a view, or the client does not start.  *)
(***************************************************************************)
Init ==
  /\ views = <<>> /\ alive = Servers /\ reachable = TRUE
  /\ currentView = [s \in Servers |-> 0]
  /\ client = [c \in AllClients |-> [pc |-> "idle", view |-> 0, result |-> "none"]]

-----------------------------------------------------------------------------
(* The surroundings.                                                       *)

NewView(g) ==
  /\ Len(views) < MaxViews
  /\ views' = Append(views, g)
  /\ UNCHANGED <<alive, reachable, currentView, client>>

Crash(s) ==
  /\ s \in alive
  /\ alive' = alive \ {s}
  /\ UNCHANGED <<views, reachable, currentView, client>>

Start(s) ==
  /\ s \notin alive
  /\ alive' = alive \union {s}
  /\ currentView' = [currentView EXCEPT ![s] = 0]
  /\ UNCHANGED <<views, reachable, client>>

ViewServiceLink ==
  /\ reachable' = ~ reachable
  /\ UNCHANGED <<views, alive, currentView, client>>

Ping(s) ==
  /\ s \in alive /\ reachable
  /\ currentView' = [currentView EXCEPT ![s] = Len(views)]
  /\ UNCHANGED <<views, alive, reachable, client>>

-----------------------------------------------------------------------------
(* put and get of a client.                                                *)

\* Mutant: a failed connection does not make the clients get a new view.
RefreshesWrong(c, r) == r = "wrong"

(***************************************************************************)
(* The call ends with result r.  The C++ and Java clients get a new view   *)
(* after every failure, the Python client after WRONG_SERVER only.         *)
(***************************************************************************)
Refreshes(c, r) == IF c \in Pythons THEN r = "wrong" ELSE r # "ok"

Ends(c, r) ==
  client' = [client EXCEPT ![c].result = r, ![c].pc = IF Refreshes(c, r) THEN "refresh" ELSE "idle"]

\* Mutant: a server that is behind the client does not ask for its view.
LearnsNever(s, n) == currentView[s]

(***************************************************************************)
(* checkServer at server s for a request with view number n: the view the  *)
(* server is at afterwards, and whether the request is accepted.           *)
(***************************************************************************)
Learns(s, n) == IF n > currentView[s] THEN Len(views) ELSE currentView[s]

Accepts(s, n) == n = Learns(s, n) /\ s \in Group(n)

(***************************************************************************)
(* One put or get: no server is in the ring; the server s, drawn from the  *)
(* group, does not answer; s has to ask for its view and cannot; it        *)
(* answers.                                                                *)
(***************************************************************************)
NoServer(c) ==
  /\ client[c].pc = "idle" /\ Group(client[c].view) = {}
  /\ Ends(c, "failed")
  /\ UNCHANGED <<views, alive, reachable, currentView>>

NoConnection(c) ==
  /\ client[c].pc = "idle" /\ \E s \in Group(client[c].view) : s \notin alive
  /\ Ends(c, "failed")
  /\ UNCHANGED <<views, alive, reachable, currentView>>

CheckFails(c) ==
  /\ client[c].pc = "idle" /\ ~ reachable
  /\ \E s \in Group(client[c].view) \cap alive : client[c].view > currentView[s]
  /\ Ends(c, "failed")
  /\ UNCHANGED <<views, alive, reachable, currentView>>

Query(c) ==
  LET n == client[c].view IN
  /\ client[c].pc = "idle"
  /\ \E s \in Group(n) \cap alive :
       /\ n > currentView[s] => reachable
       /\ currentView' = [currentView EXCEPT ![s] = Learns(s, n)]
       /\ Ends(c, IF Accepts(s, n) THEN "ok" ELSE "wrong")
  /\ UNCHANGED <<views, alive, reachable>>

(***************************************************************************)
(* getView: on failure the client keeps the view it has.                   *)
(***************************************************************************)
getView(c) ==
  /\ client[c].pc = "refresh"
  /\ client' = [client EXCEPT ![c].pc = "idle", ![c].view = IF reachable THEN Len(views) ELSE @]
  /\ UNCHANGED <<views, alive, reachable, currentView>>

-----------------------------------------------------------------------------
Request(c) == NoServer(c) \/ NoConnection(c) \/ CheckFails(c) \/ Query(c)

Next ==
  \/ \E g \in SUBSET Servers : NewView(g)
  \/ \E s \in Servers : Crash(s) \/ Start(s) \/ Ping(s)
  \/ ViewServiceLink
  \/ \E c \in AllClients : Request(c) \/ getView(c)

Spec == Init /\ [][Next]_vars

(***************************************************************************)
(* A client goes on with its work (stress.cpp, main of client.py); nothing *)
(* is assumed of the servers and their pings.                              *)
(***************************************************************************)
FairSpec ==
  /\ Spec
  /\ \A c \in AllClients : WF_vars(Request(c)) /\ WF_vars(getView(c))

-----------------------------------------------------------------------------
(* Properties.                                                             *)

(***************************************************************************)
(* The group of the newest view runs and the view service is in reach.     *)
(***************************************************************************)
Healthy ==
  /\ reachable /\ views # <<>>
  /\ Group(Len(views)) # {} /\ Group(Len(views)) \subseteq alive

(***************************************************************************)
(* A client with the newest view is served whatever view the server it     *)
(* queries is at: the request makes the server catch up.                   *)
(***************************************************************************)
NewestViewServed ==
  [][\A c \in AllClients :
       Healthy /\ client[c].view = Len(views) /\ Request(c) => client'[c].result = "ok"]_vars

(***************************************************************************)
(* Once the newest group stays up, every request of a C++ or Java client   *)
(* succeeds after finitely many failures, whatever it had cached.          *)
(***************************************************************************)
Recovers(c) == (<>[]Healthy) => <>[](client[c].result = "ok")

ClientsRecover == \A c \in Clients : Recovers(c)

(***************************************************************************)
(* report/blank.tex: "If we query the wrong server, we refresh our view by *)
(* querying the viewservice again."  The same for the Python client.       *)
(***************************************************************************)
PythonsRecover == \A c \in Pythons : Recovers(c)
=============================================================================
