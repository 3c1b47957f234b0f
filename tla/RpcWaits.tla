------------------------------ MODULE RpcWaits ------------------------------
(***************************************************************************)
(* Who waits for whom.  The view service and every cache server handle     *)
(* their requests with one I/O thread (TNonblockingServer without a thread *)
(* manager), and some handlers call another process and wait for it:       *)
(* checkServer calls receivePing, getStatistics of the view service calls  *)
(* getStatistics of every server.  The connections (ServerConnection.h)    *)
(* have no timeouts.  Other callers are the ping and anti-entropy threads, *)
(* the clients, and monitor.cpp.  The threads of a server share hashMutex. *)
(*                                                                         *)
(* Data, views and failures are left to the other modules.                 *)
(***************************************************************************)
EXTENDS Integers, Sequences

CONSTANTS
  VS,           \* the view service
  Servers,      \* cache servers
  Clients,
  Monitors

ASSUME WaitsAssumption == VS \notin Servers

Processes == Servers \union {VS}
Of(kind, S) == {<<kind, x>> : x \in S}
Io(p) == <<"io", p>>
Threads ==
  Of("io", Processes) \union Of("ping", Servers) \union Of("ae", Servers)
    \union Of("client", Clients) \union Of("monitor", Monitors)

VARIABLES
  pc,           \* where each thread is
  queue,        \* queue[p]: threads waiting for an answer of p, in order
  hashMutex,    \* hashMutex[s]: the thread that holds it, or None
  left          \* servers getStatistics of the view service has still to call

vars == <<pc, queue, hashMutex, left>>

None == <<"none">>

Init ==
  /\ pc = [t \in Threads |-> "idle"]
  /\ queue = [p \in Processes |-> <<>>]
  /\ hashMutex = [s \in Servers |-> None]
  /\ left = {}

(***************************************************************************)
(* Thread t calls p and waits.                                             *)
(***************************************************************************)
Call(t, p) ==
  /\ queue' = [queue EXCEPT ![p] = Append(@, t)]
  /\ pc' = [pc EXCEPT ![t] = "wait"]

(***************************************************************************)
(* The I/O thread of p answers the request it is at.                       *)
(***************************************************************************)
Reply(p) ==
  /\ queue' = [queue EXCEPT ![p] = Tail(@)]
  /\ pc' = [pc EXCEPT ![Head(queue[p])] = "answered", ![Io(p)] = "idle"]

Handles(p, kinds) == pc[Io(p)] = "idle" /\ queue[p] # <<>> /\ Head(queue[p])[1] \in kinds

Lock(t, s, from, to) ==
  /\ pc[t] = from /\ hashMutex[s] = None
  /\ hashMutex' = [hashMutex EXCEPT ![s] = t]
  /\ pc' = [pc EXCEPT ![t] = to]
  /\ UNCHANGED <<queue, left>>

Unlock(s) == hashMutex' = [hashMutex EXCEPT ![s] = None]

Goes(t, from, to) == pc[t] = from /\ pc' = [pc EXCEPT ![t] = to]

-----------------------------------------------------------------------------
(* The view service.                                                       *)

getView ==
  /\ Handles(VS, {"ping", "io"})
  /\ Reply(VS)
  /\ UNCHANGED <<hashMutex, left>>

(***************************************************************************)
(* getStatistics calls the servers one after the other.                    *)
(***************************************************************************)
getStatistics ==
  /\ Handles(VS, {"monitor"})
  /\ left' = Servers
  /\ pc' = [pc EXCEPT ![Io(VS)] = "answered"]
  /\ UNCHANGED <<queue, hashMutex>>

\* Mutant: the loop over the servers does not advance.
CallNextSame ==
  /\ pc[Io(VS)] = "answered"
  /\ \/ \E s \in left : Call(Io(VS), s) /\ UNCHANGED left
     \/ left = {} /\ Reply(VS) /\ UNCHANGED left
  /\ UNCHANGED hashMutex

CallNext ==
  /\ pc[Io(VS)] = "answered"
  /\ \/ \E s \in left : Call(Io(VS), s) /\ left' = left \ {s}
     \/ left = {} /\ Reply(VS) /\ UNCHANGED left
  /\ UNCHANGED hashMutex

-----------------------------------------------------------------------------
(* The I/O thread of a server.                                             *)

(***************************************************************************)
(* put and get of a client: refused, accepted, or after a call of          *)
(* receivePing.  Then cleanHash may run, and the request is refused or     *)
(* goes on to hashMutex.                                                   *)
(***************************************************************************)
checkServer(s) ==
  /\ Handles(s, {"client"})
  /\ \/ Reply(s)
     \/ Goes(Io(s), "idle", "lock") /\ UNCHANGED queue
     \/ Call(Io(s), VS)
  /\ UNCHANGED <<hashMutex, left>>

Refreshed(s) ==
  /\ pc[Io(s)] = "answered"
  /\ \/ Reply(s)
     \/ \E to \in {"clean", "lock"} : Goes(Io(s), "answered", to) /\ UNCHANGED queue
  /\ UNCHANGED <<hashMutex, left>>

Cleaned(s) ==
  /\ pc[Io(s)] = "cleaning" /\ Unlock(s)
  /\ Reply(s) \/ (Goes(Io(s), "cleaning", "lock") /\ UNCHANGED queue)
  /\ UNCHANGED left

antiEntropy(s) ==
  /\ Handles(s, {"ae"})
  /\ Reply(s) \/ (Goes(Io(s), "idle", "lock") /\ UNCHANGED queue)
  /\ UNCHANGED <<hashMutex, left>>

serverStatistics(s) ==
  /\ Handles(s, {"io"})
  /\ Reply(s)
  /\ UNCHANGED <<hashMutex, left>>

Handled(s) ==
  /\ pc[Io(s)] = "locked" /\ Unlock(s)
  /\ Reply(s)
  /\ UNCHANGED left

IoLocks(s) == Lock(Io(s), s, "clean", "cleaning") \/ Lock(Io(s), s, "lock", "locked")

-----------------------------------------------------------------------------
(* The other threads of a server.                                          *)

pingViewService(s) ==
  LET t == <<"ping", s>> IN
  \/ pc[t] = "idle" /\ Call(t, VS) /\ UNCHANGED <<hashMutex, left>>
  \/ Goes(t, "answered", "idle") /\ UNCHANGED <<queue, hashMutex, left>>
  \/ Lock(t, s, "answered", "cleaning")

PingUnlocks(s) ==
  /\ Goes(<<"ping", s>>, "cleaning", "idle") /\ Unlock(s)
  /\ UNCHANGED <<queue, left>>

AeLocks(s) ==
  \/ Lock(<<"ae", s>>, s, "idle", "collect")
  \/ Lock(<<"ae", s>>, s, "answered", "apply")

\* Mutant: antiEntropyHandler keeps hashMutex during the call.
AeCallsLocked(s) ==
  /\ pc[<<"ae", s>>] = "collect"
  /\ \/ \E d \in Servers \ {s} : Call(<<"ae", s>>, d) /\ UNCHANGED hashMutex
     \/ Goes(<<"ae", s>>, "collect", "idle") /\ Unlock(s) /\ UNCHANGED queue
  /\ UNCHANGED left

(***************************************************************************)
(* antiEntropyHandler has collected its entries and calls a replica; or    *)
(* there are no diffs.                                                     *)
(***************************************************************************)
AeCalls(s) ==
  /\ pc[<<"ae", s>>] = "collect" /\ Unlock(s)
  /\ \/ \E d \in Servers \ {s} : Call(<<"ae", s>>, d)
     \/ Goes(<<"ae", s>>, "collect", "idle") /\ UNCHANGED queue
  /\ UNCHANGED left

AeUnlocks(s) ==
  /\ Goes(<<"ae", s>>, "apply", "idle") /\ Unlock(s)
  /\ UNCHANGED <<queue, left>>

-----------------------------------------------------------------------------
(* Callers from outside.                                                   *)

Outside(t, p) ==
  /\ \/ pc[t] = "idle" /\ Call(t, p)
     \/ Goes(t, "answered", "idle") /\ UNCHANGED queue
  /\ UNCHANGED <<hashMutex, left>>

ServerIo(s) ==
  checkServer(s) \/ Refreshed(s) \/ Cleaned(s) \/ antiEntropy(s) \/ serverStatistics(s) \/ Handled(s)

ViewIo == getView \/ getStatistics \/ CallNext

Releases(s) == PingUnlocks(s) \/ AeCalls(s) \/ AeUnlocks(s)

Next ==
  \/ ViewIo
  \/ \E s \in Servers :
       ServerIo(s) \/ IoLocks(s) \/ pingViewService(s) \/ AeLocks(s) \/ Releases(s)
  \/ \E t \in Of("client", Clients), s \in Servers : Outside(t, s)
  \/ \E t \in Of("monitor", Monitors) : Outside(t, VS)

Spec == Init /\ [][Next]_vars

(***************************************************************************)
(* The I/O threads run, a thread with hashMutex releases it, and an I/O    *)
(* thread gets hashMutex in the end: the two threads it competes with      *)
(* sleep or call a peer after each release.                                *)
(***************************************************************************)
FairSpec ==
  /\ Spec /\ WF_vars(ViewIo)
  /\ \A s \in Servers : WF_vars(ServerIo(s)) /\ SF_vars(IoLocks(s)) /\ WF_vars(Releases(s))

-----------------------------------------------------------------------------
(* Properties.                                                             *)

(***************************************************************************)
(* t cannot go on before u does: it waits for an answer of u's process or  *)
(* for the mutex that u holds.                                             *)
(***************************************************************************)
WaitsFor(t, u) ==
  \/ \E p \in Processes : u = Io(p) /\ \E i \in 1 .. Len(queue[p]) : queue[p][i] = t
  \/ \E s \in Servers :
       /\ u = hashMutex[s]
       /\ \/ t = Io(s) /\ pc[t] \in {"lock", "clean"}
          \/ t = <<"ae", s>> /\ pc[t] = "answered"

Waiting == {t \in Threads : \E u \in Threads : WaitsFor(t, u)}

(***************************************************************************)
(* The view service collects statistics from a server that waits for the   *)
(* view service.                                                           *)
(***************************************************************************)
Crossed == \E s \in Servers : WaitsFor(Io(VS), Io(s)) /\ WaitsFor(Io(s), Io(VS))

(***************************************************************************)
(* There is no other way to wait in a circle: a set of threads of whatever *)
(* processes, each of which waits for one of the set, for an answer or for *)
(* a mutex, exists only when the view service and a server are crossed.    *)
(***************************************************************************)
CirclesAreCrossed ==
  (\E S \in SUBSET Waiting : S # {} /\ \A t \in S : \E u \in S : WaitsFor(t, u)) => Crossed

(***************************************************************************)
(* Every call between processes is answered, unless they are crossed.      *)
(***************************************************************************)
AnsweredUnlessCrossed ==
  \A t \in Threads : (pc[t] = "wait") ~> (pc[t] # "wait" \/ Crossed)

(***************************************************************************)
(* report/blank.tex: "Every 100ms, a server pings the viewservice to       *)
(* indicate it is still functional."  The view service takes the ping of a *)
(* server that is functional.                                              *)
(***************************************************************************)
PingsAnswered == \A t \in Of("ping", Servers) : (pc[t] = "wait") ~> (pc[t] # "wait")
=============================================================================
