----------------------------- MODULE ViewChange -----------------------------
(***************************************************************************)
(* A replica group whose view changes: a server leaves, and the others     *)
(* adopt the new view one after the other.  AntiEntropy.tla together with  *)
(* what cleanHash and adjustVersion (prototype/server.cpp) do to versions  *)
(* and diffs, and with the view numbers that antiEntropy compares.  The    *)
(* group keeps its keys; CacheServer.tla is about keys that move away and  *)
(* about the threads of one server.                                        *)
(***************************************************************************)
EXTENDS AntiEntropy

CONSTANT Leaver   \* the server that leaves

ASSUME LeaverAssumption == Leaver \notin Stayers

VARIABLES
  gone,     \* has the leaver crashed?  The view service has made view 2.
  at,       \* each server: at view 1, has adopted view 2, has cleaned its table,
            \* which is "bare" if cleanHash found no key in it
  num       \* num[s]: the view number in the call of s, Accepted, or NoCall

vvars == <<vars, gone, at, num>>

ViewNum(s) == IF at[s] = "old" THEN 1 ELSE 2
Group(n) == IF n = 1 THEN Servers ELSE Servers \ {Leaver}
Runs(s) == gone => s # Leaver

(***************************************************************************)
(* The peer has found the view number of a call equal to its own.  Until   *)
(* it has applied the entries its only I/O thread handles nothing else.    *)
(***************************************************************************)
Accepted == 0
NoCall == -1
Handling(d) ==
  {s \in Servers : ae[s].pc = "calling" /\ ae[s].dest = d /\ num[s] = Accepted}

VInit ==
  /\ Init
  /\ gone = FALSE
  /\ at = [s \in Servers |-> "old"]
  /\ num = [s \in Servers |-> NoCall]

Leave == ~ gone /\ gone' = TRUE /\ UNCHANGED <<vars, at, num>>

Adopt(s) ==
  /\ gone /\ s # Leaver /\ at[s] = "old"
  /\ at' = [at EXCEPT ![s] = "adopted"]
  /\ UNCHANGED <<vars, gone, num>>

\* Mutant: cleanHash purges the keys the server is responsible for.
StripPurged(e, g) == Absent

(***************************************************************************)
(* cleanHash: adjustVersion for every key.  Counters of departed servers   *)
(* are dropped; a replica without diffs is sent all the keys; the diffs of *)
(* the server that left are erased.                                        *)
(***************************************************************************)
Strip(e, g) ==
  IF e = Absent THEN e
  ELSE Entry(e.value, [s \in DOMAIN e.version \cap g |-> e.version[s]])

\* Mutant: the diffs of the server that left are kept.
adjustVersionKeeps(s) ==
  LET g == Group(2)
      stored == {k \in Keys : store[s][k] # Absent}
  IN
  /\ at[s] = "adopted"
  /\ at' = [at EXCEPT ![s] = IF stored = {} THEN "bare" ELSE "new"]
  /\ store' = [store EXCEPT ![s] = [k \in Keys |-> Strip(@[k], g)]]
  /\ diffs' = [diffs EXCEPT ![s] = [d \in Servers |->
       IF stored # {} /\ d \in g \ {s} /\ @[d] = {} THEN stored ELSE @[d]]]
  /\ UNCHANGED <<ae, writing, gone, num>>

adjustVersion(s) ==
  LET g == Group(2)
      stored == {k \in Keys : store[s][k] # Absent}
  IN
  /\ at[s] = "adopted"
  /\ at' = [at EXCEPT ![s] = IF stored = {} THEN "bare" ELSE "new"]
  /\ store' = [store EXCEPT ![s] = [k \in Keys |-> Strip(@[k], g)]]
  /\ diffs' = [diffs EXCEPT ![s] = [d \in Servers |->
       IF stored = {} \/ d = s THEN @[d]
       ELSE IF d \notin g THEN {}
       ELSE IF @[d] = {} THEN stored ELSE @[d]]]
  /\ UNCHANGED <<ae, writing, gone, num>>

VPut(s, k, v) ==
  /\ Runs(s) /\ Handling(s) = {}
  /\ StorePut(s, k, v) /\ RecordDiff(s, k, Group(ViewNum(s)))
  /\ UNCHANGED <<gone, at, num>>

VCollect(s) ==
  /\ Runs(s)
  /\ Collect(s)
  /\ num' = [num EXCEPT ![s] = ViewNum(s)]
  /\ UNCHANGED <<gone, at>>

(***************************************************************************)
(* antiEntropy compares the view numbers under currentViewMutex, and takes *)
(* hashMutex afterwards: the peer may adopt a view and clean its table in  *)
(* between.  A call that was sent before its sender crashed is handled.    *)
(***************************************************************************)
VAccept(s) ==
  LET d == ae[s].dest IN
  /\ ae[s].pc = "calling" /\ Runs(d) /\ Handling(d) = {}
  /\ num[s] = ViewNum(d)
  /\ num' = [num EXCEPT ![s] = Accepted]
  /\ UNCHANGED <<vars, gone, at>>

VDeliver(s) ==
  /\ Runs(ae[s].dest)
  /\ num[s] = Accepted
  /\ Deliver(s)
  /\ UNCHANGED <<gone, at, num>>

(***************************************************************************)
(* The reply erases the diffs for its peer; when adjustVersion has erased  *)
(* them the iterator dangles and another element may go.                   *)
(***************************************************************************)
VReply(s) ==
  /\ Runs(s)
  /\ \/ Reply(s)
     \/ /\ at[s] = "new" /\ ae[s].pc = "replied" /\ ae[s].dest = Leaver
        /\ \E d \in Servers : diffs' = [diffs EXCEPT ![s][d] = {}]
        /\ store' = [store EXCEPT ![s] = Evicted(@, ae[s].invalidated)]
        /\ ae' = [ae EXCEPT ![s] = Sleeping]
        /\ UNCHANGED writing
  /\ num' = [num EXCEPT ![s] = NoCall]
  /\ UNCHANGED <<gone, at>>

(***************************************************************************)
(* A call fails before the peer accepts it, after it was applied, or when  *)
(* the peer crashes; a call with another view number is refused.           *)
(***************************************************************************)
VFail(s) ==
  /\ Runs(s)
  /\ s \in Handling(ae[s].dest) => ~ Runs(ae[s].dest)
  /\ Fail(s)
  /\ num' = [num EXCEPT ![s] = NoCall]
  /\ UNCHANGED <<gone, at>>

Refused(s) == VFail(s) /\ ae[s].pc = "calling" /\ (Runs(ae[s].dest) => num[s] # ViewNum(ae[s].dest))

VStop == StopWriting /\ UNCHANGED <<gone, at, num>>

VNext ==
  \/ Leave \/ VStop
  \/ \E s \in Servers, k \in Keys, v \in Values : VPut(s, k, v)
  \/ \E s \in Servers :
       \/ Adopt(s) \/ adjustVersion(s)
       \/ VCollect(s) \/ VAccept(s) \/ VDeliver(s) \/ VReply(s) \/ VFail(s)

VSpec == VInit /\ [][VNext]_vvars

(***************************************************************************)
(* Besides the fairness of AntiEntropy: a server learns of the new view    *)
(* with one of its pings and cleans its table, it goes on with a call it   *)
(* has accepted, and it refuses one of another view; a call to a crashed   *)
(* process fails.                                                          *)
(***************************************************************************)
VFairness ==
  \A s \in Servers :
    /\ WF_vvars(Adopt(s) \/ adjustVersion(s))
    /\ WF_vvars(VCollect(s) \/ VDeliver(s) \/ Refused(s))
    /\ SF_vvars(VAccept(s)) /\ SF_vvars(VReply(s))

VFairSpec == VSpec /\ VFairness

-----------------------------------------------------------------------------
(* Properties.                                                             *)

(***************************************************************************)
(* The properties of AntiEntropy also hold here: when the only writer of a *)
(* key stays (Stayers), the view change leaves its lead intact and no      *)
(* replica loses the key, in the middle of the change too, with servers at *)
(* both views and calls under way.                                         *)
(***************************************************************************)

(***************************************************************************)
(* When the only writer of a key is the one that leaves, versions lose its *)
(* counter at different times at different replicas and the calls between  *)
(* them compare what is left.  Still no comparison ends in a conflict: no  *)
(* replica loses a key that one server has written.                        *)
(***************************************************************************)
SoleWriterKeeps ==
  [][\A k \in Keys, w \in Servers : OnlyWriter(k, w) =>
       \A s \in Servers : store[s][k] # Absent => store'[s][k] # Absent]_vvars

(***************************************************************************)
(* When clients stop writing, the servers that stay send each other all    *)
(* they have recorded and erase it, whatever calls fail: although each of  *)
(* them serves its first peer only, the one that left may come first, its  *)
(* diffs may be erased while a call to it is under way, and the keys to    *)
(* send may have been invalidated.  A server that had no key when it       *)
(* cleaned its table has not erased the diffs of the departed peer, and    *)
(* may be stuck with them: DepartedFirst.cfg shows it.                     *)
(***************************************************************************)
DrainAfterLeaving ==
  <>[](gone /\ ~ writing =>
         \A s, d \in Servers \ {Leaver} : at[s] = "bare" \/ diffs[s][d] = {})

(***************************************************************************)
(* report/blank.tex: "Every 1000ms, a server undergoes anti-entropy with a *)
(* replica."  The same of every server that stays.                         *)
(***************************************************************************)
PeersServedAfterLeaving ==
  (gone /\ ~ writing) ~> [](\A s, d \in Servers \ {Leaver} : diffs[s][d] = {})

(***************************************************************************)
(* report/blank.tex: "While there will be a brief period of time where     *)
(* servers have inconsistent views of the state, these will eventually be  *)
(* resolved."  After a server has left, the others agree in the end.       *)
(***************************************************************************)
RemainingAgree ==
  \A k \in Keys, s, d \in Servers \ {Leaver} :
    store[s][k] # Absent /\ store[d][k] # Absent => store[s][k].value = store[d][k].value

ResolvedAfterLeaving == (gone /\ ~ writing) ~> []RemainingAgree
=============================================================================
