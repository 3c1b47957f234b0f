----------------------------- MODULE CacheServer -----------------------------
(***************************************************************************)
(* How one cache server handles views (prototype/server.cpp: checkServer,  *)
(* pingViewService, cleanHash, adjustVersion, and put, get, antiEntropy    *)
(* and antiEntropyHandler around them).  Three threads share hashMutex and *)
(* currentViewMutex: the I/O thread, which handles one request at a time,  *)
(* the ping thread and the anti-entropy thread.                            *)
(*                                                                         *)
(* A section under a mutex is one step, except that cleanHash takes one    *)
(* step per key, because it reads currentView without currentViewMutex.    *)
(* An exception leaves a mutex locked for ever.  A view is a map from keys *)
(* to replica groups (Ring.tla); views are numbered by the view service in *)
(* the order in which they are made (ViewService.tla).  Values and version *)
(* vectors are left to AntiEntropy.tla, the table to HashTable.tla: here   *)
(* the store is the list of its keys, most recently used first.            *)
(***************************************************************************)
EXTENDS Integers, Sequences

CONSTANTS
  Self,         \* this server
  Peers,        \* the other servers, numbered in the order of cmpServers
  Keys,
  Rings,        \* views the view service may make
  MemoryTight,  \* may normalizeTable find memory used up and evict?
  MaxViews      \* bound: views made

EmptyRing == [k \in Keys |-> {}]

ASSUME ServerAssumption ==
  /\ Peers \subseteq Nat /\ Self \in Nat \ Peers
  /\ \A r \in Rings : r \in [Keys -> SUBSET (Peers \union {Self})]
  /\ \A r \in Rings : r = EmptyRing \/ \A k \in Keys : r[k] # {}
  /\ MemoryTight \in BOOLEAN
  /\ MaxViews \in Nat

VARIABLES
  views,        \* views[n]: the view with number n
  currentView,  \* number of the view the server is at
  viewLeaked,   \* has currentViewMutex been left locked?
  hashMutex,    \* "free", the cleaner that holds it, or "leaked"
  list,         \* keys stored, most recently used first
  diffs,        \* diffs[d]: keys to send to d
  th,           \* the I/O and the ping thread: where they are, their _currentView
  rest,         \* keys the running cleanHash has not met yet
  req,          \* request of the I/O thread
  ae,           \* the anti-entropy thread
  strays        \* auxiliary: keys that the last cleanHash did not compare with a view

viewVars == <<views, currentView, viewLeaked>>
storeVars == <<hashMutex, list, diffs, rest, strays>>
vars == <<viewVars, storeVars, th, req, ae>>

Threads == {"io", "ping"}

RingOf(n) == IF n = 0 THEN EmptyRing ELSE views[n]

Stored(l) == {l[i] : i \in 1 .. Len(l)}
Without(l, K) ==
  LET F[i \in 0 .. Len(l)] ==
        IF i = 0 THEN <<>> ELSE IF l[i] \in K THEN F[i - 1] ELSE Append(F[i - 1], l[i])
  IN F[Len(l)]
ToFront(l, k) == <<k>> \o Without(l, {k})

(***************************************************************************)
(* normalizeTable: the lists it may leave, without some of the last keys.  *)
(***************************************************************************)
Normalized(l) == {SubSeq(l, 1, n) : n \in IF MemoryTight THEN 0 .. Len(l) ELSE {Len(l)}}

NoRequest == [op |-> "none", num |-> 0, key |-> "none"]
Quiet == [pc |-> "sleep", dest |-> -1, sent |-> {}, live |-> FALSE]

Init ==
  /\ views = <<>> /\ currentView = 0 /\ viewLeaked = FALSE
  /\ hashMutex = "free" /\ list = <<>> /\ rest = <<>> /\ strays = {}
  /\ diffs = [d \in Peers |-> {}]
  /\ th = [t \in Threads |-> [pc |-> IF t = "io" THEN "idle" ELSE "ask", view |-> 0]]
  /\ req = NoRequest /\ ae = Quiet

Goto(t, pc) == th' = [th EXCEPT ![t].pc = pc]

(***************************************************************************)
(* The handler of a request returns, with any status or an exception; the  *)
(* ping thread goes back to sleep.                                         *)
(***************************************************************************)
Return(t) ==
  /\ th' = [th EXCEPT ![t] = [pc |-> IF t = "io" THEN "idle" ELSE "ask", view |-> 0]]
  /\ req' = IF t = "io" THEN NoRequest ELSE req

NewView(r) ==
  /\ Len(views) < MaxViews /\ (r = EmptyRing => views # <<>>)
  /\ views' = Append(views, r)
  /\ UNCHANGED <<currentView, viewLeaked, storeVars, th, req, ae>>

-----------------------------------------------------------------------------
(* The new view: pingViewService, and checkServer for a request that knows *)
(* a later view than the server.                                           *)

(***************************************************************************)
(* receivePing is answered with the view of the moment.                    *)
(***************************************************************************)
Ask(t) ==
  /\ th[t].pc = "ask" /\ views # <<>>
  /\ th' = [th EXCEPT ![t] = [pc |-> "adopt", view |-> Len(views)]]
  /\ UNCHANGED <<viewVars, storeVars, req, ae>>

AskFails ==
  /\ th["io"].pc = "ask"
  /\ Return("io")
  /\ UNCHANGED <<viewVars, storeVars, ae>>

(***************************************************************************)
(* After the view is settled, checkServer decides and the ping thread      *)
(* sleeps.                                                                 *)
(***************************************************************************)
Settle(t) == IF t = "io" THEN Goto(t, "decide") /\ UNCHANGED req ELSE Return(t)

\* Mutant: only a view with a higher number makes the server clean its table.
AdoptForward(t) ==
  /\ th[t].pc = "adopt" /\ ~ viewLeaked
  /\ currentView' = th[t].view
  /\ IF currentView < th[t].view THEN Goto(t, "lock") /\ UNCHANGED req ELSE Settle(t)
  /\ UNCHANGED <<views, viewLeaked, storeVars, ae>>

\* Mutant: once it has a view, the server keeps it.
AdoptFirst(t) ==
  /\ th[t].pc = "adopt" /\ ~ viewLeaked
  /\ currentView' = IF currentView = 0 THEN th[t].view ELSE currentView
  /\ IF currentView # th[t].view THEN Goto(t, "lock") /\ UNCHANGED req ELSE Settle(t)
  /\ UNCHANGED <<views, viewLeaked, storeVars, ae>>

Adopt(t) ==
  /\ th[t].pc = "adopt" /\ ~ viewLeaked
  /\ currentView' = th[t].view
  /\ IF currentView # th[t].view THEN Goto(t, "lock") /\ UNCHANGED req ELSE Settle(t)
  /\ UNCHANGED <<views, viewLeaked, storeVars, ae>>

CleanHash(t) ==
  /\ th[t].pc = "lock" /\ hashMutex = "free"
  /\ hashMutex' = t /\ rest' = list /\ strays' = {}
  /\ Goto(t, "clean")
  /\ UNCHANGED <<viewVars, list, diffs, req, ae>>

(***************************************************************************)
(* adjustVersion for the group g of a key: a replica without diffs gets    *)
(* all the keys; then the diffs of servers outside g are erased.  The loop *)
(* advances an iterator it has just erased, so it may miss some of them.   *)
(***************************************************************************)
WithNewReplicas(g) ==
  [d \in Peers |-> IF d \in g /\ diffs[d] = {} THEN Stored(list) ELSE diffs[d]]

adjustDiffs(g) ==
  LET departed == {d \in Peers \ g : diffs[d] # {}} IN
  \E gone \in SUBSET departed :
    /\ departed # {} => gone # {}
    /\ diffs' = [d \in Peers |-> IF d \in gone THEN {} ELSE WithNewReplicas(g)[d]]
    /\ ae' = [ae EXCEPT !.live = @ /\ ae.dest \notin gone]

\* Mutant: a key that stays does not advance the loop.
CleanKeyStuck(t) ==
  LET k == Head(rest)
      g == RingOf(currentView)[k]
  IN
  /\ th[t].pc = "clean" /\ rest # <<>>
  /\ \/ /\ Self \in g
        /\ adjustDiffs(g)
        /\ UNCHANGED <<hashMutex, list, strays, rest, th, req>>
     \/ /\ g # {} /\ Self \notin g
        /\ list' = Without(list, {k}) /\ rest' = <<>>
        /\ strays' = Stored(Tail(rest))
        /\ UNCHANGED <<hashMutex, diffs, th, req, ae>>
  /\ UNCHANGED viewVars

(***************************************************************************)
(* One iteration of cleanHash.  It stops at the first key it purges, since *)
(* it then reads next from the record that removeEntry has reset; on an    *)
(* empty ring getServer throws, with hashMutex held.                       *)
(***************************************************************************)
CleanKey(t) ==
  LET k == Head(rest)
      g == RingOf(currentView)[k]
  IN
  /\ th[t].pc = "clean" /\ rest # <<>>
  /\ \/ /\ Self \in g
        /\ adjustDiffs(g)
        /\ rest' = Tail(rest)
        /\ UNCHANGED <<hashMutex, list, strays, th, req>>
     \/ /\ g # {} /\ Self \notin g
        /\ list' = Without(list, {k}) /\ rest' = <<>>
        /\ strays' = Stored(Tail(rest))
        /\ UNCHANGED <<hashMutex, diffs, th, req, ae>>
     \/ /\ g = {}
        /\ hashMutex' = "leaked" /\ rest' = <<>>
        /\ Return(t)
        /\ UNCHANGED <<list, diffs, strays, ae>>
  /\ UNCHANGED viewVars

\* Mutant: cleanHash returns without releasing hashMutex.
CleanDoneLocked(t) ==
  /\ th[t].pc = "clean" /\ rest = <<>>
  /\ Settle(t)
  /\ UNCHANGED <<viewVars, hashMutex, list, diffs, rest, strays, ae>>

CleanDone(t) ==
  /\ th[t].pc = "clean" /\ rest = <<>>
  /\ hashMutex' = "free"
  /\ Settle(t)
  /\ UNCHANGED <<viewVars, list, diffs, rest, strays, ae>>

-----------------------------------------------------------------------------
(* The I/O thread.                                                         *)

(***************************************************************************)
(* Requests carry the number of the sender's view.  A client sends puts    *)
(* and gets to servers of its view, not always to one of the key's group   *)
(* (Ring.tla, KeyHash.tla).  A peer sends any key, since adjustVersion     *)
(* records all it has, but both have been in the ring by then.             *)
(***************************************************************************)
Sends(op, n, k) ==
  IF op = "antiEntropy"
  THEN /\ \E m \in 1 .. n, x \in Keys : Self \in RingOf(m)[x]
       /\ \E m \in 1 .. n, x \in Keys : RingOf(m)[x] \cap Peers # {}
  ELSE \E x \in Keys : Self \in RingOf(n)[x]

Receive(op, n, k) ==
  /\ th["io"].pc = "idle" /\ Sends(op, n, k)
  /\ req' = [op |-> op, num |-> n, key |-> k]
  /\ Goto("io", "check")
  /\ UNCHANGED <<viewVars, storeVars, ae>>

(***************************************************************************)
(* checkServer reads the view; antiEntropy only compares the numbers.      *)
(***************************************************************************)
Check ==
  /\ th["io"].pc = "check" /\ ~ viewLeaked
  /\ CASE req.num = currentView ->
            /\ th' = [th EXCEPT !["io"] =
                 [pc |-> IF req.op = "antiEntropy" THEN "apply" ELSE "decide",
                  view |-> currentView]]
            /\ UNCHANGED req
       [] req.num > currentView /\ req.op # "antiEntropy" ->
            Goto("io", "ask") /\ UNCHANGED req
       [] OTHER -> Return("io")
  /\ UNCHANGED <<viewVars, storeVars, ae>>

(***************************************************************************)
(* The end of checkServer, on its copy of the view.                        *)
(***************************************************************************)
Decide ==
  /\ th["io"].pc = "decide"
  /\ IF req.num = th["io"].view /\ Self \in RingOf(th["io"].view)[req.key]
     THEN Goto("io", "apply") /\ UNCHANGED req
     ELSE Return("io")
  /\ UNCHANGED <<viewVars, storeVars, ae>>

(***************************************************************************)
(* A key stored for a group g becomes a stray when the server is not in g. *)
(***************************************************************************)
StoreFor(k, g) == strays' = IF Self \in g THEN strays \ {k} ELSE strays \union {k}

\* Mutant: put also throws when the key has moved away since checkServer.
PutThrows ==
  LET g == RingOf(currentView)[req.key] IN
  /\ th["io"].pc = "apply" /\ req.op = "put"
  /\ hashMutex = "free" /\ ~ viewLeaked
  /\ \E l \in Normalized(list) : list' = ToFront(l, req.key)
  /\ diffs' = [d \in Peers |-> IF d \in g THEN diffs[d] \union {req.key} ELSE diffs[d]]
  /\ viewLeaked' = (Self \notin g)
  /\ hashMutex' = IF Self \notin g THEN "leaked" ELSE "free"
  /\ StoreFor(req.key, g)
  /\ Return("io")
  /\ UNCHANGED <<views, currentView, rest, ae>>

(***************************************************************************)
(* The rest of put, under hashMutex.  The replicas are looked up in the    *)
(* view of now; on an empty ring getServer throws, with both mutexes held. *)
(***************************************************************************)
Put ==
  LET g == RingOf(currentView)[req.key] IN
  /\ th["io"].pc = "apply" /\ req.op = "put"
  /\ hashMutex = "free" /\ ~ viewLeaked
  /\ \E l \in Normalized(list) : list' = ToFront(l, req.key)
  /\ diffs' = [d \in Peers |-> IF d \in g THEN diffs[d] \union {req.key} ELSE diffs[d]]
  /\ viewLeaked' = (g = {})
  /\ hashMutex' = IF g = {} THEN "leaked" ELSE "free"
  /\ StoreFor(req.key, g)
  /\ Return("io")
  /\ UNCHANGED <<views, currentView, rest, ae>>

Get ==
  /\ th["io"].pc = "apply" /\ req.op = "get" /\ hashMutex = "free"
  /\ list' = IF req.key \in Stored(list) THEN ToFront(list, req.key) ELSE list
  /\ Return("io")
  /\ UNCHANGED <<viewVars, hashMutex, diffs, rest, strays, ae>>

(***************************************************************************)
(* antiEntropy with one entry: propagate adds the key, or keeps, replaces  *)
(* or removes the record it finds.                                         *)
(***************************************************************************)
Propagate ==
  /\ th["io"].pc = "apply" /\ req.op = "antiEntropy" /\ hashMutex = "free"
  /\ \E l \in Normalized(list) :
       list' \in IF req.key \in Stored(l)
                 THEN {l, ToFront(l, req.key), Without(l, {req.key})}
                 ELSE {ToFront(l, req.key)}
  /\ StoreFor(req.key, RingOf(currentView)[req.key])
  /\ Return("io")
  /\ UNCHANGED <<viewVars, hashMutex, diffs, rest, ae>>

-----------------------------------------------------------------------------
(* The anti-entropy thread.  ae.live tells that the element of diffs that  *)
(* its iterator stands on is still there.                                  *)

Collect ==
  /\ ae.pc = "sleep" /\ hashMutex = "free"
  /\ \E d \in Peers :
       /\ diffs[d] # {} /\ \A o \in Peers : diffs[o] # {} => d <= o
       /\ ae' = [pc |-> "calling", dest |-> d, sent |-> diffs[d] \cap Stored(list), live |-> TRUE]
  /\ UNCHANGED <<viewVars, storeVars, th, req>>

(***************************************************************************)
(* The peer has answered OK and reports the keys K as invalidated.  When   *)
(* the element is gone its iterator dangles: erasing it may do nothing, or *)
(* take the element that now occupies its memory.                          *)
(***************************************************************************)
Reply(K) ==
  /\ ae.pc = "calling" /\ hashMutex = "free"
  /\ \/ \E d \in Peers : /\ ae.live => d = ae.dest
                         /\ diffs' = [diffs EXCEPT ![d] = {}]
     \/ ~ ae.live /\ UNCHANGED diffs
  /\ list' = Without(list, K)
  /\ ae' = Quiet
  /\ UNCHANGED <<viewVars, hashMutex, rest, strays, th, req>>

Fail ==
  /\ ae.pc = "calling" /\ hashMutex = "free"
  /\ ae' = Quiet
  /\ UNCHANGED <<viewVars, storeVars, th, req>>

-----------------------------------------------------------------------------
Clean(t) == CleanHash(t) \/ CleanKey(t) \/ CleanDone(t)

IoStep == Check \/ Decide \/ Put \/ Get \/ Propagate

Next ==
  \/ \E r \in Rings : NewView(r)
  \/ \E t \in Threads : Ask(t) \/ Adopt(t) \/ Clean(t)
  \/ \E op \in {"put", "get", "antiEntropy"}, n \in 1 .. Len(views), k \in Keys :
       Receive(op, n, k)
  \/ AskFails \/ IoStep
  \/ Collect \/ Fail \/ \E K \in SUBSET ae.sent : Reply(K)

Spec == Init /\ [][Next]_vars

(***************************************************************************)
(* The threads keep running and the view service answers in the end.       *)
(***************************************************************************)
Fairness ==
  /\ WF_vars(IoStep)
  /\ \A t \in Threads : WF_vars(Ask(t)) /\ WF_vars(Adopt(t)) /\ WF_vars(Clean(t))

FairSpec == Spec /\ Fairness

-----------------------------------------------------------------------------
(* Properties.                                                             *)

(***************************************************************************)
(* A cleaner is inside cleanHash exactly when it holds hashMutex, and the  *)
(* keys it has left to visit are stored: nobody takes them away from under *)
(* its cursor.                                                             *)
(***************************************************************************)
CleanerHoldsMutex ==
  /\ \A t \in Threads : (th[t].pc = "clean") <=> (hashMutex = t)
  /\ Stored(rest) \subseteq Stored(list)

(***************************************************************************)
(* A server that is not in the middle of a view change has compared its    *)
(* table with the view it is at, whichever of its two threads adopted it   *)
(* and in which order: a key it is not responsible for there is one that   *)
(* the last cleanHash did not reach, or one that was stored for a view     *)
(* the server had left, or sent by a peer.                                 *)
(***************************************************************************)
Leaked == viewLeaked \/ hashMutex = "leaked"

Settled == \A t \in Threads : th[t].pc \notin {"lock", "clean"}

OwnedOrStray ==
  Settled /\ ~ Leaked =>
    \A k \in Stored(list) \ strays : Self \in RingOf(currentView)[k]

(***************************************************************************)
(* A mutex is left locked only when some view was empty: no other order of *)
(* views, requests and sessions makes a handler or a cleaner throw.        *)
(***************************************************************************)
LeaksNeedEmptyRing == Leaked => \E n \in 1 .. Len(views) : views[n] = EmptyRing

(***************************************************************************)
(* Until then every request is answered: the threads do not block each     *)
(* other and cleanHash ends.                                               *)
(***************************************************************************)
AnsweredUnlessLeaked == (th["io"].pc # "idle") ~> (th["io"].pc = "idle" \/ Leaked)

(***************************************************************************)
(* And once the views stop changing, the server is at the last one for     *)
(* good, although an old answer may overtake a new one between its two     *)
(* threads.                                                                *)
(***************************************************************************)
LearnsView == <>[](currentView = Len(views) \/ Leaked)

(***************************************************************************)
(* report/blank.tex: "Otherwise, the server updates its local hashtable    *)
(* and replies with a confirmation."  Every request is answered.           *)
(***************************************************************************)
RequestsAnswered == (th["io"].pc # "idle") ~> (th["io"].pc = "idle")

(***************************************************************************)
(* report/blank.tex: "Upon receiving a request from a client, the server   *)
(* first confirms that it is responsible for the relevant key."  When put  *)
(* stores a key, the server is responsible for it in the view it is at.    *)
(***************************************************************************)
StoresOwned ==
  [][Put => Self \in RingOf(currentView)[req.key]]_vars

(***************************************************************************)
(* report/blank.tex: "A server stores a set of diffs since the last        *)
(* anti-entropy session and compares these diffs with its replicas."       *)
(* Between two sessions a key that is recorded for a peer is dropped only  *)
(* if the two servers no longer share it.                                  *)
(***************************************************************************)
DiffsKept ==
  [][ae'.pc = ae.pc => \A d \in Peers : \A k \in diffs[d] \ diffs'[d] :
       ~ ({Self, d} \subseteq RingOf(currentView)[k])]_vars

(***************************************************************************)
(* report/blank.tex: "A server stores a set of diffs since the last        *)
(* anti-entropy session and compares these diffs with its replicas."  When *)
(* cleanHash ends in the first view with a certain replica, all the keys   *)
(* shared with it are recorded for it.                                     *)
(***************************************************************************)
Shared(d, n) == {k \in Keys : {Self, d} \subseteq RingOf(n)[k]}

NewReplicaGetsAll ==
  [][hashMutex' = "free" /\ hashMutex \in Threads => \A d \in Peers :
       (\A n \in 1 .. currentView - 1 : Shared(d, n) = {}) =>
         (Shared(d, currentView) \cap Stored(list) \subseteq diffs[d])]_vars
=============================================================================
