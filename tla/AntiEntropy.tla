----------------------------- MODULE AntiEntropy -----------------------------
(***************************************************************************)
(* One replica group in a fixed view: clients put at any replica, and the  *)
(* anti-entropy thread of each replica sends what it has written to the    *)
(* others (prototype/server.cpp: put, propagate, antiEntropy,              *)
(* antiEntropyHandler).                                                    *)
(*                                                                         *)
(* A put and the handler of an antiEntropy call hold hashMutex throughout  *)
(* and are one step each.  antiEntropyHandler releases hashMutex for the   *)
(* call, so it is three steps: it collects the entries, the peer applies   *)
(* them, the reply is applied.  The storage engine is a map from keys to   *)
(* entries here; HashTable.tla shows that it is one.                       *)
(***************************************************************************)
EXTENDS Versions, FiniteSets

CONSTANTS
  Servers,      \* the replicas, numbered in the order of cmpServers
  Keys,         \* keys of this replica group
  Values,       \* values clients write
  Writers,      \* Writers[k]: the replicas that clients put key k at
  Stayers,      \* the replicas that do not leave (ViewChange.tla)
  CallsFail,    \* may an anti-entropy call fail?
  MemoryTight,  \* may normalizeTable find memory used up and evict?
  MaxVersion    \* bound: puts stop raising a counter at this value

ASSUME GroupAssumption ==
  /\ Servers \subseteq Nat
  /\ Writers \in [Keys -> SUBSET Servers]
  /\ CallsFail \in BOOLEAN
  /\ MemoryTight \in BOOLEAN
  /\ MaxVersion \in Nat
  /\ "absent" \notin Values

VARIABLES
  store,    \* store[s][k]: the entry of key k at s, or Absent
  diffs,    \* diffs[s][d]: the keys s has to send to d
  ae,       \* ae[s]: the anti-entropy thread of s
  writing   \* do clients still put?

vars == <<store, diffs, ae, writing>>

NoEntries == [k \in {} |-> Absent]

Sleeping == [pc |-> "sleep", dest |-> -1, entries |-> NoEntries, invalidated |-> {}]

Init ==
  /\ store = [s \in Servers |-> [k \in Keys |-> Absent]]
  /\ diffs = [s \in Servers |-> [d \in Servers |-> {}]]
  /\ ae = [s \in Servers |-> Sleeping]
  /\ writing = TRUE

(***************************************************************************)
(* normalizeTable at server s: E are the keys it evicts.  The keys of the  *)
(* model are a few of the many a server holds, so under memory pressure    *)
(* any of them may be the least recently used ones.                        *)
(***************************************************************************)
Evictable(s) ==
  {E \in SUBSET {k \in Keys : store[s][k] # Absent} : MemoryTight \/ E = {}}

Evicted(entries, E) == [k \in Keys |-> IF k \in E THEN Absent ELSE entries[k]]

(***************************************************************************)
(* put, once checkServer has accepted the request: the record with its new *)
(* version, then the diffs for the replicas of the view.                   *)
(***************************************************************************)
StorePut(s, k, v) ==
  /\ writing
  /\ s \in Writers[k]
  /\ \E E \in Evictable(s) :
       LET kept == Evicted(store[s], E)
           version == bumpVersion(kept[k].version, s)
       IN /\ version[s] <= MaxVersion
          /\ store' = [store EXCEPT ![s] = [kept EXCEPT ![k] = Entry(v, version)]]
  /\ UNCHANGED <<ae, writing>>

\* Mutant: the server records the key for every replica, itself included.
RecordForAll(s, k, group) ==
  diffs' = [diffs EXCEPT ![s] = [d \in Servers |->
              IF d \in group THEN @[d] \union {k} ELSE @[d]]]

RecordDiff(s, k, group) ==
  diffs' = [diffs EXCEPT ![s] = [d \in Servers |->
              IF d \in group \ {s} THEN @[d] \union {k} ELSE @[d]]]

Put(s, k, v) == StorePut(s, k, v) /\ RecordDiff(s, k, Servers)

(***************************************************************************)
(* antiEntropyHandler wakes up: the first peer, in the order of the map,   *)
(* with keys to send; the live entries among them.                         *)
(***************************************************************************)
Pending(s) == {d \in Servers : diffs[s][d] # {}}

Collect(s) ==
  /\ ae[s].pc = "sleep"
  /\ \E d \in Pending(s) :
       /\ \A o \in Pending(s) : d <= o
       /\ ae' = [ae EXCEPT ![s] =
            [pc |-> "calling", dest |-> d, invalidated |-> {},
             entries |-> [k \in {x \in diffs[s][d] : store[s][x] # Absent} |-> store[s][k]]]]
  /\ UNCHANGED <<store, diffs, writing>>

(***************************************************************************)
(* antiEntropy at the peer: propagate for every entry of the call, each    *)
(* after a normalizeTable.  E are the keys evicted before their own turn,  *)
(* F the ones evicted after it, on the turn of a later key.                *)
(***************************************************************************)
Deliver(s) ==
  LET d == ae[s].dest
      sent == ae[s].entries
  IN
  /\ ae[s].pc = "calling"
  /\ IF DOMAIN sent = {}
     THEN /\ ae' = [ae EXCEPT ![s].pc = "replied"]
          /\ UNCHANGED store
     ELSE \E E \in Evictable(d), last \in DOMAIN sent :
          LET kept == Evicted(store[d], E)
              resolved == [k \in Keys |->
                IF k \in DOMAIN sent THEN resolve(kept[k], sent[k]) ELSE kept[k]]
          IN
          /\ \E F \in SUBSET (DOMAIN sent \ {last}) :
               /\ MemoryTight \/ F = {}
               /\ store' = [store EXCEPT ![d] = Evicted(resolved, F)]
          /\ ae' = [ae EXCEPT ![s].pc = "replied",
                ![s].invalidated = {k \in DOMAIN sent : conflict(kept[k], sent[k])}]
  /\ UNCHANGED <<diffs, writing>>

(***************************************************************************)
(* The reply arrives: the diffs for the peer are erased and the entries it *)
(* reported are removed.                                                   *)
(***************************************************************************)
Reply(s) ==
  /\ ae[s].pc = "replied"
  /\ diffs' = [diffs EXCEPT ![s][ae[s].dest] = {}]
  /\ store' = [store EXCEPT ![s] = Evicted(@, ae[s].invalidated)]
  /\ ae' = [ae EXCEPT ![s] = Sleeping]
  /\ UNCHANGED writing

(***************************************************************************)
(* The call fails, before or after the peer has applied it, or the peer    *)
(* answers WRONG_SERVER because it is at another view number.  Sockets     *)
(* have no timeout: a caller does not give up on a call that the peer may  *)
(* still apply.                                                            *)
(***************************************************************************)
Fail(s) ==
  /\ CallsFail
  /\ ae[s].pc \in {"calling", "replied"}
  /\ ae' = [ae EXCEPT ![s] = Sleeping]
  /\ UNCHANGED <<store, diffs, writing>>

StopWriting == writing /\ writing' = FALSE /\ UNCHANGED <<store, diffs, ae>>

Next ==
  \/ \E s \in Servers, k \in Keys, v \in Values : Put(s, k, v)
  \/ \E s \in Servers : Collect(s) \/ Deliver(s) \/ Reply(s) \/ Fail(s)
  \/ StopWriting

Spec == Init /\ [][Next]_vars

(***************************************************************************)
(* The anti-entropy thread wakes up every ANTI_ENTROPY_WAIT.  A call may   *)
(* fail any number of times, but one that is made again and again gets     *)
(* through and is answered in the end.                                     *)
(***************************************************************************)
Fairness ==
  \A s \in Servers :
    WF_vars(Collect(s)) /\ SF_vars(Deliver(s)) /\ SF_vars(Reply(s))

FairSpec == Spec /\ Fairness

-----------------------------------------------------------------------------
(* Properties.                                                             *)

VersionType == UNION {[D -> 1 .. MaxVersion] : D \in SUBSET Servers}

EntryType == [value: Values, version: VersionType] \union {Absent}

BatchType == UNION {[D -> EntryType \ {Absent}] : D \in SUBSET Keys}

ThreadType ==
  [pc: {"sleep", "calling", "replied"}, dest: Servers \union {-1},
   entries: BatchType, invalidated: SUBSET Keys]

(***************************************************************************)
(* The variables have their types, and no server has diffs for itself or   *)
(* calls itself.                                                           *)
(***************************************************************************)
TypeOK ==
  /\ store \in [Servers -> [Keys -> EntryType]]
  /\ diffs \in [Servers -> [Servers -> SUBSET Keys]]
  /\ ae \in [Servers -> ThreadType]
  /\ writing \in BOOLEAN
  /\ \A s \in Servers :
       /\ diffs[s][s] = {}
       /\ ae[s].pc # "sleep" => ae[s].dest \in Servers \ {s}

(***************************************************************************)
(* The entries of key k at the replicas and in the calls under way.        *)
(***************************************************************************)
Copies(k) ==
  {store[s][k] : s \in Servers}
    \union {ae[s].entries[k] : s \in {x \in Servers : k \in DOMAIN ae[x].entries}}

(***************************************************************************)
(* Server w takes all the puts of key k and memory suffices; and it does   *)
(* not leave the group.                                                    *)
(***************************************************************************)
OnlyWriter(k, w) == Writers[k] = {w} /\ ~ MemoryTight
SoleWriter(k, w) == OnlyWriter(k, w) /\ w \in Stayers

(***************************************************************************)
(* While one replica, which stays, takes all the puts of a key and memory  *)
(* suffices, every copy of it, stored or in flight, is one the writer had: *)
(* its counter is at most the writer's, and an equal counter means the     *)
(* same value.  It holds across failed, repeated and overlapping calls.    *)
(***************************************************************************)
SoleWriterLeads ==
  \A k \in Keys, w \in Servers : SoleWriter(k, w) =>
    \A e \in Copies(k) \ {Absent} :
      /\ store[w][k] # Absent
      /\ DOMAIN e.version = {w} /\ DOMAIN store[w][k].version = {w}
      /\ e.version[w] <= store[w][k].version[w]
      /\ e.version[w] = store[w][k].version[w] => e.value = store[w][k].value

(***************************************************************************)
(* Under the same conditions anti-entropy never takes an acknowledged put  *)
(* away: no replica loses the key or goes back to an older version of it.  *)
(***************************************************************************)
SoleWriterNeverLoses ==
  [][\A k \in Keys, w \in Servers : SoleWriter(k, w) =>
       \A s \in Servers : store[s][k] # Absent =>
         /\ store'[s][k] # Absent
         /\ atMost(store[s][k].version, store'[s][k].version)]_vars

(***************************************************************************)
(* report/blank.tex: "If we find a set of contradictory diffs, we adopt    *)
(* the diff with the latest time stamp."  While nothing is evicted, when   *)
(* the only writer of a key delivers the value it has, the peer does not   *)
(* stay with another one.  (An eviction at the writer resets its counter:  *)
(* CounterReset.cfg shows the peer refusing the newer value.)              *)
(***************************************************************************)
NewestAdopted ==
  [][\A s \in Servers : ae[s].pc = "calling" /\ ae'[s].pc = "replied" =>
       \A k \in DOMAIN ae[s].entries : Writers[k] = {s} /\ store[s][k] = ae[s].entries[k] =>
         LET kept == store'[ae[s].dest][k] IN
         kept = Absent \/ kept.value = store[s][k].value]_vars

(***************************************************************************)
(* report/blank.tex: "While there will be a brief period of time where     *)
(* servers have inconsistent views of the state, these will eventually be  *)
(* resolved."  No two replicas end up with different values of a key.      *)
(***************************************************************************)
ReplicasAgree ==
  \A k \in Keys, s, d \in Servers :
    store[s][k] # Absent /\ store[d][k] # Absent => store[s][k].value = store[d][k].value

EventuallyResolved == ~ writing ~> []ReplicasAgree

(***************************************************************************)
(* report/blank.tex: "If we find a set of contradictory diffs, we adopt    *)
(* the diff with the latest time stamp."  One of two conflicting entries   *)
(* survives at the replica that finds the conflict.                        *)
(***************************************************************************)
ConflictKeepsOne ==
  [][\A s \in Servers : ae[s].pc = "calling" /\ ae'[s].pc = "replied" =>
       \A k \in ae'[s].invalidated : store'[ae[s].dest][k] # Absent]_vars

(***************************************************************************)
(* server.cpp: "conflict resolved", after maximumVersion.  When concurrent *)
(* entries carry the same value, the version kept covers both.             *)
(***************************************************************************)
MergeCoversBoth ==
  [][\A s \in Servers : ae[s].pc = "calling" /\ ae'[s].pc = "replied" =>
       \A k \in DOMAIN ae[s].entries :
         LET local == store[ae[s].dest][k]
             merged == store'[ae[s].dest][k]
         IN local # Absent /\ local.value = ae[s].entries[k].value /\ merged # Absent =>
              /\ atMost(local.version, merged.version)
              /\ atMost(ae[s].entries[k].version, merged.version)]_vars

(***************************************************************************)
(* report/blank.tex: "Every 1000ms, a server undergoes anti-entropy with a *)
(* replica."  Keys recorded for a peer are sent to that peer in the end.   *)
(***************************************************************************)
EveryPeerServed ==
  \A s, d \in Servers : diffs[s][d] # {} ~> diffs[s][d] = {}
=============================================================================
