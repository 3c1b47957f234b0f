-------------------------- MODULE AntiEntropyProofs --------------------------
(***************************************************************************)
(* Proofs about AntiEntropy: a replica that takes all the puts of a key    *)
(* leads every other replica, for any number of replicas, keys and values, *)
(* and across failed, repeated and overlapping calls; and about ViewChange *)
(* that the departure of another replica changes nothing of it, and that   *)
(* the departure of the writer itself takes its keys from nobody.          *)
(***************************************************************************)
EXTENDS ViewChange, TLAPS

-----------------------------------------------------------------------------
(* Facts about version vectors.                                            *)

(***************************************************************************)
(* A version vector is a function from some servers to positive counters.  *)
(***************************************************************************)
LEMMA VersionFacts ==
  ASSUME NEW v \in VersionType
  PROVE  /\ DOMAIN v \subseteq Servers
         /\ v \in [DOMAIN v -> 1 .. MaxVersion]
         /\ \A s \in DOMAIN v : v[s] \in 1 .. MaxVersion
BY DEF VersionType

(***************************************************************************)
(* Positive counters of some servers make a version vector.                *)
(***************************************************************************)
LEMMA VersionIntro ==
  ASSUME NEW D \in SUBSET Servers, NEW v \in [D -> 1 .. MaxVersion]
  PROVE  v \in VersionType
BY DEF VersionType

(***************************************************************************)
(* A version put together by a put is one, as long as it keeps the bound.  *)
(***************************************************************************)
LEMMA BumpType ==
  ASSUME NEW v \in VersionType, NEW s \in Servers, bumpVersion(v, s)[s] <= MaxVersion
  PROVE  bumpVersion(v, s) \in VersionType
<1>1. \A x \in DOMAIN v : v[x] \in 1 .. MaxVersion
  BY VersionFacts
<1>2. \A x \in DOMAIN v \union {s} : bumpVersion(v, s)[x] \in 1 .. MaxVersion
  <2> SUFFICES ASSUME NEW x \in DOMAIN v \union {s}
               PROVE  bumpVersion(v, s)[x] \in 1 .. MaxVersion
    OBVIOUS
  <2>1. CASE x # s
    BY <1>1, <2>1 DEF bumpVersion
  <2>2. CASE x = s /\ s \in DOMAIN v
    BY <1>1, <2>2, GroupAssumption DEF bumpVersion
  <2>3. CASE x = s /\ s \notin DOMAIN v
    BY <2>3, GroupAssumption DEF bumpVersion
  <2> QED
    BY <2>1, <2>2, <2>3
<1>3. bumpVersion(v, s) \in [DOMAIN v \union {s} -> 1 .. MaxVersion]
  BY <1>2 DEF bumpVersion
<1>4. DOMAIN v \union {s} \subseteq Servers
  BY VersionFacts
<1> QED
  BY <1>3, <1>4, VersionIntro

(***************************************************************************)
(* The vector of a key that is not stored mentions no server.              *)
(***************************************************************************)
LEMMA EmptyVersionType == EmptyVersion \in VersionType
<1>1. EmptyVersion \in [{} -> 1 .. MaxVersion]
  BY DEF EmptyVersion
<1> QED
  BY <1>1, VersionIntro

(***************************************************************************)
(* maximumVersion returns the empty vector, whatever its arguments.        *)
(***************************************************************************)
LEMMA MaximumIsEmpty ==
  ASSUME NEW v1, NEW v2 PROVE maximumVersion(v1, v2) = EmptyVersion
BY DEF maximumVersion, updateVersion, EmptyVersion

(***************************************************************************)
(* An entry has a version; a live one also has a value.                    *)
(***************************************************************************)
LEMMA EntryFacts ==
  ASSUME NEW e \in EntryType
  PROVE  /\ e.version \in VersionType
         /\ e # Absent => e.value \in Values
BY EmptyVersionType DEF EntryType, Absent, Entry

(***************************************************************************)
(* What propagate leaves is an entry.                                      *)
(***************************************************************************)
LEMMA ResolveType ==
  ASSUME NEW local \in EntryType, NEW entry \in EntryType
  PROVE  resolve(local, entry) \in EntryType
<1>1. Absent \in EntryType
  BY DEF EntryType
<1>2. ASSUME local # Absent PROVE Entry(local.value, EmptyVersion) \in EntryType
  BY <1>2, EntryFacts, EmptyVersionType DEF EntryType, Entry
<1> QED
  BY <1>1, <1>2, MaximumIsEmpty DEF resolve

-----------------------------------------------------------------------------
(* Type correctness.                                                       *)

(***************************************************************************)
(* Evictions leave entries.                                                *)
(***************************************************************************)
LEMMA EvictedType ==
  ASSUME NEW entries \in [Keys -> EntryType], NEW E
  PROVE  Evicted(entries, E) \in [Keys -> EntryType]
BY DEF Evicted, EntryType

(***************************************************************************)
(* A call carries live entries of some keys.                               *)
(***************************************************************************)
LEMMA BatchFacts ==
  ASSUME NEW b \in BatchType
  PROVE  /\ DOMAIN b \subseteq Keys
         /\ \A k \in DOMAIN b : b[k] \in EntryType /\ b[k] # Absent
BY DEF BatchType

(***************************************************************************)
(* Live entries of some keys make a call.                                  *)
(***************************************************************************)
LEMMA BatchIntro ==
  ASSUME NEW D \in SUBSET Keys, NEW b \in [D -> EntryType \ {Absent}]
  PROVE  b \in BatchType
BY DEF BatchType

(***************************************************************************)
(* A thread that sleeps has its type.                                      *)
(***************************************************************************)
LEMMA SleepingType == Sleeping \in ThreadType
<1>1. NoEntries \in [{} -> EntryType \ {Absent}]
  BY DEF NoEntries
<1>2. NoEntries \in BatchType
  BY <1>1, BatchIntro
<1> QED
  BY <1>2 DEF Sleeping, ThreadType

(***************************************************************************)
(* What a put stores: the replica keeps the entries that were not evicted, *)
(* and the entry of the key is the new one.                                *)
(***************************************************************************)
LEMMA PutStores ==
  ASSUME NEW s \in Servers, NEW k \in Keys, NEW v \in Values, StorePut(s, k, v)
  PROVE  \E E \in Evictable(s) :
           LET kept == Evicted(store[s], E)
               version == bumpVersion(kept[k].version, s)
           IN /\ version[s] <= MaxVersion
              /\ store' = [store EXCEPT ![s] = [kept EXCEPT ![k] = Entry(v, version)]]
BY DEF StorePut

(***************************************************************************)
(* A put keeps the types, whatever group the server records the key for.   *)
(***************************************************************************)
LEMMA TypeOKPut ==
  ASSUME TypeOK, NEW s \in Servers, NEW k \in Keys, NEW v \in Values, NEW g,
         StorePut(s, k, v), RecordDiff(s, k, g)
  PROVE  TypeOK'
<1>1. PICK E \in Evictable(s) :
        LET kept == Evicted(store[s], E)
            version == bumpVersion(kept[k].version, s)
        IN /\ version[s] <= MaxVersion
           /\ store' = [store EXCEPT ![s] = [kept EXCEPT ![k] = Entry(v, version)]]
  BY PutStores
<1> DEFINE kept == Evicted(store[s], E)
           version == bumpVersion(kept[k].version, s)
<1>2. kept \in [Keys -> EntryType]
  BY EvictedType DEF TypeOK
<1>3. kept[k].version \in VersionType
  BY <1>2, EntryFacts
<1>4. version \in VersionType
  BY <1>1, <1>3, BumpType
<1>5. Entry(v, version) \in EntryType
  BY <1>4 DEF EntryType, Entry
<1> HIDE DEF kept, version
<1>6. [kept EXCEPT ![k] = Entry(v, version)] \in [Keys -> EntryType]
  BY <1>2, <1>5
<1>7. store' = [store EXCEPT ![s] = [kept EXCEPT ![k] = Entry(v, version)]]
  BY <1>1 DEF kept, version
<1>8. store' \in [Servers -> [Keys -> EntryType]]
  BY <1>6, <1>7 DEF TypeOK
<1>9. diffs' = [diffs EXCEPT ![s] = [d \in Servers |->
                  IF d \in g \ {s} THEN diffs[s][d] \union {k} ELSE diffs[s][d]]]
  BY DEF RecordDiff, TypeOK
<1>10. diffs' \in [Servers -> [Servers -> SUBSET Keys]]
  BY <1>9 DEF TypeOK
<1>11. \A x \in Servers : diffs'[x][x] = {}
  BY <1>9 DEF TypeOK
<1>12. ae' = ae /\ writing' = writing
  BY DEF StorePut
<1> QED
  BY <1>8, <1>10, <1>11, <1>12 DEF TypeOK

(***************************************************************************)
(* antiEntropyHandler wakes up: it calls another server, with live entries *)
(* only.                                                                   *)
(***************************************************************************)
LEMMA TypeOKCollect ==
  ASSUME TypeOK, NEW s \in Servers, Collect(s)
  PROVE  TypeOK'
<1>1. PICK d \in Pending(s) :
        ae' = [ae EXCEPT ![s] =
            [pc |-> "calling", dest |-> d, invalidated |-> {},
             entries |-> [k \in {x \in diffs[s][d] : store[s][x] # Absent} |-> store[s][k]]]]
  BY DEF Collect
<1> DEFINE D == {x \in diffs[s][d] : store[s][x] # Absent}
           b == [k \in D |-> store[s][k]]
<1>2. d \in Servers \ {s} /\ diffs[s][d] \in SUBSET Keys
  BY DEF Pending, TypeOK
<1>3. D \in SUBSET Keys /\ b \in [D -> EntryType \ {Absent}]
  BY <1>2 DEF TypeOK
<1>4. b \in BatchType
  BY <1>3, BatchIntro
<1> HIDE DEF b
<1>5. [pc |-> "calling", dest |-> d, invalidated |-> {}, entries |-> b] \in ThreadType
  BY <1>2, <1>4 DEF ThreadType
<1>6. ae' = [ae EXCEPT ![s] =
         [pc |-> "calling", dest |-> d, invalidated |-> {}, entries |-> b]]
  BY <1>1 DEF b
<1>7. ae' \in [Servers -> ThreadType]
  BY <1>5, <1>6 DEF TypeOK
<1>8. \A x \in Servers : ae'[x].pc # "sleep" => ae'[x].dest \in Servers \ {x}
  BY <1>2, <1>6 DEF TypeOK
<1>9. store' = store /\ diffs' = diffs /\ writing' = writing
  BY DEF Collect
<1> QED
  BY <1>7, <1>8, <1>9 DEF TypeOK

(***************************************************************************)
(* What a call does at the peer: the entries it keeps after evictions are  *)
(* resolved with the ones sent, some of these are evicted again, and the   *)
(* conflicts are reported.                                                 *)
(***************************************************************************)
Resolved(kept, sent) ==
  [k \in Keys |-> IF k \in DOMAIN sent THEN resolve(kept[k], sent[k]) ELSE kept[k]]

(***************************************************************************)
(* The outcome of the handler, with or without entries in the call.        *)
(***************************************************************************)
LEMMA DeliverEffect ==
  ASSUME TypeOK, NEW s \in Servers, Deliver(s)
  PROVE  LET d == ae[s].dest
             sent == ae[s].entries
         IN /\ ae[s].pc = "calling" /\ d \in Servers
            /\ UNCHANGED <<diffs, writing>>
            /\ \/ /\ store' = store /\ DOMAIN sent = {}
                  /\ ae' = [ae EXCEPT ![s].pc = "replied"]
               \/ \E E \in Evictable(d), F \in SUBSET Keys :
                    /\ MemoryTight \/ F = {}
                    /\ store' = [store EXCEPT ![d] =
                         Evicted(Resolved(Evicted(store[d], E), sent), F)]
                    /\ ae' = [ae EXCEPT ![s].pc = "replied", ![s].invalidated =
                         {k \in DOMAIN sent : conflict(Evicted(store[d], E)[k], sent[k])}]
<1> DEFINE d == ae[s].dest
           sent == ae[s].entries
<1>1. ae[s].pc = "calling" /\ d \in Servers
  BY DEF Deliver, TypeOK
<1>2. CASE DOMAIN sent = {}
  BY <1>1, <1>2 DEF Deliver
<1>3. CASE DOMAIN sent # {}
  <2>1. PICK E \in Evictable(d), last \in DOMAIN sent :
          /\ \E F \in SUBSET (DOMAIN sent \ {last}) :
               /\ MemoryTight \/ F = {}
               /\ store' = [store EXCEPT ![d] =
                    Evicted(Resolved(Evicted(store[d], E), sent), F)]
          /\ ae' = [ae EXCEPT ![s].pc = "replied", ![s].invalidated =
               {k \in DOMAIN sent : conflict(Evicted(store[d], E)[k], sent[k])}]
    BY <1>3 DEF Deliver, Resolved
  <2>2. DOMAIN sent \subseteq Keys
    BY BatchFacts DEF TypeOK, ThreadType
  <2> QED
    BY <1>1, <2>1, <2>2 DEF Deliver
<1> QED
  BY <1>2, <1>3

(***************************************************************************)
(* propagate leaves entries.                                               *)
(***************************************************************************)
LEMMA ResolvedType ==
  ASSUME NEW kept \in [Keys -> EntryType], NEW sent \in BatchType
  PROVE  Resolved(kept, sent) \in [Keys -> EntryType]
BY BatchFacts, ResolveType DEF Resolved

(***************************************************************************)
(* The handler of an antiEntropy call keeps the types.                     *)
(***************************************************************************)
LEMMA TypeOKDeliver ==
  ASSUME TypeOK, NEW s \in Servers, Deliver(s)
  PROVE  TypeOK'
<1> DEFINE d == ae[s].dest
           sent == ae[s].entries
<1>1. /\ d \in Servers \ {s} /\ sent \in BatchType /\ DOMAIN sent \subseteq Keys
      /\ UNCHANGED <<diffs, writing>> /\ ae[s].pc = "calling"
  BY DeliverEffect, BatchFacts DEF TypeOK, ThreadType
<1>6. ASSUME NEW t \in ThreadType, t.dest = d, ae' = [ae EXCEPT ![s] = t]
      PROVE  /\ ae' \in [Servers -> ThreadType]
             /\ \A x \in Servers : ae'[x].pc # "sleep" => ae'[x].dest \in Servers \ {x}
  BY <1>6, <1>1 DEF TypeOK
<1>2. ASSUME NEW I \in SUBSET Keys,
             ae' = [ae EXCEPT ![s].pc = "replied", ![s].invalidated = I]
      PROVE  /\ ae' \in [Servers -> ThreadType]
             /\ \A x \in Servers : ae'[x].pc # "sleep" => ae'[x].dest \in Servers \ {x}
  <2> DEFINE t == [ae[s] EXCEPT !.pc = "replied", !.invalidated = I]
  <2>1. ae[s] \in ThreadType
    BY DEF TypeOK
  <2>3. t \in ThreadType /\ t.dest = d
    BY <2>1 DEF ThreadType
  <2>2. ae' = [ae EXCEPT ![s] = t]
    BY <1>2 DEF TypeOK
  <2> QED
    BY <1>6, <2>2, <2>3
<1>3. ASSUME ae' = [ae EXCEPT ![s].pc = "replied"]
      PROVE  /\ ae' \in [Servers -> ThreadType]
             /\ \A x \in Servers : ae'[x].pc # "sleep" => ae'[x].dest \in Servers \ {x}
  <2> DEFINE t == [ae[s] EXCEPT !.pc = "replied"]
  <2>1. ae[s] \in ThreadType
    BY DEF TypeOK
  <2>3. t \in ThreadType /\ t.dest = d
    BY <2>1 DEF ThreadType
  <2>2. ae' = [ae EXCEPT ![s] = t]
    BY <1>3 DEF TypeOK
  <2> QED
    BY <1>6, <2>2, <2>3
<1>4. CASE store' = store /\ ae' = [ae EXCEPT ![s].pc = "replied"]
  BY <1>1, <1>3, <1>4 DEF TypeOK
<1>5. ASSUME NEW E \in Evictable(d), NEW F \in SUBSET Keys,
             store' = [store EXCEPT ![d] =
                         Evicted(Resolved(Evicted(store[d], E), sent), F)],
             ae' = [ae EXCEPT ![s].pc = "replied", ![s].invalidated =
                         {k \in DOMAIN sent : conflict(Evicted(store[d], E)[k], sent[k])}]
      PROVE  TypeOK'
  <2>1. Evicted(store[d], E) \in [Keys -> EntryType]
    BY <1>1, EvictedType DEF TypeOK
  <2>2. Evicted(Resolved(Evicted(store[d], E), sent), F) \in [Keys -> EntryType]
    BY <1>1, <2>1, ResolvedType, EvictedType
  <2>3. store' \in [Servers -> [Keys -> EntryType]]
    BY <1>1, <1>5, <2>2 DEF TypeOK
  <2>4. {k \in DOMAIN sent : conflict(Evicted(store[d], E)[k], sent[k])} \in SUBSET Keys
    BY <1>1
  <2>5. /\ ae' \in [Servers -> ThreadType]
        /\ \A x \in Servers : ae'[x].pc # "sleep" => ae'[x].dest \in Servers \ {x}
    BY <1>2, <1>5, <2>4
  <2> QED
    BY <1>1, <2>3, <2>5 DEF TypeOK
<1> QED
  BY <1>4, <1>5, DeliverEffect

(***************************************************************************)
(* The reply keeps the types, whatever diffs it erases.                    *)
(***************************************************************************)
LEMMA TypeOKReply ==
  ASSUME TypeOK, NEW s \in Servers, NEW d \in Servers, diffs' = [diffs EXCEPT ![s][d] = {}],
         store' = [store EXCEPT ![s] = Evicted(@, ae[s].invalidated)],
         ae' = [ae EXCEPT ![s] = Sleeping], writing' = writing
  PROVE  TypeOK'
<1>1. store' \in [Servers -> [Keys -> EntryType]]
  BY EvictedType DEF TypeOK
<1>2. ae' \in [Servers -> ThreadType]
  BY SleepingType DEF TypeOK
<1> QED
  BY <1>1, <1>2 DEF TypeOK, Sleeping

(***************************************************************************)
(* Every step in a fixed view keeps the types.                             *)
(***************************************************************************)
LEMMA TypeOKStep == TypeOK /\ [Next]_vars => TypeOK'
<1> SUFFICES ASSUME TypeOK, [Next]_vars PROVE TypeOK'
  OBVIOUS
<1>1. ASSUME NEW s \in Servers, Reply(s) PROVE TypeOK'
  <2>1. ae[s].dest \in Servers
    BY <1>1 DEF Reply, TypeOK
  <2> QED
    BY <1>1, <2>1, TypeOKReply DEF Reply
<1>2. ASSUME NEW s \in Servers, Fail(s) PROVE TypeOK'
  <2>1. ae' \in [Servers -> ThreadType]
    BY <1>2, SleepingType DEF Fail, TypeOK
  <2> QED
    BY <1>2, <2>1 DEF Fail, TypeOK, Sleeping
<1>3. CASE StopWriting
  BY <1>3 DEF StopWriting, TypeOK
<1>4. CASE UNCHANGED vars
  BY <1>4 DEF vars, TypeOK
<1> QED
  BY <1>1, <1>2, <1>3, <1>4, TypeOKPut, TypeOKCollect, TypeOKDeliver DEF Next, Put

(***************************************************************************)
(* The initial state has the types.                                        *)
(***************************************************************************)
LEMMA TypeOKInit == Init => TypeOK
<1> SUFFICES ASSUME Init PROVE TypeOK
  OBVIOUS
<1>1. store \in [Servers -> [Keys -> EntryType]]
  BY DEF Init, EntryType
<1>2. ae \in [Servers -> ThreadType] /\ \A s \in Servers : ae[s].pc = "sleep"
  BY SleepingType DEF Init, Sleeping
<1> QED
  BY <1>1, <1>2 DEF Init, TypeOK

(***************************************************************************)
(* The variables of the replica group always have their types.             *)
(***************************************************************************)
THEOREM TypeCorrect == Spec => []TypeOK
BY TypeOKInit, TypeOKStep, PTL DEF Spec

-----------------------------------------------------------------------------
(* The sole writer of a key leads.                                         *)

(***************************************************************************)
(* Entry e is one that the writer w, whose entry is now l, has had.        *)
(***************************************************************************)
Led(e, w, l) ==
  /\ l # Absent
  /\ DOMAIN e.version = {w} /\ DOMAIN l.version = {w}
  /\ e.version[w] <= l.version[w]
  /\ e.version[w] = l.version[w] => e.value = l.value

(***************************************************************************)
(* The invariant needs one more part: no peer has reported the key as a    *)
(* conflict, for the writer would remove it on such a reply.               *)
(***************************************************************************)
NoFalseConflict ==
  \A k \in Keys, w \in Servers : SoleWriter(k, w) =>
    \A s \in Servers : k \notin ae[s].invalidated

LeadInv == TypeOK /\ SoleWriterLeads /\ NoFalseConflict

(***************************************************************************)
(* Entries the writer has had are totally ordered by their versions, so    *)
(* that propagate keeps the newer one and finds no conflict.               *)
(***************************************************************************)
LEMMA ResolveLed ==
  ASSUME NEW w \in Servers, NEW l \in EntryType,
         NEW local \in EntryType, NEW entry \in EntryType, entry # Absent,
         Led(entry, w, l), local # Absent => Led(local, w, l)
  PROVE  /\ ~ conflict(local, entry)
         /\ resolve(local, entry) \in {local, entry}
         /\ local = l => resolve(local, entry) = l
         /\ local # Absent => /\ resolve(local, entry) # Absent
                              /\ atMost(local.version, resolve(local, entry).version)
<1>1. CASE local = Absent
  BY <1>1 DEF conflict, resolve, Led
<1>2. CASE local # Absent
  <2>1. DOMAIN entry.version = {w} /\ DOMAIN local.version = {w}
    BY <1>2 DEF Led
  <2>2. entry.version[w] \in Int /\ local.version[w] \in Int
    BY <2>1, EntryFacts, VersionFacts
  <2>3. atMost(entry.version, local.version) <=> entry.version[w] <= local.version[w]
    BY <2>1 DEF atMost
  <2>4. atMost(local.version, entry.version) <=> local.version[w] <= entry.version[w]
    BY <2>1 DEF atMost
  <2>5. atMost(local.version, local.version)
    BY <2>1, <2>2 DEF atMost
  <2>6. atMost(entry.version, local.version) \/ atMost(local.version, entry.version)
    BY <2>2, <2>3, <2>4
  <2>7. local = l => atMost(entry.version, local.version)
    BY <2>3 DEF Led
  <2> QED
    BY <1>2, <2>5, <2>6, <2>7 DEF conflict, resolve
<1> QED
  BY <1>1, <1>2

(***************************************************************************)
(* Without evictions all the entries stay.                                 *)
(***************************************************************************)
LEMMA EvictedNothing ==
  ASSUME NEW entries \in [Keys -> EntryType]
  PROVE  Evicted(entries, {}) = entries
BY DEF Evicted

(***************************************************************************)
(* The property, for one copy.                                             *)
(***************************************************************************)
LEMMA LeadsCopies ==
  ASSUME SoleWriterLeads, NEW k \in Keys, NEW w \in Servers, SoleWriter(k, w),
         NEW e \in Copies(k), e # Absent
  PROVE  Led(e, w, store[w][k])
BY DEF SoleWriterLeads, Led

(***************************************************************************)
(* After a put the key is there.                                           *)
(***************************************************************************)
LEMMA PutPresent ==
  ASSUME TypeOK, NEW s \in Servers, NEW k \in Keys, NEW v \in Values, StorePut(s, k, v)
  PROVE  store'[s][k] # Absent
<1>1. PICK E \in Evictable(s) :
        store' = [store EXCEPT ![s] = [Evicted(store[s], E) EXCEPT ![k] =
                    Entry(v, bumpVersion(Evicted(store[s], E)[k].version, s))]]
  BY PutStores
<1>2. \A n : Entry(v, n) # Absent
  BY GroupAssumption DEF Entry, Absent
<1>3. Evicted(store[s], E) \in [Keys -> EntryType]
  BY EvictedType DEF TypeOK
<1> QED
  BY <1>1, <1>2, <1>3 DEF TypeOK

(***************************************************************************)
(* A put of the key by its writer: the new entry leads all the copies.     *)
(***************************************************************************)
LEMMA PutByWriter ==
  ASSUME LeadInv, NEW k \in Keys, NEW w \in Servers, SoleWriter(k, w),
         NEW v \in Values, StorePut(w, k, v)
  PROVE  /\ \A e \in Copies(k)' \ {Absent} : Led(e, w, store'[w][k])
         /\ store[w][k] # Absent => atMost(store[w][k].version, store'[w][k].version)
         /\ \A s \in Servers \ {w} : store'[s][k] = store[s][k]
<1> DEFINE l == store[w][k]
           n == Entry(v, bumpVersion(l.version, w))
<1>1. PICK E \in Evictable(w) :
        store' = [store EXCEPT ![w] = [Evicted(store[w], E) EXCEPT ![k] =
                    Entry(v, bumpVersion(Evicted(store[w], E)[k].version, w))]]
  BY PutStores
<1>2. E = {} /\ store[w] \in [Keys -> EntryType]
  BY DEF Evictable, SoleWriter, OnlyWriter, LeadInv, TypeOK
<1>3. Evicted(store[w], E) = store[w]
  BY <1>2, EvictedNothing
<1>4. store'[w][k] = n /\ \A s \in Servers \ {w} : store'[s][k] = store[s][k]
  BY <1>1, <1>2, <1>3 DEF LeadInv, TypeOK
<1>5. ae' = ae
  BY DEF StorePut
<1>6. Copies(k)' \subseteq Copies(k) \union {n}
  BY <1>4, <1>5 DEF Copies
<1>7. n # Absent /\ n.value = v /\ n.version = bumpVersion(l.version, w)
  BY GroupAssumption DEF Entry, Absent
<1> HIDE DEF n
<1>8. CASE l = Absent
  <2>1. \A e \in Copies(k) : e = Absent
    BY <1>8, LeadsCopies DEF LeadInv, Led
  <2>2. n.version = [x \in {w} |-> 1]
    BY <1>7, <1>8 DEF Absent, Entry, EmptyVersion, bumpVersion
  <2>3. Led(n, w, n)
    BY <1>7, <2>2 DEF Led
  <2> QED
    BY <1>4, <1>6, <1>8, <2>1, <2>3
<1>9. CASE l # Absent
  <2>1. l \in Copies(k)
    BY DEF Copies
  <2>2. DOMAIN l.version = {w}
    BY <1>9, <2>1, LeadsCopies DEF LeadInv, Led
  <2>3. l \in EntryType
    BY <1>2
  <2>4. l.version[w] \in Int
    BY <2>2, <2>3, EntryFacts, VersionFacts
  <2>5. DOMAIN n.version = {w} /\ n.version[w] = l.version[w] + 1
    BY <1>7, <2>2 DEF bumpVersion
  <2>6. Led(n, w, n)
    BY <1>7, <2>4, <2>5 DEF Led
  <2>7. ASSUME NEW e \in Copies(k), e # Absent PROVE Led(e, w, n)
    <3>1. Led(e, w, l)
      BY <2>7, LeadsCopies DEF LeadInv
    <3>2. e \in EntryType
      BY BatchFacts DEF Copies, LeadInv, TypeOK, ThreadType
    <3>3. e.version[w] \in Int
      BY <3>1, <3>2, EntryFacts, VersionFacts DEF Led
    <3> QED
      BY <1>7, <2>4, <2>5, <3>1, <3>3 DEF Led
  <2>8. atMost(l.version, n.version)
    BY <2>2, <2>4, <2>5 DEF atMost
  <2> QED
    BY <1>4, <1>6, <2>6, <2>7, <2>8
<1> QED
  BY <1>8, <1>9

(***************************************************************************)
(* What a step does to key k when it is not a put of that key: the writer  *)
(* keeps its entry, no entry appears that was not a copy before, no        *)
(* replica loses the key or goes back, and no conflict is reported.        *)
(***************************************************************************)
Harmless(k, w) ==
  /\ store'[w][k] = store[w][k]
  /\ Copies(k)' \subseteq Copies(k) \union {Absent}
  /\ \A s \in Servers : k \notin ae'[s].invalidated
  /\ \A s \in Servers : store[s][k] # Absent =>
       store'[s][k] # Absent /\ atMost(store[s][k].version, store'[s][k].version)

(***************************************************************************)
(* A version is at most itself.                                            *)
(***************************************************************************)
LEMMA AtMostReflexive ==
  ASSUME NEW v \in VersionType PROVE atMost(v, v)
BY VersionFacts DEF atMost

(***************************************************************************)
(* A step that leaves the entries of key k alone at every replica.         *)
(***************************************************************************)
LEMMA SameEntries ==
  ASSUME LeadInv, NEW k \in Keys, NEW w \in Servers, SoleWriter(k, w),
         \A s \in Servers : store'[s][k] = store[s][k],
         \A s \in Servers : k \in DOMAIN ae'[s].entries =>
           \/ ae'[s].entries[k] \in Copies(k)
           \/ ae'[s].entries[k] = Absent,
         \A s \in Servers : k \notin ae'[s].invalidated
  PROVE  Harmless(k, w)
<1>1. \A s \in Servers : store[s][k] \in EntryType /\ store[s][k].version \in VersionType
  BY EntryFacts DEF LeadInv, TypeOK
<1>2. \A s \in Servers : store[s][k] # Absent =>
         store'[s][k] # Absent /\ atMost(store[s][k].version, store'[s][k].version)
  BY <1>1, AtMostReflexive
<1>3. Copies(k)' \subseteq Copies(k) \union {Absent}
  BY DEF Copies
<1> QED
  BY <1>2, <1>3 DEF Harmless

(***************************************************************************)
(* A put of another key is harmless while memory suffices.                 *)
(***************************************************************************)
LEMMA HarmlessPut ==
  ASSUME LeadInv, NEW k \in Keys, NEW w \in Servers, SoleWriter(k, w),
         NEW s \in Servers, NEW x \in Keys \ {k}, NEW v \in Values, StorePut(s, x, v)
  PROVE  Harmless(k, w)
<1>1. PICK E \in Evictable(s) :
        store' = [store EXCEPT ![s] = [Evicted(store[s], E) EXCEPT ![x] =
                    Entry(v, bumpVersion(Evicted(store[s], E)[x].version, s))]]
  BY PutStores
<1>2. E = {} /\ store[s] \in [Keys -> EntryType]
  BY DEF Evictable, SoleWriter, OnlyWriter, LeadInv, TypeOK
<1>3. Evicted(store[s], E) = store[s]
  BY <1>2, EvictedNothing
<1>4. \A y \in Servers : store'[y][k] = store[y][k]
  BY <1>1, <1>2, <1>3 DEF LeadInv, TypeOK
<1>5. ae' = ae
  BY DEF StorePut
<1>6. \A y \in Servers : k \in DOMAIN ae'[y].entries => ae'[y].entries[k] \in Copies(k)
  BY <1>5 DEF Copies
<1>7. \A y \in Servers : k \notin ae'[y].invalidated
  BY <1>5 DEF LeadInv, NoFalseConflict
<1> QED
  BY <1>4, <1>6, <1>7, SameEntries

(***************************************************************************)
(* Collecting entries only adds copies of what is stored.                  *)
(***************************************************************************)
LEMMA HarmlessCollect ==
  ASSUME LeadInv, NEW k \in Keys, NEW w \in Servers, SoleWriter(k, w),
         NEW s \in Servers, Collect(s)
  PROVE  Harmless(k, w)
<1>1. PICK d \in Pending(s) :
        ae' = [ae EXCEPT ![s] =
            [pc |-> "calling", dest |-> d, invalidated |-> {},
             entries |-> [y \in {x \in diffs[s][d] : store[s][x] # Absent} |-> store[s][y]]]]
  BY DEF Collect
<1>2. store' = store
  BY DEF Collect
<1>3. ae'[s].invalidated = {} /\ \A y \in Servers \ {s} : ae'[y] = ae[y]
  BY <1>1 DEF LeadInv, TypeOK
<1>4. k \in DOMAIN ae'[s].entries => ae'[s].entries[k] = store[s][k]
  BY <1>1 DEF LeadInv, TypeOK
<1>5. \A y \in Servers : k \in DOMAIN ae'[y].entries => ae'[y].entries[k] \in Copies(k)
  BY <1>3, <1>4 DEF Copies
<1>6. \A y \in Servers : k \notin ae'[y].invalidated
  BY <1>3 DEF LeadInv, NoFalseConflict
<1> QED
  BY <1>2, <1>5, <1>6, SameEntries

(***************************************************************************)
(* The end of a call removes reported keys only, and the key is not one of *)
(* them.                                                                   *)
(***************************************************************************)
LEMMA HarmlessReset ==
  ASSUME LeadInv, NEW k \in Keys, NEW w \in Servers, SoleWriter(k, w),
         NEW s \in Servers, ae' = [ae EXCEPT ![s] = Sleeping],
         \/ store' = store
         \/ store' = [store EXCEPT ![s] = Evicted(store[s], ae[s].invalidated)]
  PROVE  Harmless(k, w)
<1>2. ae'[s].invalidated = {} /\ DOMAIN ae'[s].entries = {}
  BY DEF LeadInv, TypeOK, Sleeping, NoEntries
<1>3. \A y \in Servers \ {s} : ae'[y] = ae[y]
  BY DEF LeadInv, TypeOK
<1>4. \A y \in Servers : k \in DOMAIN ae'[y].entries => ae'[y].entries[k] \in Copies(k)
  BY <1>2, <1>3 DEF Copies
<1>5. \A y \in Servers : k \notin ae'[y].invalidated
  BY <1>2, <1>3 DEF LeadInv, NoFalseConflict
<1>6. k \notin ae[s].invalidated
  BY DEF LeadInv, NoFalseConflict
<1>7. \A y \in Servers : store'[y][k] = store[y][k]
  <2>1. Evicted(store[s], ae[s].invalidated)[k] = store[s][k]
    BY <1>6 DEF Evicted
  <2> QED
    BY <2>1 DEF LeadInv, TypeOK
<1> QED
  BY <1>4, <1>5, <1>7, SameEntries

(***************************************************************************)
(* The handler of a call keeps the newer of two copies.                    *)
(***************************************************************************)
LEMMA HarmlessDeliver ==
  ASSUME LeadInv, NEW k \in Keys, NEW w \in Servers, SoleWriter(k, w),
         NEW s \in Servers, Deliver(s)
  PROVE  Harmless(k, w)
<1> DEFINE d == ae[s].dest
           sent == ae[s].entries
           l == store[w][k]
<1>1. TypeOK /\ d \in Servers /\ sent \in BatchType /\ ~ MemoryTight
  BY DeliverEffect DEF LeadInv, TypeOK, ThreadType, SoleWriter, OnlyWriter
<1>2. \A y \in Servers : k \notin ae[y].invalidated
  BY DEF LeadInv, NoFalseConflict
<1>3. CASE store' = store /\ ae' = [ae EXCEPT ![s].pc = "replied"]
  <2>1. \A y \in Servers : ae'[y].entries = ae[y].entries /\ ae'[y].invalidated = ae[y].invalidated
    BY <1>1, <1>3 DEF TypeOK, ThreadType
  <2>2. \A y \in Servers : k \in DOMAIN ae'[y].entries => ae'[y].entries[k] \in Copies(k)
    BY <2>1 DEF Copies
  <2> QED
    BY <1>2, <1>3, <2>1, <2>2, SameEntries
<1>4. ASSUME NEW E \in Evictable(d), NEW F \in SUBSET Keys, MemoryTight \/ F = {},
             store' = [store EXCEPT ![d] =
                         Evicted(Resolved(Evicted(store[d], E), sent), F)],
             ae' = [ae EXCEPT ![s].pc = "replied", ![s].invalidated =
                         {x \in DOMAIN sent : conflict(Evicted(store[d], E)[x], sent[x])}]
      PROVE  Harmless(k, w)
  <2>1. E = {} /\ F = {} /\ store[d] \in [Keys -> EntryType]
    BY <1>1, <1>4 DEF Evictable, TypeOK
  <2>2. Evicted(store[d], E) = store[d]
    BY <2>1, EvictedNothing
  <2>3. store' = [store EXCEPT ![d] = Resolved(store[d], sent)]
    BY <1>1, <1>4, <2>1, <2>2, EvictedNothing, ResolvedType
  <2>4. /\ \A y \in Servers : ae'[y].entries = ae[y].entries
        /\ \A y \in Servers \ {s} : ae'[y].invalidated = ae[y].invalidated
        /\ ae'[s].invalidated = {x \in DOMAIN sent : conflict(store[d][x], sent[x])}
    BY <1>1, <1>4, <2>2 DEF TypeOK, ThreadType
  <2>5. \A y \in Servers \ {d} : store'[y] = store[y]
    BY <1>1, <2>3 DEF TypeOK
  <2>6. CASE k \notin DOMAIN sent
    <3>1. store'[d][k] = store[d][k]
      BY <1>1, <2>3, <2>6 DEF Resolved, TypeOK
    <3>2. \A y \in Servers : k \notin ae'[y].invalidated
      BY <1>2, <2>4, <2>6
    <3>3. \A y \in Servers : k \in DOMAIN ae'[y].entries => ae'[y].entries[k] \in Copies(k)
      BY <2>4 DEF Copies
    <3>4. \A y \in Servers : store'[y][k] = store[y][k]
      BY <2>5, <3>1
    <3> QED
      BY <3>2, <3>3, <3>4, SameEntries
  <2>7. CASE k \in DOMAIN sent
    <3>1. store'[d][k] = resolve(store[d][k], sent[k])
      BY <1>1, <2>3, <2>7 DEF Resolved, TypeOK
    <3>2. sent[k] \in Copies(k) /\ store[d][k] \in Copies(k)
      BY <1>1, <2>7 DEF Copies
    <3>3. sent[k] \in EntryType /\ sent[k] # Absent
      BY <1>1, <2>7, BatchFacts
    <3>4. Led(sent[k], w, l) /\ (store[d][k] # Absent => Led(store[d][k], w, l))
      BY <3>2, <3>3, LeadsCopies DEF LeadInv
    <3>5. l \in EntryType /\ store[d][k] \in EntryType
      BY <1>1 DEF TypeOK
    <3>6. /\ ~ conflict(store[d][k], sent[k])
          /\ resolve(store[d][k], sent[k]) \in {store[d][k], sent[k]}
          /\ store[d][k] = l => resolve(store[d][k], sent[k]) = l
          /\ store[d][k] # Absent =>
               /\ resolve(store[d][k], sent[k]) # Absent
               /\ atMost(store[d][k].version, resolve(store[d][k], sent[k]).version)
      BY <3>3, <3>4, <3>5, ResolveLed
    <3>7. store'[w][k] = store[w][k]
      BY <2>5, <3>1, <3>6
    <3>8. \A y \in Servers : k \notin ae'[y].invalidated
      BY <1>2, <2>4, <3>6
    <3>9. \A y \in Servers : store'[y][k] \in Copies(k)
      BY <2>5, <3>1, <3>2, <3>6 DEF Copies
    <3>10. Copies(k)' \subseteq Copies(k)
      BY <2>4, <3>9 DEF Copies
    <3>11. \A y \in Servers : store[y][k].version \in VersionType
      BY <1>1, EntryFacts DEF TypeOK
    <3>12. \A y \in Servers : store[y][k] # Absent =>
             store'[y][k] # Absent /\ atMost(store[y][k].version, store'[y][k].version)
      BY <2>5, <3>1, <3>6, <3>11, AtMostReflexive
    <3> QED
      BY <3>7, <3>8, <3>10, <3>12 DEF Harmless
  <2> QED
    BY <2>6, <2>7
<1> QED
  BY <1>1, <1>3, <1>4, DeliverEffect

(***************************************************************************)
(* A step that leaves the entries alone, stored and in flight.             *)
(***************************************************************************)
LEMMA HarmlessIdle ==
  ASSUME LeadInv, NEW k \in Keys, NEW w \in Servers, SoleWriter(k, w), store' = store, ae' = ae
  PROVE  Harmless(k, w)
<1>1. \A y \in Servers : k \in DOMAIN ae'[y].entries => ae'[y].entries[k] \in Copies(k)
  BY DEF Copies
<1>2. \A y \in Servers : k \notin ae'[y].invalidated
  BY DEF LeadInv, NoFalseConflict
<1> QED
  BY <1>1, <1>2, SameEntries

(***************************************************************************)
(* A step is, for every key with a sole writer, a put by that writer or    *)
(* harmless; and what SoleWriterNeverLoses says of a step.                 *)
(***************************************************************************)
PutOrHarmless ==
  \A k \in Keys, w \in Servers : SoleWriter(k, w) =>
    Harmless(k, w) \/ \E v \in Values : StorePut(w, k, v)

NothingLost ==
  \A k \in Keys, w \in Servers : SoleWriter(k, w) =>
    \A s \in Servers : store[s][k] # Absent =>
      /\ store'[s][k] # Absent
      /\ atMost(store[s][k].version, store'[s][k].version)

(***************************************************************************)
(* Such a step keeps the invariant.                                        *)
(***************************************************************************)
LEMMA LeadInvKept ==
  ASSUME LeadInv, TypeOK', PutOrHarmless
  PROVE  LeadInv'
<1>1. ASSUME NEW k \in Keys, NEW w \in Servers, SoleWriter(k, w)
      PROVE  /\ \A e \in Copies(k)' \ {Absent} : Led(e, w, store'[w][k])
             /\ \A s \in Servers : k \notin ae'[s].invalidated
  <2>1. CASE Harmless(k, w)
    BY <1>1, <2>1, LeadsCopies DEF LeadInv, Harmless
  <2>2. ASSUME NEW v \in Values, StorePut(w, k, v)
        PROVE  /\ \A e \in Copies(k)' \ {Absent} : Led(e, w, store'[w][k])
               /\ \A s \in Servers : k \notin ae'[s].invalidated
    <3>1. ae' = ae
      BY <2>2 DEF StorePut
    <3>2. \A s \in Servers : k \notin ae'[s].invalidated
      BY <1>1, <3>1 DEF LeadInv, NoFalseConflict
    <3> QED
      BY <1>1, <2>2, <3>2, PutByWriter
  <2> QED
    BY <1>1, <2>1, <2>2 DEF PutOrHarmless
<1>2. SoleWriterLeads'
  BY <1>1 DEF SoleWriterLeads, Led, SoleWriter, OnlyWriter
<1>3. NoFalseConflict'
  BY <1>1 DEF NoFalseConflict, SoleWriter, OnlyWriter
<1> QED
  BY <1>2, <1>3 DEF LeadInv

(***************************************************************************)
(* Such a step takes no entry away and takes none back to an older         *)
(* version.                                                                *)
(***************************************************************************)
LEMMA NothingLostThen ==
  ASSUME LeadInv, PutOrHarmless
  PROVE  NothingLost
<1> SUFFICES ASSUME NEW k \in Keys, NEW w \in Servers, SoleWriter(k, w),
                    NEW s \in Servers, store[s][k] # Absent
             PROVE  /\ store'[s][k] # Absent
                    /\ atMost(store[s][k].version, store'[s][k].version)
  BY DEF NothingLost
<1>1. CASE Harmless(k, w)
  BY <1>1 DEF Harmless
<1>2. ASSUME NEW v \in Values, StorePut(w, k, v)
      PROVE  /\ store'[s][k] # Absent
             /\ atMost(store[s][k].version, store'[s][k].version)
  <2>1. CASE s # w
    <3>1. store'[s][k] = store[s][k]
      BY <1>2, <2>1, PutByWriter
    <3>2. store[s][k].version \in VersionType
      BY EntryFacts DEF LeadInv, TypeOK
    <3> QED
      BY <3>1, <3>2, AtMostReflexive
  <2>2. CASE s = w
    <3>1. atMost(store[w][k].version, store'[w][k].version)
      BY <1>2, <2>2, PutByWriter
    <3>2. store'[w][k] # Absent
      BY <1>2, PutPresent DEF LeadInv
    <3> QED
      BY <2>2, <3>1, <3>2
  <2> QED
    BY <2>1, <2>2
<1> QED
  BY <1>1, <1>2 DEF PutOrHarmless

(***************************************************************************)
(* A put of another key is harmless; one of the key is the sole writer's.  *)
(***************************************************************************)
LEMMA PutIsEither ==
  ASSUME LeadInv, NEW s \in Servers, NEW x \in Keys, NEW v \in Values, StorePut(s, x, v)
  PROVE  PutOrHarmless
<1> SUFFICES ASSUME NEW k \in Keys, NEW w \in Servers, SoleWriter(k, w)
             PROVE  Harmless(k, w) \/ \E u \in Values : StorePut(w, k, u)
  BY DEF PutOrHarmless
<1>1. CASE x # k
  BY <1>1, HarmlessPut
<1>2. CASE x = k
  <2>1. s = w
    BY <1>2 DEF StorePut, SoleWriter, OnlyWriter
  <2> QED
    BY <1>2, <2>1
<1> QED
  BY <1>1, <1>2

(***************************************************************************)
(* Every step in a fixed view is one or the other.                         *)
(***************************************************************************)
LEMMA FixedViewStep ==
  ASSUME LeadInv, [Next]_vars
  PROVE  PutOrHarmless
<1>1. ASSUME NEW s \in Servers, NEW x \in Keys, NEW v \in Values, Put(s, x, v)
      PROVE  PutOrHarmless
  BY <1>1, PutIsEither DEF Put
<1>2. CASE StopWriting \/ UNCHANGED vars
  BY <1>2, HarmlessIdle DEF StopWriting, vars, PutOrHarmless
<1>3. ASSUME NEW s \in Servers, Collect(s) \/ Deliver(s) \/ Reply(s) \/ Fail(s)
      PROVE  PutOrHarmless
  <2>1. CASE Collect(s) \/ Deliver(s)
    BY <2>1, HarmlessCollect, HarmlessDeliver DEF PutOrHarmless
  <2>2. CASE Reply(s) \/ Fail(s)
    BY <2>2, HarmlessReset DEF PutOrHarmless, Reply, Fail
  <2> QED
    BY <1>3, <2>1, <2>2
<1> QED
  BY <1>1, <1>2, <1>3 DEF Next

(***************************************************************************)
(* The invariant is inductive in a fixed view, and holds initially.        *)
(***************************************************************************)
LEMMA LeadInvStep == LeadInv /\ [Next]_vars => LeadInv'
<1> SUFFICES ASSUME LeadInv, [Next]_vars PROVE LeadInv'
  OBVIOUS
<1>1. TypeOK'
  BY TypeOKStep DEF LeadInv
<1> QED
  BY <1>1, FixedViewStep, LeadInvKept

(***************************************************************************)
(* Initially there are no copies.                                          *)
(***************************************************************************)
LEMMA LeadInvInit == Init => LeadInv
<1> SUFFICES ASSUME Init PROVE LeadInv
  OBVIOUS
<1>1. TypeOK
  BY TypeOKInit
<1>2. \A s \in Servers : ae[s].invalidated = {} /\ DOMAIN ae[s].entries = {}
  BY DEF Init, Sleeping, NoEntries
<1>3. \A k \in Keys : Copies(k) \subseteq {Absent}
  BY <1>2 DEF Copies, Init
<1> QED
  BY <1>1, <1>2, <1>3 DEF LeadInv, SoleWriterLeads, NoFalseConflict

(***************************************************************************)
(* Every copy of a key, stored or in flight, is one its sole writer has    *)
(* had, for any number of replicas, keys, values and failed calls.         *)
(***************************************************************************)
THEOREM SoleWriterTheorem == Spec => []SoleWriterLeads
<1>1. LeadInv => SoleWriterLeads
  BY DEF LeadInv
<1> QED
  BY <1>1, LeadInvInit, LeadInvStep, PTL DEF Spec

(***************************************************************************)
(* No step of anti-entropy takes an acknowledged put of a sole writer away *)
(* from any replica that has it.                                           *)
(***************************************************************************)
THEOREM NeverLosesTheorem == Spec => SoleWriterNeverLoses
<1>1. LeadInv /\ [Next]_vars => [NothingLost]_vars
  BY FixedViewStep, NothingLostThen
<1> QED
  BY <1>1, LeadInvInit, LeadInvStep, PTL DEF Spec, SoleWriterNeverLoses, NothingLost

-----------------------------------------------------------------------------
(* The view changes (ViewChange.tla).                                      *)

(***************************************************************************)
(* adjustVersion drops counters from a version, which stays one.           *)
(***************************************************************************)
LEMMA StripType ==
  ASSUME NEW e \in EntryType, NEW g
  PROVE  Strip(e, g) \in EntryType
<1>1. CASE e = Absent
  BY <1>1 DEF Strip
<1>2. CASE e # Absent
  <2> DEFINE D == DOMAIN e.version \cap g
             v == [s \in D |-> e.version[s]]
  <2>1. e.value \in Values /\ e.version \in VersionType
    BY <1>2 DEF EntryType
  <2>2. D \in SUBSET Servers /\ v \in [D -> 1 .. MaxVersion]
    BY <2>1, VersionFacts
  <2>3. v \in VersionType
    BY <2>2, VersionIntro
  <2>4. Strip(e, g) = Entry(e.value, v)
    BY <1>2 DEF Strip
  <2> HIDE DEF v
  <2> QED
    BY <2>1, <2>3, <2>4 DEF Entry, EntryType
<1> QED
  BY <1>1, <1>2

(***************************************************************************)
(* It leaves a version alone whose only counter is of a server that stays. *)
(***************************************************************************)
LEMMA StripKeeps ==
  ASSUME NEW e \in EntryType, NEW g, NEW w \in g, e # Absent => DOMAIN e.version = {w}
  PROVE  Strip(e, g) = e
<1>1. CASE e = Absent
  BY <1>1 DEF Strip
<1>2. CASE e # Absent
  <2>1. e = [value |-> e.value, version |-> e.version] /\ e.version \in VersionType
    BY <1>2 DEF EntryType
  <2>2. DOMAIN e.version \cap g = DOMAIN e.version
    BY <1>2
  <2>3. e.version = [s \in DOMAIN e.version |-> e.version[s]]
    BY <2>1, VersionFacts
  <2> QED
    BY <1>2, <2>1, <2>2, <2>3 DEF Strip, Entry
<1> QED
  BY <1>1, <1>2

(***************************************************************************)
(* adjustVersion, for every key of a server, keeps the types.              *)
(***************************************************************************)
LEMMA TypeOKAdjust ==
  ASSUME TypeOK, NEW s \in Servers, adjustVersion(s)
  PROVE  TypeOK'
<1> DEFINE g == Group(2)
           stored == {k \in Keys : store[s][k] # Absent}
           row == [d \in Servers |->
                     IF stored = {} \/ d = s THEN diffs[s][d]
                     ELSE IF d \notin g THEN {}
                     ELSE IF diffs[s][d] = {} THEN stored ELSE diffs[s][d]]
           entries == [k \in Keys |-> Strip(store[s][k], g)]
<1>1. /\ store' = [store EXCEPT ![s] = entries]
      /\ diffs' = [diffs EXCEPT ![s] = row]
      /\ ae' = ae /\ writing' = writing
  BY DEF adjustVersion
<1>2. entries \in [Keys -> EntryType]
  BY StripType DEF TypeOK
<1>3. row \in [Servers -> SUBSET Keys] /\ row[s] = diffs[s][s]
  BY DEF TypeOK
<1> HIDE DEF entries, row
<1>4. store' \in [Servers -> [Keys -> EntryType]]
  BY <1>1, <1>2 DEF TypeOK
<1>5. diffs' \in [Servers -> [Servers -> SUBSET Keys]] /\ \A x \in Servers : diffs'[x][x] = {}
  BY <1>1, <1>3 DEF TypeOK
<1> QED
  BY <1>1, <1>4, <1>5 DEF TypeOK

(***************************************************************************)
(* It does nothing to a key whose sole writer stays.                       *)
(***************************************************************************)
LEMMA HarmlessAdjust ==
  ASSUME LeadInv, NEW k \in Keys, NEW w \in Servers, SoleWriter(k, w),
         NEW s \in Servers, adjustVersion(s)
  PROVE  Harmless(k, w)
<1> DEFINE g == Group(2)
<1>1. ae' = ae /\ store' = [store EXCEPT ![s] = [x \in Keys |-> Strip(store[s][x], g)]]
  BY DEF adjustVersion
<1>2. w \in g
  BY LeaverAssumption DEF SoleWriter, Group
<1>3. store[s][k] \in EntryType /\ store[s][k] \in Copies(k)
  BY DEF LeadInv, TypeOK, Copies
<1>4. store[s][k] # Absent => DOMAIN store[s][k].version = {w}
  BY <1>3, LeadsCopies DEF LeadInv, Led
<1> HIDE DEF g
<1>5. Strip(store[s][k], g) = store[s][k]
  BY <1>2, <1>3, <1>4, StripKeeps
<1>6. \A y \in Servers : store'[y][k] = store[y][k]
  BY <1>1, <1>5 DEF LeadInv, TypeOK
<1>7. \A y \in Servers : k \in DOMAIN ae'[y].entries => ae'[y].entries[k] \in Copies(k)
  BY <1>1 DEF Copies
<1>8. \A y \in Servers : k \notin ae'[y].invalidated
  BY <1>1 DEF LeadInv, NoFalseConflict
<1> QED
  BY <1>6, <1>7, <1>8, SameEntries

(***************************************************************************)
(* A step of ViewChange does to the replicas what a step in a fixed view   *)
(* does, but for the diffs: or it is adjustVersion, or a reply that finds  *)
(* its diffs erased.                                                       *)
(***************************************************************************)
LEMMA ViewChangeCases ==
  ASSUME [VNext]_vvars
  PROVE  \/ \E s \in Servers, k \in Keys, v \in Values, g \in {Group(1), Group(2)} :
              StorePut(s, k, v) /\ RecordDiff(s, k, g)
         \/ \E s \in Servers : \/ Collect(s) \/ Deliver(s) \/ Fail(s) \/ adjustVersion(s)
                               \/ Reply(s)
         \/ \E s \in Servers, d \in Servers :
              /\ diffs' = [diffs EXCEPT ![s][d] = {}]
              /\ store' = [store EXCEPT ![s] = Evicted(@, ae[s].invalidated)]
              /\ ae' = [ae EXCEPT ![s] = Sleeping] /\ writing' = writing
         \/ StopWriting
         \/ UNCHANGED vars
<1>1. ASSUME NEW s \in Servers, NEW k \in Keys, NEW v \in Values, VPut(s, k, v)
      PROVE  \E g \in {Group(1), Group(2)} : StorePut(s, k, v) /\ RecordDiff(s, k, g)
  BY <1>1 DEF VPut, ViewNum
<1>2. ASSUME NEW s \in Servers, VReply(s)
      PROVE  \/ Reply(s)
             \/ \E d \in Servers : /\ diffs' = [diffs EXCEPT ![s][d] = {}]
                                   /\ store' = [store EXCEPT ![s] = Evicted(@, ae[s].invalidated)]
                                   /\ ae' = [ae EXCEPT ![s] = Sleeping] /\ writing' = writing
  BY <1>2 DEF VReply
<1>3. ASSUME NEW s \in Servers, VCollect(s) \/ VAccept(s) \/ VDeliver(s) \/ VFail(s) \/ Adopt(s)
      PROVE  Collect(s) \/ Deliver(s) \/ Fail(s) \/ UNCHANGED vars
  BY <1>3 DEF VCollect, VAccept, VDeliver, VFail, Adopt
<1>4. Leave \/ VStop \/ UNCHANGED vvars => StopWriting \/ UNCHANGED vars
  BY DEF Leave, VStop, vvars
<1> QED
  BY <1>1, <1>2, <1>3, <1>4 DEF VNext

(***************************************************************************)
(* The types and the lead of a sole writer through the view change.        *)
(***************************************************************************)
LEMMA VTypeStep == TypeOK /\ [VNext]_vvars => TypeOK'
<1> SUFFICES ASSUME TypeOK, [VNext]_vvars PROVE TypeOK'
  OBVIOUS
<1>1. ASSUME NEW s \in Servers, Collect(s) \/ Deliver(s) \/ Fail(s) \/ Reply(s) PROVE TypeOK'
  BY <1>1, TypeOKStep DEF Next
<1>2. CASE StopWriting \/ UNCHANGED vars
  BY <1>2, TypeOKStep DEF Next
<1> QED
  BY <1>1, <1>2, ViewChangeCases, TypeOKPut, TypeOKReply, TypeOKAdjust

(***************************************************************************)
(* Every step of ViewChange is a put by the writer or harmless.            *)
(***************************************************************************)
LEMMA VHarmlessStep ==
  ASSUME LeadInv, [VNext]_vvars
  PROVE  PutOrHarmless
<1>1. ASSUME NEW s \in Servers, Collect(s) \/ Deliver(s) \/ Fail(s) \/ Reply(s) PROVE PutOrHarmless
  BY <1>1, FixedViewStep DEF Next
<1>2. CASE StopWriting \/ UNCHANGED vars
  BY <1>2, FixedViewStep DEF Next
<1>3. ASSUME NEW s \in Servers, adjustVersion(s) PROVE PutOrHarmless
  BY <1>3, HarmlessAdjust DEF PutOrHarmless
<1>4. ASSUME NEW s \in Servers, ae' = [ae EXCEPT ![s] = Sleeping],
             store' = [store EXCEPT ![s] = Evicted(@, ae[s].invalidated)]
      PROVE  PutOrHarmless
  BY <1>4, HarmlessReset DEF PutOrHarmless
<1> QED
  BY <1>1, <1>2, <1>3, <1>4, ViewChangeCases, PutIsEither

(***************************************************************************)
(* The invariant is inductive through the view change too.                 *)
(***************************************************************************)
LEMMA VLeadInvStep == LeadInv /\ [VNext]_vvars => LeadInv'
<1> SUFFICES ASSUME LeadInv, [VNext]_vvars PROVE LeadInv'
  OBVIOUS
<1>1. TypeOK'
  BY VTypeStep DEF LeadInv
<1> QED
  BY <1>1, VHarmlessStep, LeadInvKept

(***************************************************************************)
(* The types hold while servers adopt the new view and clean their tables: *)
(* in particular adjustVersion gives no server diffs for itself.           *)
(***************************************************************************)
THEOREM ViewChangeTypes == VSpec => []TypeOK
BY TypeOKInit, VTypeStep, PTL DEF VSpec, VInit

(***************************************************************************)
(* While a server leaves, every copy of a key whose sole writer stays is   *)
(* one that the writer has had: adopting the view and adjustVersion at     *)
(* different times do no harm.                                             *)
(***************************************************************************)
THEOREM ViewChangeLeads == VSpec => []SoleWriterLeads
<1>1. LeadInv => SoleWriterLeads
  BY DEF LeadInv
<1>2. LeadInv /\ [VNext]_vvars => LeadInv'
  BY VLeadInvStep
<1> QED
  BY <1>1, <1>2, LeadInvInit, PTL DEF VSpec, VInit

(***************************************************************************)
(* Nor does the view change, or a reply whose diffs adjustVersion has      *)
(* erased, take an acknowledged put away.                                  *)
(***************************************************************************)
THEOREM ViewChangeNeverLoses == VSpec => SoleWriterNeverLoses
<1>1. LeadInv /\ [VNext]_vvars => [NothingLost]_vars
  BY VHarmlessStep, NothingLostThen
<1>2. LeadInv /\ [VNext]_vvars => LeadInv'
  BY VLeadInvStep
<1> QED
  BY <1>1, <1>2, LeadInvInit, PTL DEF VSpec, VInit, SoleWriterNeverLoses, NothingLost

-----------------------------------------------------------------------------
(* A peer adopts what the sole writer has.                                 *)

(***************************************************************************)
(* A key with a sole writer has one that stays.                            *)
(***************************************************************************)
StayersWrite == \A k \in Keys, w \in Servers : Writers[k] = {w} => w \in Stayers

(***************************************************************************)
(* With memory to spare a call leaves, for each key it carries, what       *)
(* propagate makes of the local entry and the entry sent.                  *)
(***************************************************************************)
LEMMA DeliverResolves ==
  ASSUME TypeOK, ~ MemoryTight, NEW s \in Servers, Deliver(s), NEW k \in DOMAIN ae[s].entries
  PROVE  store'[ae[s].dest][k] = resolve(store[ae[s].dest][k], ae[s].entries[k])
<1> DEFINE d == ae[s].dest
           sent == ae[s].entries
<1>1. d \in Servers /\ store[d] \in [Keys -> EntryType] /\ sent \in BatchType /\ k \in Keys
  BY DeliverEffect, BatchFacts DEF TypeOK, ThreadType
<1>2. PICK E \in Evictable(d), F \in SUBSET Keys :
        /\ MemoryTight \/ F = {}
        /\ store' = [store EXCEPT ![d] = Evicted(Resolved(Evicted(store[d], E), sent), F)]
  BY DeliverEffect
<1>3. E = {} /\ F = {}
  BY <1>2 DEF Evictable
<1>4. store' = [store EXCEPT ![d] = Resolved(store[d], sent)]
  BY <1>1, <1>2, <1>3, EvictedNothing, ResolvedType
<1> QED
  BY <1>1, <1>4 DEF Resolved, TypeOK

(***************************************************************************)
(* A peer that keeps its own entry has one as new as the writer's.         *)
(***************************************************************************)
LEMMA ResolveNewest ==
  ASSUME NEW w \in Servers, NEW l \in EntryType, NEW local \in EntryType, l # Absent,
         Led(l, w, l), local # Absent => Led(local, w, l)
  PROVE  resolve(local, l) = Absent \/ resolve(local, l).value = l.value
<1>1. CASE local = Absent
  BY <1>1 DEF resolve
<1>2. CASE local # Absent
  <2>1. DOMAIN l.version = {w} /\ DOMAIN local.version = {w}
    BY <1>2 DEF Led
  <2>2. l.version[w] \in Int /\ local.version[w] \in Int
    BY <2>1, EntryFacts, VersionFacts
  <2>3. resolve(local, l) \in {local, l}
    BY <1>2, ResolveLed
  <2>4. CASE atMost(l.version, local.version)
    <3>1. l.version[w] <= local.version[w]
      BY <2>1, <2>4 DEF atMost
    <3>2. l.version[w] = local.version[w]
      BY <1>2, <2>2, <3>1 DEF Led
    <3> QED
      BY <1>2, <2>3, <3>2 DEF Led
  <2>5. CASE ~ atMost(l.version, local.version)
    <3>1. atMost(local.version, l.version)
      BY <1>2, <2>1, <2>2 DEF Led, atMost
    <3> QED
      BY <1>2, <2>5, <3>1 DEF resolve
  <2> QED
    BY <2>4, <2>5
<1> QED
  BY <1>1, <1>2

(***************************************************************************)
(* Only the handler of its own call makes a thread's call answered.        *)
(***************************************************************************)
LEMMA OnlyDeliverAnswers ==
  ASSUME TypeOK, [VNext]_vvars, NEW s \in Servers, ae[s].pc = "calling", ae'[s].pc = "replied"
  PROVE  Deliver(s)
<1>1. ae \in [Servers -> ThreadType]
  BY DEF TypeOK
<1>2. ASSUME NEW x \in Servers, x # s, Deliver(x) PROVE FALSE
  <2>1. ae'[s] = ae[s]
    BY <1>1, <1>2 DEF Deliver
  <2> QED
    BY <2>1
<1>3. ASSUME NEW x \in Servers, Collect(x) PROVE FALSE
  <2>1. PICK d \in Pending(x) :
          ae' = [ae EXCEPT ![x] =
            [pc |-> "calling", dest |-> d, invalidated |-> {},
             entries |-> [k \in {y \in diffs[x][d] : store[x][y] # Absent} |-> store[x][k]]]]
    BY <1>3 DEF Collect
  <2>2. ae'[s].pc = "calling"
    BY <1>1, <2>1
  <2> QED
    BY <2>2
<1>4. ASSUME NEW x \in Servers, ae' = [ae EXCEPT ![x] = Sleeping] PROVE FALSE
  <2>1. ae'[s] \in {ae[s], Sleeping}
    BY <1>1, <1>4
  <2> QED
    BY <2>1 DEF Sleeping
<1>5. ae' # ae
  OBVIOUS
<1>6. ASSUME NEW x \in Servers, Reply(x) \/ Fail(x) PROVE FALSE
  BY <1>4, <1>6 DEF Reply, Fail
<1>7. ASSUME NEW x \in Servers, NEW k \in Keys, NEW v \in Values, StorePut(x, k, v) PROVE FALSE
  BY <1>5, <1>7 DEF StorePut
<1>8. ASSUME NEW x \in Servers, adjustVersion(x) PROVE FALSE
  BY <1>5, <1>8 DEF adjustVersion
<1>9. ~ StopWriting /\ ~ UNCHANGED vars
  BY <1>5 DEF StopWriting, vars
<1> QED
  BY <1>2, <1>3, <1>4, <1>6, <1>7, <1>8, <1>9, ViewChangeCases

(***************************************************************************)
(* When the sole writer of a key delivers the entry it still has, the peer *)
(* ends with the writer's value or without the key; also while the view    *)
(* changes, with memory to spare.                                          *)
(***************************************************************************)
THEOREM ViewChangeAdopts ==
  ASSUME StayersWrite, ~ MemoryTight PROVE VSpec => NewestAdopted
<1> DEFINE Adopts ==
      \A s \in Servers : ae[s].pc = "calling" /\ ae'[s].pc = "replied" =>
        \A k \in DOMAIN ae[s].entries : Writers[k] = {s} /\ store[s][k] = ae[s].entries[k] =>
          LET kept == store'[ae[s].dest][k] IN
          kept = Absent \/ kept.value = store[s][k].value
<1>1. LeadInv /\ [VNext]_vvars => [Adopts]_vars
  <2> SUFFICES ASSUME LeadInv, [VNext]_vvars, NEW s \in Servers,
                      ae[s].pc = "calling", ae'[s].pc = "replied",
                      NEW k \in DOMAIN ae[s].entries, Writers[k] = {s},
                      store[s][k] = ae[s].entries[k]
               PROVE  \/ store'[ae[s].dest][k] = Absent
                      \/ store'[ae[s].dest][k].value = store[s][k].value
    OBVIOUS
  <2> DEFINE d == ae[s].dest
             l == store[s][k]
  <2>1. TypeOK /\ Deliver(s)
    BY OnlyDeliverAnswers DEF LeadInv
  <2>2. d \in Servers /\ ae[s].entries \in BatchType
    BY <2>1, DeliverEffect DEF TypeOK, ThreadType
  <2>3. k \in Keys /\ l # Absent
    BY <2>2, BatchFacts
  <2>4. SoleWriter(k, s)
    BY <2>3 DEF SoleWriter, OnlyWriter, StayersWrite
  <2>5. l \in EntryType /\ store[d][k] \in EntryType /\ l \in Copies(k) /\ store[d][k] \in Copies(k)
    BY <2>1, <2>2, <2>3 DEF TypeOK, Copies
  <2>6. Led(l, s, l) /\ (store[d][k] # Absent => Led(store[d][k], s, l))
    BY <2>3, <2>4, <2>5, LeadsCopies DEF LeadInv
  <2>7. store'[d][k] = resolve(store[d][k], l)
    BY <2>1, DeliverResolves
  <2> QED
    BY <2>3, <2>5, <2>6, <2>7, ResolveNewest
<1>2. LeadInv /\ [VNext]_vvars => LeadInv'
  BY VLeadInvStep
<1> QED
  BY <1>1, <1>2, LeadInvInit, PTL DEF VSpec, VInit, NewestAdopted

-----------------------------------------------------------------------------
(* The sole writer leaves.                                                 *)

(***************************************************************************)
(* Once adjustVersion drops the counter of a writer that leaves, copies of *)
(* its key are no longer ordered as they were written.  What is left of    *)
(* SoleWriterLeads is that versions mention no other server, which is      *)
(* enough for no peer to report the key as a conflict.                     *)
(***************************************************************************)
OnlyBy(e, w) == DOMAIN e.version \subseteq {w}

NeverReported ==
  \A k \in Keys, w \in Servers : OnlyWriter(k, w) =>
    \A s \in Servers : k \notin ae[s].invalidated

KeepInv ==
  /\ TypeOK /\ NeverReported
  /\ \A k \in Keys, w \in Servers : OnlyWriter(k, w) => \A e \in Copies(k) : OnlyBy(e, w)

(***************************************************************************)
(* What a step does to a key with a sole writer.                           *)
(***************************************************************************)
Keeps(k, w) ==
  /\ \A e \in Copies(k)' : OnlyBy(e, w)
  /\ \A s \in Servers : k \notin ae'[s].invalidated
  /\ \A s \in Servers : store[s][k] # Absent => store'[s][k] # Absent

(***************************************************************************)
(* The same, for the entries at each replica.                              *)
(***************************************************************************)
LEMMA KeepsEntries ==
  ASSUME NEW k \in Keys, NEW w \in Servers,
         \A s \in Servers : /\ OnlyBy(store'[s][k], w)
                            /\ store[s][k] # Absent => store'[s][k] # Absent,
         \A s \in Servers : k \in DOMAIN ae'[s].entries => OnlyBy(ae'[s].entries[k], w),
         \A s \in Servers : k \notin ae'[s].invalidated
  PROVE  Keeps(k, w)
BY DEF Keeps, Copies

(***************************************************************************)
(* Versions without a counter or with the writer's are totally ordered: no *)
(* two of them conflict.                                                   *)
(***************************************************************************)
LEMMA ResolveOnlyBy ==
  ASSUME NEW w \in Servers, NEW local \in EntryType, NEW entry \in EntryType,
         entry # Absent, OnlyBy(local, w), OnlyBy(entry, w)
  PROVE  /\ ~ conflict(local, entry)
         /\ resolve(local, entry) \in {local, entry}
         /\ local # Absent => resolve(local, entry) # Absent
<1>1. local.version \in VersionType /\ entry.version \in VersionType
  BY EntryFacts
<1>2. /\ w \in DOMAIN local.version => local.version[w] \in Int
      /\ w \in DOMAIN entry.version => entry.version[w] \in Int
  BY <1>1, VersionFacts
<1>3. atMost(entry.version, local.version) \/ atMost(local.version, entry.version)
  <2>1. CASE w \notin DOMAIN local.version
    BY <2>1 DEF atMost, OnlyBy
  <2>2. CASE w \notin DOMAIN entry.version
    BY <2>2 DEF atMost, OnlyBy
  <2>3. CASE w \in DOMAIN local.version /\ w \in DOMAIN entry.version
    <3>1. DOMAIN local.version = {w} /\ DOMAIN entry.version = {w}
      BY <2>3 DEF OnlyBy
    <3>2. \/ entry.version[w] <= local.version[w]
          \/ local.version[w] <= entry.version[w]
      BY <1>2, <2>3
    <3> QED
      BY <3>1, <3>2 DEF atMost
  <2> QED
    BY <2>1, <2>2, <2>3
<1> QED
  BY <1>3 DEF conflict, resolve

(***************************************************************************)
(* A step that leaves the entries of the key alone at every replica.       *)
(***************************************************************************)
LEMMA KeepsSame ==
  ASSUME KeepInv, NEW k \in Keys, NEW w \in Servers, OnlyWriter(k, w),
         \A s \in Servers : store'[s][k] = store[s][k],
         \A s \in Servers : k \in DOMAIN ae'[s].entries => ae'[s].entries[k] \in Copies(k),
         \A s \in Servers : k \notin ae'[s].invalidated
  PROVE  Keeps(k, w)
<1>1. \A e \in Copies(k) : OnlyBy(e, w)
  BY DEF KeepInv
<1>2. \A s \in Servers : OnlyBy(store[s][k], w)
  BY <1>1 DEF Copies
<1> QED
  BY <1>1, <1>2, KeepsEntries

(***************************************************************************)
(* A put, by the writer or of another key.                                 *)
(***************************************************************************)
LEMMA KeepsPut ==
  ASSUME KeepInv, NEW k \in Keys, NEW w \in Servers, OnlyWriter(k, w),
         NEW s \in Servers, NEW x \in Keys, NEW v \in Values, StorePut(s, x, v)
  PROVE  Keeps(k, w)
<1>1. PICK E \in Evictable(s) :
        store' = [store EXCEPT ![s] = [Evicted(store[s], E) EXCEPT ![x] =
                    Entry(v, bumpVersion(Evicted(store[s], E)[x].version, s))]]
  BY PutStores
<1>2. E = {} /\ store[s] \in [Keys -> EntryType] /\ TypeOK
  BY DEF Evictable, OnlyWriter, KeepInv, TypeOK
<1>3. Evicted(store[s], E) = store[s]
  BY <1>2, EvictedNothing
<1> DEFINE n == Entry(v, bumpVersion(store[s][x].version, s))
<1>4. store' = [store EXCEPT ![s] = [store[s] EXCEPT ![x] = n]]
  BY <1>1, <1>3
<1>5. ae' = ae
  BY DEF StorePut
<1>6. \A y \in Servers : k \in DOMAIN ae'[y].entries => ae'[y].entries[k] \in Copies(k)
  BY <1>5 DEF Copies
<1>7. \A y \in Servers : k \notin ae'[y].invalidated
  BY <1>5 DEF KeepInv, NeverReported
<1>8. CASE x # k
  <2>1. \A y \in Servers : store'[y][k] = store[y][k]
    BY <1>2, <1>4, <1>8 DEF TypeOK
  <2> QED
    BY <1>6, <1>7, <2>1, KeepsSame
<1>9. CASE x = k
  <2>1. s = w
    BY <1>9 DEF StorePut, OnlyWriter
  <2>2. \A e \in Copies(k) : OnlyBy(e, w)
    BY DEF KeepInv
  <2>3. \A y \in Servers : OnlyBy(store[y][k], w)
    BY <2>2 DEF Copies
  <2>4. DOMAIN bumpVersion(store[s][k].version, s) = DOMAIN store[s][k].version \union {s}
    BY DEF bumpVersion
  <2>5. n.version = bumpVersion(store[s][k].version, s)
    BY <1>9 DEF Entry
  <2>6. OnlyBy(n, w)
    BY <2>1, <2>3, <2>4, <2>5 DEF OnlyBy
  <2>7. n # Absent
    BY GroupAssumption DEF Entry, Absent
  <2> HIDE DEF n
  <2>8. store'[s][k] = n /\ \A y \in Servers \ {s} : store'[y][k] = store[y][k]
    BY <1>2, <1>4, <1>9 DEF TypeOK
  <2> QED
    BY <1>6, <1>7, <2>2, <2>3, <2>6, <2>7, <2>8, KeepsEntries
<1> QED
  BY <1>8, <1>9

(***************************************************************************)
(* Collecting entries only adds copies of what is stored.                  *)
(***************************************************************************)
LEMMA KeepsCollect ==
  ASSUME KeepInv, NEW k \in Keys, NEW w \in Servers, OnlyWriter(k, w),
         NEW s \in Servers, Collect(s)
  PROVE  Keeps(k, w)
<1>1. PICK d \in Pending(s) :
        ae' = [ae EXCEPT ![s] =
            [pc |-> "calling", dest |-> d, invalidated |-> {},
             entries |-> [y \in {x \in diffs[s][d] : store[s][x] # Absent} |-> store[s][y]]]]
  BY DEF Collect
<1>2. ae'[s].invalidated = {} /\ \A y \in Servers \ {s} : ae'[y] = ae[y]
  BY <1>1 DEF KeepInv, TypeOK
<1>3. k \in DOMAIN ae'[s].entries => ae'[s].entries[k] = store[s][k]
  BY <1>1 DEF KeepInv, TypeOK
<1>4. \A y \in Servers : k \in DOMAIN ae'[y].entries => ae'[y].entries[k] \in Copies(k)
  BY <1>2, <1>3 DEF Copies
<1>5. \A y \in Servers : k \notin ae'[y].invalidated
  BY <1>2 DEF KeepInv, NeverReported
<1> QED
  BY <1>4, <1>5, KeepsSame DEF Collect

(***************************************************************************)
(* The end of a call removes reported keys only.                           *)
(***************************************************************************)
LEMMA KeepsReset ==
  ASSUME KeepInv, NEW k \in Keys, NEW w \in Servers, OnlyWriter(k, w),
         NEW s \in Servers, ae' = [ae EXCEPT ![s] = Sleeping],
         \/ store' = store
         \/ store' = [store EXCEPT ![s] = Evicted(store[s], ae[s].invalidated)]
  PROVE  Keeps(k, w)
<1>1. ae'[s].invalidated = {} /\ DOMAIN ae'[s].entries = {}
  BY DEF KeepInv, TypeOK, Sleeping, NoEntries
<1>2. \A y \in Servers \ {s} : ae'[y] = ae[y]
  BY DEF KeepInv, TypeOK
<1>3. \A y \in Servers : k \in DOMAIN ae'[y].entries => ae'[y].entries[k] \in Copies(k)
  BY <1>1, <1>2 DEF Copies
<1>4. \A y \in Servers : k \notin ae'[y].invalidated
  BY <1>1, <1>2 DEF KeepInv, NeverReported
<1>5. Evicted(store[s], ae[s].invalidated)[k] = store[s][k]
  BY DEF KeepInv, NeverReported, Evicted
<1>6. \A y \in Servers : store'[y][k] = store[y][k]
  BY <1>5 DEF KeepInv, TypeOK
<1> QED
  BY <1>3, <1>4, <1>6, KeepsSame

(***************************************************************************)
(* The handler of a call keeps one of two copies.                          *)
(***************************************************************************)
LEMMA KeepsDeliver ==
  ASSUME KeepInv, NEW k \in Keys, NEW w \in Servers, OnlyWriter(k, w),
         NEW s \in Servers, Deliver(s)
  PROVE  Keeps(k, w)
<1> DEFINE d == ae[s].dest
           sent == ae[s].entries
<1>1. TypeOK /\ d \in Servers /\ sent \in BatchType /\ ~ MemoryTight
  BY DeliverEffect DEF KeepInv, TypeOK, ThreadType, OnlyWriter
<1>2. \A y \in Servers : k \notin ae[y].invalidated
  BY DEF KeepInv, NeverReported
<1>3. \A e \in Copies(k) : OnlyBy(e, w)
  BY DEF KeepInv
<1>4. CASE store' = store /\ ae' = [ae EXCEPT ![s].pc = "replied"]
  <2>1. \A y \in Servers : ae'[y].entries = ae[y].entries /\ ae'[y].invalidated = ae[y].invalidated
    BY <1>1, <1>4 DEF TypeOK, ThreadType
  <2>2. \A y \in Servers : k \in DOMAIN ae'[y].entries => ae'[y].entries[k] \in Copies(k)
    BY <2>1 DEF Copies
  <2> QED
    BY <1>2, <1>4, <2>1, <2>2, KeepsSame
<1>5. ASSUME NEW E \in Evictable(d), NEW F \in SUBSET Keys, MemoryTight \/ F = {},
             store' = [store EXCEPT ![d] =
                         Evicted(Resolved(Evicted(store[d], E), sent), F)],
             ae' = [ae EXCEPT ![s].pc = "replied", ![s].invalidated =
                         {x \in DOMAIN sent : conflict(Evicted(store[d], E)[x], sent[x])}]
      PROVE  Keeps(k, w)
  <2>1. E = {} /\ F = {} /\ store[d] \in [Keys -> EntryType]
    BY <1>1, <1>5 DEF Evictable, TypeOK
  <2>2. Evicted(store[d], E) = store[d]
    BY <2>1, EvictedNothing
  <2>3. store' = [store EXCEPT ![d] = Resolved(store[d], sent)]
    BY <1>1, <1>5, <2>1, <2>2, EvictedNothing, ResolvedType
  <2>4. /\ \A y \in Servers : ae'[y].entries = ae[y].entries
        /\ \A y \in Servers \ {s} : ae'[y].invalidated = ae[y].invalidated
        /\ ae'[s].invalidated = {x \in DOMAIN sent : conflict(store[d][x], sent[x])}
    BY <1>1, <1>5, <2>2 DEF TypeOK, ThreadType
  <2>5. \A y \in Servers \ {d} : store'[y] = store[y]
    BY <1>1, <2>3 DEF TypeOK
  <2>6. store'[d][k] = IF k \in DOMAIN sent THEN resolve(store[d][k], sent[k]) ELSE store[d][k]
    BY <1>1, <2>3 DEF Resolved, TypeOK
  <2>7. \A y \in Servers : k \in DOMAIN ae'[y].entries => ae'[y].entries[k] \in Copies(k)
    BY <2>4 DEF Copies
  <2>8. ASSUME k \in DOMAIN sent
        PROVE  /\ ~ conflict(store[d][k], sent[k])
               /\ resolve(store[d][k], sent[k]) \in {store[d][k], sent[k]}
               /\ store[d][k] # Absent => resolve(store[d][k], sent[k]) # Absent
    <3>1. sent[k] \in Copies(k) /\ store[d][k] \in Copies(k)
      BY <1>1, <2>8 DEF Copies
    <3>2. sent[k] \in EntryType /\ sent[k] # Absent /\ store[d][k] \in EntryType
      BY <1>1, <2>1, <2>8, BatchFacts
    <3> QED
      BY <1>3, <3>1, <3>2, ResolveOnlyBy
  <2>9. \A y \in Servers : k \notin ae'[y].invalidated
    BY <1>2, <2>4, <2>8
  <2>10. \A y \in Servers : OnlyBy(store[y][k], w)
    BY <1>3 DEF Copies
  <2>11. k \in DOMAIN sent => OnlyBy(sent[k], w)
    BY <1>3 DEF Copies
  <2>12. OnlyBy(store'[d][k], w) /\ (store[d][k] # Absent => store'[d][k] # Absent)
    BY <1>1, <2>6, <2>8, <2>10, <2>11
  <2>13. \A y \in Servers : /\ OnlyBy(store'[y][k], w)
                            /\ store[y][k] # Absent => store'[y][k] # Absent
    BY <2>5, <2>10, <2>12
  <2> QED
    BY <1>3, <2>7, <2>9, <2>13, KeepsEntries
<1> QED
  BY <1>1, <1>4, <1>5, DeliverEffect

(***************************************************************************)
(* adjustVersion drops counters, not entries.                              *)
(***************************************************************************)
LEMMA KeepsAdjust ==
  ASSUME KeepInv, NEW k \in Keys, NEW w \in Servers, OnlyWriter(k, w),
         NEW s \in Servers, adjustVersion(s)
  PROVE  Keeps(k, w)
<1> DEFINE g == Group(2)
           e == store[s][k]
<1>1. ae' = ae /\ store' = [store EXCEPT ![s] = [x \in Keys |-> Strip(store[s][x], g)]]
  BY DEF adjustVersion
<1>2. \A c \in Copies(k) : OnlyBy(c, w)
  BY DEF KeepInv
<1>3. \A y \in Servers : OnlyBy(store[y][k], w)
  BY <1>2 DEF Copies
<1>4. e \in EntryType
  BY DEF KeepInv, TypeOK
<1>5. OnlyBy(Strip(e, g), w) /\ (e # Absent => Strip(e, g) # Absent)
  <2>1. CASE e = Absent
    BY <1>3, <2>1 DEF Strip
  <2>2. CASE e # Absent
    <3> DEFINE v == [x \in DOMAIN e.version \cap g |-> e.version[x]]
    <3>1. Strip(e, g) = Entry(e.value, v) /\ e.value \in Values
      BY <1>4, <2>2, EntryFacts DEF Strip
    <3>2. DOMAIN v \subseteq {w}
      BY <1>3 DEF OnlyBy
    <3> HIDE DEF v
    <3> QED
      BY <3>1, <3>2, GroupAssumption DEF Entry, Absent, OnlyBy
  <2> QED
    BY <2>1, <2>2
<1> HIDE DEF g
<1>6. store'[s][k] = Strip(e, g) /\ \A y \in Servers \ {s} : store'[y][k] = store[y][k]
  BY <1>1 DEF KeepInv, TypeOK
<1>7. \A y \in Servers : k \in DOMAIN ae'[y].entries => OnlyBy(ae'[y].entries[k], w)
  BY <1>1, <1>2 DEF Copies
<1>8. \A y \in Servers : k \notin ae'[y].invalidated
  BY <1>1 DEF KeepInv, NeverReported
<1> QED
  BY <1>3, <1>5, <1>6, <1>7, <1>8, KeepsEntries

(***************************************************************************)
(* So does every step of ViewChange.                                       *)
(***************************************************************************)
LEMMA KeepsStep ==
  ASSUME KeepInv, [VNext]_vvars, NEW k \in Keys, NEW w \in Servers, OnlyWriter(k, w)
  PROVE  Keeps(k, w)
<1>1. ASSUME NEW s \in Servers, Fail(s) \/ Reply(s) PROVE Keeps(k, w)
  BY <1>1, KeepsReset DEF Fail, Reply
<1>2. CASE StopWriting \/ UNCHANGED vars
  <2>1. store' = store /\ ae' = ae
    BY <1>2 DEF StopWriting, vars
  <2>2. \A y \in Servers : k \in DOMAIN ae'[y].entries => ae'[y].entries[k] \in Copies(k)
    BY <2>1 DEF Copies
  <2>3. \A y \in Servers : k \notin ae'[y].invalidated
    BY <2>1 DEF KeepInv, NeverReported
  <2> QED
    BY <2>1, <2>2, <2>3, KeepsSame
<1> QED
  BY <1>1, <1>2, ViewChangeCases, KeepsPut, KeepsCollect, KeepsReset, KeepsDeliver, KeepsAdjust

(***************************************************************************)
(* When all the puts of a key go to one server, a server that leaves takes *)
(* the key from no replica, even if it is that server: not in the middle   *)
(* of the change and not afterwards, for any number of replicas and keys.  *)
(***************************************************************************)
THEOREM ViewChangeKeeps == VSpec => SoleWriterKeeps
<1>1. Init => KeepInv
  <2> SUFFICES ASSUME Init PROVE KeepInv
    OBVIOUS
  <2>1. TypeOK
    BY TypeOKInit
  <2>2. \A s \in Servers : ae[s].invalidated = {} /\ DOMAIN ae[s].entries = {}
    BY DEF Init, Sleeping, NoEntries
  <2>3. \A k \in Keys : Copies(k) \subseteq {Absent}
    BY <2>2 DEF Copies, Init
  <2>4. \A w : OnlyBy(Absent, w)
    BY DEF OnlyBy, Absent, Entry, EmptyVersion
  <2> QED
    BY <2>1, <2>2, <2>3, <2>4 DEF KeepInv, NeverReported
<1>2. KeepInv /\ [VNext]_vvars => KeepInv'
  <2> SUFFICES ASSUME KeepInv, [VNext]_vvars PROVE KeepInv'
    OBVIOUS
  <2>1. TypeOK'
    BY VTypeStep DEF KeepInv
  <2> QED
    BY <2>1, KeepsStep DEF KeepInv, Keeps, NeverReported, OnlyWriter
<1> DEFINE KeptByAll == \A k \in Keys, w \in Servers : OnlyWriter(k, w) =>
             \A s \in Servers : store[s][k] # Absent => store'[s][k] # Absent
<1>3. KeepInv /\ [VNext]_vvars => [KeptByAll]_vvars
  BY KeepsStep DEF Keeps
<1> QED
  BY <1>1, <1>2, <1>3, PTL DEF VSpec, VInit, SoleWriterKeeps
=============================================================================
