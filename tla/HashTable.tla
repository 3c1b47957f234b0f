------------------------------ MODULE HashTable ------------------------------
(***************************************************************************)
(* The storage engine of a cache server (prototype/server.cpp): an open    *)
(* addressing hash table with linear probing and tombstones, whose live    *)
(* records also form a doubly linked list in order of use, and the load    *)
(* and memory bookkeeping around it.                                       *)
(*                                                                         *)
(* Every operation runs under hashMutex, so one operation at a time holds  *)
(* the engine.  Its loops (evictions, rehash, cleanHash) are modelled one  *)
(* iteration per step; pc is the line the operation is at.  A probe loop   *)
(* (getPosition) is one step: AtPosition(t, k, p) says that it stops at p. *)
(***************************************************************************)
EXTENDS Integers, FiniteSetsExt

CONSTANTS
  Keys, Values, KeySize, ValueSize, MemoryLimit, NoKey, NoValue,
  Hash,      \* hash(key), an unsigned int, before the reduction to a slot
  InitSize   \* slots of a new table, hashTable(10)

ASSUME StoreAssumption ==
  /\ KeySize \in [Keys -> Nat]
  /\ ValueSize \in [Values -> Nat]
  /\ MemoryLimit \in Nat
  /\ NoKey \notin Keys
  /\ NoValue \notin Values
  /\ Hash \in [Keys -> Nat]
  /\ InitSize \in Nat /\ InitSize >= 3
  /\ IsFiniteSet(Keys) /\ Keys # {}
  /\ IsFiniteSet(Values) /\ Values # {}

VARIABLES
  table,              \* hashTable, listHead and listTail
  totalKeyValueSize,  \* bytes of the live keys and values
  numEntries,         \* live records
  numDeadEntries,     \* tombstones
  recency,            \* auxiliary: <<a, b>> \in recency, a was used after b
  pc, op,             \* the running operation and where it is
  cursor,             \* loop variable of rehash and cleanHash
  newTable            \* newTable, newListHead and newListTail of rehash

storeVars == <<table, totalKeyValueSize, numEntries, numDeadEntries, recency>>
loopVars == <<cursor, newTable>>
vars == <<storeVars, pc, op, loopVars>>

Op(kind, k, v, owned) == [kind |-> kind, key |-> k, value |-> v, owned |-> owned]
NoOp == Op("none", NoKey, NoValue, {})

-----------------------------------------------------------------------------
(* Records and tables.                                                     *)

Null == -1

Record(state, k, v, prev, next) ==
  [state |-> state, key |-> k, value |-> v, prev |-> prev, next |-> next]

EmptyRecord == Record("EMPTY", NoKey, NoValue, Null, Null)

NewTable(n) ==
  [size |-> n, slots |-> [p \in 0 .. n - 1 |-> EmptyRecord],
   head |-> Null, tail |-> Null]

Slots(t) == 0 .. t.size - 1
Alive(t) == {p \in Slots(t) : t.slots[p].state = "ALIVE"}
Dead(t) == {p \in Slots(t) : t.slots[p].state = "DEAD"}
KeysOf(t) == {t.slots[p].key : p \in Alive(t)}

(***************************************************************************)
(* Probing from the home slot h reaches slot q before slot p.              *)
(***************************************************************************)
Before(h, q, p) == IF h <= p THEN h <= q /\ q < p ELSE h <= q \/ q < p

Home(t, k) == Hash[k] % t.size

(***************************************************************************)
(* getPosition(key) = p: p is the first slot of the probe sequence that is *)
(* empty or holds the key.  The loop has no other exit.                    *)
(***************************************************************************)
Stops(r, k) == r.state = "EMPTY" \/ (r.state = "ALIVE" /\ r.key = k)

AtPosition(t, k, p) ==
  /\ p \in Slots(t)
  /\ Stops(t.slots[p], k)
  /\ \A q \in Slots(t) : Before(Home(t, k), q, p) => ~ Stops(t.slots[q], k)

(***************************************************************************)
(* The probe of rehash looks for an empty slot only.                       *)
(***************************************************************************)
AtFree(t, k, p) ==
  /\ p \in Slots(t)
  /\ t.slots[p].state = "EMPTY"
  /\ \A q \in Slots(t) : Before(Home(t, k), q, p) => t.slots[q].state # "EMPTY"

-----------------------------------------------------------------------------
(* The list of live records.                                               *)

\* Mutant: the last record leaves the list without moving listTail.
removeFromListKeepTail(t, p) ==
  LET r == t.slots[p]
      l == IF r.prev # Null THEN [t EXCEPT !.slots[r.prev].next = r.next]
                            ELSE [t EXCEPT !.head = r.next]
  IN IF r.next # Null THEN [l EXCEPT !.slots[r.next].prev = r.prev] ELSE l

removeFromList(t, p) ==
  LET r == t.slots[p]
      l == IF r.prev # Null THEN [t EXCEPT !.slots[r.prev].next = r.next]
                            ELSE [t EXCEPT !.head = r.next]
  IN IF r.next # Null THEN [l EXCEPT !.slots[r.next].prev = r.prev]
                      ELSE [l EXCEPT !.tail = r.prev]

addToFront(t, p) ==
  LET l == [t EXCEPT !.slots[p].prev = Null, !.slots[p].next = t.head]
      m == IF t.head # Null THEN [l EXCEPT !.slots[t.head].prev = p] ELSE l
  IN [m EXCEPT !.head = p, !.tail = IF t.tail = Null THEN p ELSE t.tail]

\* Mutant: an access leaves the record where it is in the list.
accessEntryInPlace(t, p) == t

accessEntry(t, p) == addToFront(removeFromList(t, p), p)

\* Mutant: a removed record becomes empty instead of a tombstone.
removeEntryNoTombstone(t, p) ==
  [removeFromList(t, p) EXCEPT !.slots[p] = EmptyRecord]

removeEntry(t, p) ==
  [removeFromList(t, p) EXCEPT !.slots[p] = Record("DEAD", NoKey, NoValue, Null, Null)]

addEntry(t, p, k, v) ==
  addToFront([t EXCEPT !.slots[p] = Record("ALIVE", k, v, @.prev, @.next)], p)

(***************************************************************************)
(* One iteration of rehash: record r goes to slot p, behind the new tail.  *)
(***************************************************************************)
appendRecord(t, p, r) ==
  LET l == [t EXCEPT !.slots[p] = Record("ALIVE", r.key, r.value, t.tail, Null)]
      m == IF t.tail # Null THEN [l EXCEPT !.slots[t.tail].next = p] ELSE l
  IN [m EXCEPT !.head = IF t.head = Null THEN p ELSE t.head, !.tail = p]

Without(r, k) == {e \in r : e[1] # k /\ e[2] # k}
Touch(r, k, ks) == Without(r, k) \union {<<k, o>> : o \in ks \ {k}}

EntrySize(r) == KeySize[r.key] + ValueSize[r.value]

-----------------------------------------------------------------------------
Init ==
  /\ table = NewTable(InitSize)
  /\ totalKeyValueSize = 0
  /\ numEntries = 0
  /\ numDeadEntries = 0
  /\ recency = {}
  /\ pc = "idle" /\ op = NoOp
  /\ cursor = Null /\ newTable = NewTable(InitSize)

(***************************************************************************)
(* removeEntry(p), with its bookkeeping.                                   *)
(***************************************************************************)
RemoveAt(p) ==
  LET r == table.slots[p] IN
  /\ table' = removeEntry(table, p)
  /\ totalKeyValueSize' = totalKeyValueSize - EntrySize(r)
  /\ numEntries' = numEntries - 1
  /\ numDeadEntries' = numDeadEntries + 1
  /\ recency' = Without(recency, r.key)

\* Mutant: an insertion is not counted.
AddAtUncounted(p, k, v) ==
  /\ table.slots[p].state = "EMPTY"
  /\ table' = addEntry(table, p, k, v)
  /\ totalKeyValueSize' = totalKeyValueSize + KeySize[k] + ValueSize[v]
  /\ recency' = Touch(recency, k, KeysOf(table))
  /\ UNCHANGED <<numEntries, numDeadEntries>>

(***************************************************************************)
(* addEntry(p, k, v), with its bookkeeping.                                *)
(***************************************************************************)
AddAt(p, k, v) ==
  /\ table.slots[p].state = "EMPTY"
  /\ table' = addEntry(table, p, k, v)
  /\ totalKeyValueSize' = totalKeyValueSize + KeySize[k] + ValueSize[v]
  /\ numEntries' = numEntries + 1
  /\ recency' = Touch(recency, k, KeysOf(table))
  /\ UNCHANGED numDeadEntries

(***************************************************************************)
(* The update of a live record: new value, then accessEntry.               *)
(***************************************************************************)
UpdateAt(p, v) ==
  LET r == table.slots[p] IN
  /\ table' = accessEntry([table EXCEPT !.slots[p].value = v], p)
  /\ totalKeyValueSize' = totalKeyValueSize - ValueSize[r.value] + ValueSize[v]
  /\ recency' = Touch(recency, r.key, KeysOf(table))
  /\ UNCHANGED <<numEntries, numDeadEntries>>

-----------------------------------------------------------------------------
(* normalizeTable, at the start of put and of propagate.                   *)

Begin(kind, k, v) ==
  /\ pc = "idle"
  /\ pc' = "evict"
  /\ op' = Op(kind, k, v, {})
  /\ UNCHANGED <<storeVars, loopVars>>

\* Mutant: the most recently used record is evicted.
EvictHead ==
  /\ pc = "evict"
  /\ totalKeyValueSize > MemoryLimit
  /\ table.tail # Null
  /\ RemoveAt(table.head)
  /\ UNCHANGED <<pc, op, loopVars>>

(***************************************************************************)
(* while (getUsedMemory() > MEMORY_LIMIT) evictEntry();                    *)
(***************************************************************************)
EvictEntry ==
  /\ pc = "evict"
  /\ totalKeyValueSize > MemoryLimit
  /\ table.tail # Null
  /\ RemoveAt(table.tail)
  /\ UNCHANGED <<pc, op, loopVars>>

StartRehash(n) ==
  /\ newTable' = NewTable(n)
  /\ cursor' = table.head

\* Mutant: at most one eviction, an if in place of the while.
CheckGrowEarly ==
  /\ pc = "evict"
  /\ IF 4 * numEntries > table.size
     THEN pc' = "grow" /\ StartRehash(2 * table.size)
     ELSE pc' = "check" /\ UNCHANGED loopVars
  /\ UNCHANGED <<storeVars, op>>

CheckGrow ==
  /\ pc = "evict"
  /\ totalKeyValueSize <= MemoryLimit
  /\ IF 4 * numEntries > table.size
     THEN pc' = "grow" /\ StartRehash(2 * table.size)
     ELSE pc' = "check" /\ UNCHANGED loopVars
  /\ UNCHANGED <<storeVars, op>>

\* Mutant: tombstones do not count towards the load.
CheckCompactLive ==
  /\ pc = "check"
  /\ IF 2 * numEntries > table.size
     THEN pc' = "compact" /\ StartRehash(table.size)
     ELSE pc' = "apply" /\ UNCHANGED loopVars
  /\ UNCHANGED <<storeVars, op>>

CheckCompact ==
  /\ pc = "check"
  /\ IF 2 * (numEntries + numDeadEntries) > table.size
     THEN pc' = "compact" /\ StartRehash(table.size)
     ELSE pc' = "apply" /\ UNCHANGED loopVars
  /\ UNCHANGED <<storeVars, op>>

RehashStep ==
  /\ pc \in {"grow", "compact"}
  /\ cursor # Null
  /\ \E p \in Slots(newTable) :
       /\ AtFree(newTable, table.slots[cursor].key, p)
       /\ newTable' = appendRecord(newTable, p, table.slots[cursor])
  /\ cursor' = table.slots[cursor].next
  /\ UNCHANGED <<storeVars, pc, op>>

\* Mutant: rehash forgets to reset the count of tombstones.
RehashDoneNoReset ==
  /\ pc \in {"grow", "compact"}
  /\ cursor = Null
  /\ table' = newTable
  /\ newTable' = NewTable(InitSize)
  /\ pc' = IF pc = "grow" THEN "check" ELSE "apply"
  /\ UNCHANGED <<totalKeyValueSize, numEntries, numDeadEntries, recency, op, cursor>>

RehashDone ==
  /\ pc \in {"grow", "compact"}
  /\ cursor = Null
  /\ table' = newTable
  /\ newTable' = NewTable(InitSize)
  /\ numDeadEntries' = 0
  /\ pc' = IF pc = "grow" THEN "check" ELSE "apply"
  /\ UNCHANGED <<totalKeyValueSize, numEntries, recency, op, cursor>>

-----------------------------------------------------------------------------
(* The rest of put and of propagate, once the table is normalized.         *)

Finish == pc' = "idle" /\ op' = NoOp

ApplyPut ==
  /\ pc = "apply" /\ op.kind = "put"
  /\ \E p \in Slots(table) :
       /\ AtPosition(table, op.key, p)
       /\ IF table.slots[p].state = "ALIVE"
          THEN UpdateAt(p, op.value)
          ELSE AddAt(p, op.key, op.value)
  /\ Finish
  /\ UNCHANGED loopVars

(***************************************************************************)
(* propagate compares version vectors (AntiEntropy.tla); what it does to   *)
(* the table is one of: add a missing key, keep the record ("skipping",    *)
(* "conflict resolved"), replace it, or remove it because of a conflict.   *)
(***************************************************************************)
ApplyPropagate ==
  /\ pc = "apply" /\ op.kind = "propagate"
  /\ \E p \in Slots(table) :
       /\ AtPosition(table, op.key, p)
       /\ \/ table.slots[p].state # "ALIVE" /\ AddAt(p, op.key, op.value)
          \/ table.slots[p].state = "ALIVE" /\ UNCHANGED storeVars
          \/ table.slots[p].state = "ALIVE" /\ UpdateAt(p, op.value)
          \/ /\ table.slots[p].state = "ALIVE"
             /\ op.value # table.slots[p].value
             /\ RemoveAt(p)
  /\ Finish
  /\ UNCHANGED loopVars

-----------------------------------------------------------------------------
(* get, and the removal of an invalidated key by antiEntropyHandler.       *)

Get(k) ==
  /\ pc = "idle"
  /\ \E p \in Slots(table) :
       /\ AtPosition(table, k, p)
       /\ table.slots[p].state = "ALIVE"
       /\ table' = accessEntry(table, p)
  /\ recency' = Touch(recency, k, KeysOf(table))
  /\ UNCHANGED <<totalKeyValueSize, numEntries, numDeadEntries, pc, op, loopVars>>

Invalidate(k) ==
  /\ pc = "idle"
  /\ \E p \in Slots(table) :
       /\ AtPosition(table, k, p)
       /\ table.slots[p].state = "ALIVE"
       /\ RemoveAt(p)
  /\ UNCHANGED <<pc, op, loopVars>>

-----------------------------------------------------------------------------
(* cleanHash: owned are the keys this server is responsible for in the     *)
(* current view.  The loop reads hashTable[pos].next after removeEntry(pos)*)
(* has reset the record.                                                   *)

BeginClean(owned) ==
  /\ pc = "idle"
  /\ table.head # Null
  /\ pc' = "clean"
  /\ op' = Op("clean", NoKey, NoValue, owned)
  /\ cursor' = table.head
  /\ UNCHANGED <<storeVars, newTable>>

\* Mutant: the loop does not advance past a record that stays.
CleanStepNoAdvance ==
  /\ pc = "clean"
  /\ IF table.slots[cursor].key \in op.owned
     THEN UNCHANGED storeVars /\ UNCHANGED cursor
     ELSE RemoveAt(cursor) /\ cursor' = table'.slots[cursor].next
  /\ IF cursor' = Null THEN Finish ELSE UNCHANGED <<pc, op>>
  /\ UNCHANGED newTable

CleanStep ==
  /\ pc = "clean"
  /\ IF table.slots[cursor].key \in op.owned
     THEN UNCHANGED storeVars
     ELSE RemoveAt(cursor)
  /\ cursor' = table'.slots[cursor].next
  /\ IF cursor' = Null THEN Finish ELSE UNCHANGED <<pc, op>>
  /\ UNCHANGED newTable

-----------------------------------------------------------------------------
Request ==
  \/ \E kind \in {"put", "propagate"}, k \in Keys, v \in Values : Begin(kind, k, v)
  \/ \E k \in Keys : Get(k) \/ Invalidate(k)
  \/ \E owned \in SUBSET Keys : BeginClean(owned)

Step ==
  \/ EvictEntry
  \/ CheckGrow
  \/ CheckCompact
  \/ RehashStep
  \/ RehashDone
  \/ ApplyPut
  \/ ApplyPropagate
  \/ CleanStep

Next == Request \/ Step

Spec == Init /\ [][Next]_vars

(***************************************************************************)
(* The thread that holds hashMutex keeps running.                          *)
(***************************************************************************)
FairSpec == Spec /\ WF_vars(Step)

-----------------------------------------------------------------------------
(* Properties.                                                             *)

RecordType ==
  [state: {"EMPTY", "ALIVE", "DEAD"}, key: Keys \union {NoKey},
   value: Values \union {NoValue}, prev: Int, next: Int]

IsTable(t) ==
  /\ t.size \in Nat /\ t.size >= InitSize
  /\ t = [size |-> t.size, slots |-> t.slots, head |-> t.head, tail |-> t.tail]
  /\ t.slots \in [Slots(t) -> RecordType]
  /\ t.head \in Slots(t) \union {Null}
  /\ t.tail \in Slots(t) \union {Null}
  /\ \A p \in Slots(t) :
       /\ t.slots[p].prev \in Slots(t) \union {Null}
       /\ t.slots[p].next \in Slots(t) \union {Null}

(***************************************************************************)
(* The engine's variables have their types; pointers stay inside the table.*)
(***************************************************************************)
TypeOK ==
  /\ IsTable(table) /\ IsTable(newTable)
  /\ totalKeyValueSize \in Nat
  /\ numEntries \in Nat /\ numDeadEntries \in Nat
  /\ recency \subseteq Keys \X Keys
  /\ pc \in {"idle", "evict", "grow", "check", "compact", "apply", "clean"}
  /\ cursor \in Slots(table) \union {Null}

(***************************************************************************)
(* getPosition always stops: whatever the key, an empty slot or the key is *)
(* on its probe sequence.  get, propagate and the anti-entropy thread call *)
(* it without checking the load, and would spin with hashMutex held.       *)
(***************************************************************************)
ProbeTerminates == \A k \in Keys : \E p \in Slots(table) : AtPosition(table, k, p)

(***************************************************************************)
(* Every live record is found by its key: removals leave tombstones where  *)
(* a probe has to go on, rehash puts records where a probe will look, and  *)
(* no key is stored twice.                                                 *)
(***************************************************************************)
Findable == \A p \in Alive(table) : AtPosition(table, table.slots[p].key, p)

(***************************************************************************)
(* The list is the order of use: next leads from a record to the one used  *)
(* just before it, prev back, head and tail are its ends, and every live   *)
(* record is on it.                                                        *)
(***************************************************************************)
Newer(t, p, q) == <<t.slots[p].key, t.slots[q].key>> \in recency

Successor(t, p, q) ==
  /\ Newer(t, p, q)
  /\ \A m \in Alive(t) : ~ (Newer(t, p, m) /\ Newer(t, m, q))

ListInOrder(t) ==
  LET A == Alive(t) IN
  /\ \A p \in A :
       /\ t.slots[p].next \in A \union {Null}
       /\ t.slots[p].prev \in A \union {Null}
       /\ \A q \in A : (t.slots[p].next = q) <=> Successor(t, p, q)
       /\ \A q \in A : (t.slots[q].prev = p) <=> Successor(t, p, q)
       /\ (t.head = p) <=> \A q \in A : ~ Newer(t, q, p)
       /\ (t.tail = p) <=> \A q \in A : ~ Newer(t, p, q)
  /\ (A = {}) <=> (t.head = Null)
  /\ (A = {}) <=> (t.tail = Null)

ListIsRecency == ListInOrder(table)

(***************************************************************************)
(* The bookkeeping is exact: live and dead records are counted right and   *)
(* totalKeyValueSize is the sum over the live records, through evictions,  *)
(* conflicts, purges and rehashes.                                         *)
(***************************************************************************)
Accounting ==
  /\ numEntries = Cardinality(Alive(table))
  /\ numDeadEntries = Cardinality(Dead(table))
  /\ totalKeyValueSize = SumFunction([p \in Alive(table) |-> EntrySize(table.slots[p])])

(***************************************************************************)
(* The assertions of the code hold where they are evaluated: evictEntry    *)
(* has a tail to evict (line 496), addEntry writes to an empty slot (553), *)
(* and the records that leave the list are alive (515).                    *)
(***************************************************************************)
AssertionsHold ==
  /\ pc = "evict" /\ totalKeyValueSize > MemoryLimit =>
       /\ table.tail # Null
       /\ table.slots[table.tail].state = "ALIVE"
  /\ pc = "apply" => \A p \in Slots(table) :
       AtPosition(table, op.key, p) => table.slots[p].state \in {"EMPTY", "ALIVE"}
  /\ pc \in {"clean", "grow", "compact"} /\ cursor # Null =>
       table.slots[cursor].state = "ALIVE"

(***************************************************************************)
(* Memory in use exceeds MEMORY_LIMIT by at most one entry: eviction       *)
(* runs before an insertion and not after it.                              *)
(***************************************************************************)
MaxEntry == Max({KeySize[k] + ValueSize[v] : k \in Keys, v \in Values})
MemoryBound == totalKeyValueSize <= MemoryLimit + MaxEntry

(***************************************************************************)
(* The engine implements the map with its order of use.                    *)
(***************************************************************************)
CacheMap ==
  [k \in KeysOf(table) |->
     table.slots[CHOOSE p \in Alive(table) : table.slots[p].key = k].value]

LRU == INSTANCE LRUCache WITH cache <- CacheMap, job <- op

ImplementsLRU == LRU!LRUSpec

(***************************************************************************)
(* Every operation ends: the eviction, rehash and clean loops terminate    *)
(* and hashMutex is released.                                              *)
(***************************************************************************)
OperationEnds == (pc # "idle") ~> (pc = "idle")
=============================================================================
