------------------------------ MODULE LRUCache ------------------------------
(***************************************************************************)
(* What the storage engine of a cache server promises, without the hash    *)
(* table: a map from keys to values, together with the order in which its  *)
(* keys were last used.  HashTable.tla implements this specification.      *)
(*                                                                         *)
(* A put, a propagate (an entry received from a replica) and a cleanHash   *)
(* are jobs: they begin, may evict while they run, and end with one change *)
(* of the map.  A get and the invalidation of a key are single steps.      *)
(***************************************************************************)
EXTENDS Integers, FiniteSetsExt

CONSTANTS
  Keys,         \* the keys a client may use
  Values,       \* the values a client may store
  KeySize,      \* bytes of a key, [Keys -> Nat]
  ValueSize,    \* bytes of a value, [Values -> Nat]
  MemoryLimit,  \* MEMORY_LIMIT
  NoKey,        \* the empty string where no key is stored
  NoValue       \* the empty string where no value is stored

VARIABLES
  cache,        \* the map: a function from a subset of Keys to Values
  recency,      \* <<a, b>> \in recency: key a was used more recently than b
  job           \* the operation that holds the engine, or NoJob

lruVars == <<cache, recency, job>>

Job(kind, k, v, owned) == [kind |-> kind, key |-> k, value |-> v, owned |-> owned]
NoJob == Job("none", NoKey, NoValue, {})

(***************************************************************************)
(* The order of use after key k is forgotten, and after key k is used when *)
(* ks are the keys of the map.                                             *)
(***************************************************************************)
Without(r, k) == {e \in r : e[1] # k /\ e[2] # k}
Touch(r, k, ks) == Without(r, k) \union {<<k, o>> : o \in ks \ {k}}

(***************************************************************************)
(* Memory in use, as getUsedMemory counts it: the bytes of keys and values.*)
(***************************************************************************)
Footprint(c) == SumFunction([k \in DOMAIN c |-> KeySize[k] + ValueSize[c[k]]])

Store(k, v) ==
  /\ cache' = [x \in DOMAIN cache \union {k} |-> IF x = k THEN v ELSE cache[x]]
  /\ recency' = Touch(recency, k, DOMAIN cache)

Drop(k) ==
  /\ k \in DOMAIN cache
  /\ cache' = [x \in DOMAIN cache \ {k} |-> cache[x]]
  /\ recency' = Without(recency, k)

-----------------------------------------------------------------------------
LRUInit ==
  /\ cache = [k \in {} |-> NoValue]
  /\ recency = {}
  /\ job = NoJob

Begin ==
  /\ job = NoJob
  /\ \/ \E kind \in {"put", "propagate"}, k \in Keys, v \in Values :
          job' = Job(kind, k, v, {})
     \/ \E owned \in SUBSET Keys : job' = Job("clean", NoKey, NoValue, owned)
  /\ UNCHANGED <<cache, recency>>

(***************************************************************************)
(* A running put or propagate evicts the least recently used key, and does *)
(* so only while the map is over its memory limit.                         *)
(***************************************************************************)
Evict(k) ==
  /\ job.kind \in {"put", "propagate"}
  /\ Footprint(cache) > MemoryLimit
  /\ \A o \in DOMAIN cache \ {k} : <<o, k>> \in recency
  /\ Drop(k)
  /\ UNCHANGED job

(***************************************************************************)
(* A put or a propagate takes effect, back under the memory limit.  A      *)
(* propagate may also leave the key alone, or drop it on a conflict.       *)
(***************************************************************************)
Perform ==
  /\ job.kind \in {"put", "propagate"}
  /\ Footprint(cache) <= MemoryLimit
  /\ \/ Store(job.key, job.value)
     \/ /\ job.kind = "propagate"
        /\ job.key \in DOMAIN cache
        /\ UNCHANGED <<cache, recency>>
     \/ /\ job.kind = "propagate"
        /\ job.key \in DOMAIN cache
        /\ cache[job.key] # job.value
        /\ Drop(job.key)
  /\ job' = NoJob

(***************************************************************************)
(* A clean that finds only owned keys keeps them all.  One that does not   *)
(* drops the most recently used key it does not own, and stops there.      *)
(***************************************************************************)
KeepAll ==
  /\ job.kind = "clean"
  /\ DOMAIN cache \subseteq job.owned
  /\ job' = NoJob
  /\ UNCHANGED <<cache, recency>>

Purge(k) ==
  /\ job.kind = "clean"
  /\ k \notin job.owned
  /\ \A o \in DOMAIN cache : <<o, k>> \in recency => o \in job.owned
  /\ Drop(k)
  /\ job' = NoJob

Hit(k) ==
  /\ job = NoJob
  /\ k \in DOMAIN cache
  /\ recency' = Touch(recency, k, DOMAIN cache)
  /\ UNCHANGED <<cache, job>>

Invalidate(k) ==
  /\ job = NoJob
  /\ Drop(k)
  /\ UNCHANGED job

LRUNext ==
  \/ Begin
  \/ Perform
  \/ KeepAll
  \/ \E k \in Keys : Evict(k) \/ Purge(k) \/ Hit(k) \/ Invalidate(k)

LRUSpec == LRUInit /\ [][LRUNext]_lruVars
=============================================================================
