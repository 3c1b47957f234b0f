------------------------------ MODULE Versions ------------------------------
(***************************************************************************)
(* Version vectors and the resolution of conflicts (prototype/server.cpp). *)
(* A vector holds at most one counter per server, so it is a function from *)
(* the servers it mentions to their counters.                              *)
(***************************************************************************)
EXTENDS Integers

EmptyVersion == [s \in {} |-> 0]

\* Mutant: the counters of the servers that both vectors mention are not
\* compared.
atMostDomain(v1, v2) == DOMAIN v1 \subseteq DOMAIN v2

\* Mutant: only vectors that mention the same servers are comparable.
atMostSame(v1, v2) ==
  /\ \A s \in DOMAIN v1 \cap DOMAIN v2 : v1[s] <= v2[s]
  /\ DOMAIN v1 = DOMAIN v2

atMost(v1, v2) ==
  /\ \A s \in DOMAIN v1 \cap DOMAIN v2 : v1[s] <= v2[s]
  /\ DOMAIN v1 \subseteq DOMAIN v2

(***************************************************************************)
(* updateVersion for every pair of v2: it raises the counters of the       *)
(* servers that v1 mentions and adds no server.                            *)
(***************************************************************************)
updateVersion(v1, v2) ==
  [s \in DOMAIN v1 |->
     IF s \in DOMAIN v2 /\ v2[s] > v1[s] THEN v2[s] ELSE v1[s]]

(***************************************************************************)
(* maximumVersion starts from an empty result and applies updateVersion    *)
(* with the pairs of both vectors.                                         *)
(***************************************************************************)
maximumVersion(v1, v2) == updateVersion(updateVersion(EmptyVersion, v1), v2)

\* Mutant: a put adds the server's counter but does not raise it.
bumpVersionOnce(v, s) ==
  [x \in DOMAIN v \union {s} |-> IF x \in DOMAIN v THEN v[x] ELSE 1]

(***************************************************************************)
(* The version of a record after a put at server s.                        *)
(***************************************************************************)
bumpVersion(v, s) ==
  [x \in DOMAIN v \union {s} |->
     IF x # s THEN v[x] ELSE IF s \in DOMAIN v THEN v[s] + 1 ELSE 1]

Entry(value, version) == [value |-> value, version |-> version]

(***************************************************************************)
(* Absent stands for a key with no live record.  resolve is what propagate *)
(* leaves for the key of an incoming entry, and conflict tells that it     *)
(* reports the key as invalidated.                                         *)
(***************************************************************************)
Absent == Entry("absent", EmptyVersion)

conflict(local, entry) ==
  /\ local # Absent
  /\ ~ atMost(entry.version, local.version)
  /\ ~ atMost(local.version, entry.version)
  /\ entry.value # local.value

resolve(local, entry) ==
  IF local = Absent THEN entry
  ELSE IF atMost(entry.version, local.version) THEN local
  ELSE IF atMost(local.version, entry.version) THEN entry
  ELSE IF entry.value = local.value
       THEN Entry(local.value, maximumVersion(entry.version, local.version))
  ELSE Absent
=============================================================================
