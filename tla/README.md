# TLA+ models of the distributed cache

The repository holds a replicated key-value cache: cache servers that place
replica groups on a consistent hashing ring, a view service that keeps track of
the servers, client libraries in C++, Python and Java, and a blog that uses the
cache in front of a database. This directory models the parts that carry its
logic, checks them with TLC on small instances, and proves the central
properties with TLAPS for every value of the constants.

`PROJECT.json` lists the runs, the source lines of every definition, the
mutants that show that each property can fail, the findings and the hazards.

## 1. The system

| Part | Where | State | Operations |
|---|---|---|---|
| Storage engine | `prototype/server.cpp` 33-51, 432-582 | `hashTable` with tombstones, `listHead`/`listTail`, `totalKeyValueSize`, `numEntries`, `numDeadEntries` | `getPosition`, `addEntry`, `removeEntry`, `accessEntry`, `evictEntry`, `rehash`, `normalizeTable` |
| Versions and anti-entropy | `server.cpp` 82-233, 258-302 | the `version` of every record, `diffs` per peer | `put`, `propagate`, `antiEntropy`, `antiEntropyHandler` |
| View handling of a server | `server.cpp` 235-256, 356-418 | `currentView` | `pingViewService`, `checkServer`, `cleanHash`, `adjustVersion` |
| View service | `prototype/view.cpp` | `views`, `hashToServer`, `viewNum`, `pings` | `addServer`, `addReplica`, `receivePing`, `getView`, `checkPings`, `getStatistics` |
| Ring | `prototype/ConsistentHashing.h`, `client.py`, `SimpleBlog/src/ConsistentHashing.java` | none | `ir_hash`, `getServer` |
| Clients | `prototype/client.h`, `client.py`, `SimpleBlog/src/CacheClient.java` | the cached view | `get`, `put`, `getView` |
| Blog | `SimpleBlog/src/HTTPServer.java` | database and cache | `getPosts`, adding a post |
| Statistics | `server.cpp` 326-330, `view.cpp` 44-61, 137-148, `monitor.cpp` | counters | `getStatistics`, `aggregateStatistics` |

How they interact. A client asks the view service for the view, looks up the
replica group of a key on the ring, and sends the request with the view number
to a random server of the group. The server compares the number with its own,
asks the view service when the client knows a newer view, and answers
WRONG_SERVER when it is not responsible. Each server pings the view service
every 100 ms and receives the current view in return; a new view number makes
it purge keys. Each server sends what it has written to the other replicas of
the key every second. The view service removes servers whose last ping is more
than a second old and numbers every new view.

Threads. A server has an I/O thread (Thrift's `TNonblockingServer`, as it is
constructed here, runs all handlers one after the other on one thread), a ping
thread and an anti-entropy thread, with `hashMutex` and `currentViewMutex`. The
view service has an I/O thread and a `checkPings` thread, with `pingsMutex` and
`viewMutex`. Sockets have no timeouts.

What is hard, and what makes each part correct:

- *Storage engine*: a long sequence of legal calls must not lose a key behind a
  removed record, fill the table with tombstones so that a probe never ends,
  break the list, or let the counters drift from what is stored.
- *Anti-entropy*: the call is made without the lock, may fail before or after
  the peer has applied it, and runs while clients put and memory pressure
  evicts. Acknowledged values must not be lost or reordered, diffs must be sent
  to every peer in the end, and replicas should agree.
- *View service*: joins, removals and false suspicions overlap at the points
  where locks are released. The ring, the view and the pings must stay
  consistent with one another, dead servers must leave, and numbers must
  identify views.
- *View handling*: a view is read under one lock and used under another; an
  exception in between leaks locks; replies may be adopted out of order; versions
  and diffs are rewritten while calls are under way.
- *Ring and clients*: three implementations must agree on the server of a key,
  down to 32-bit arithmetic and the wrap-around of the circle; a client must find
  its way back from any stale view.
- *Calls between processes*: every process has one I/O thread, handlers call
  other processes from it, and nothing times out.
- *Blog*: a cache with no ages in front of a database that may fail.

## 2. Modules

| Module | Models |
|---|---|
| `LRUCache` | What the storage engine promises: a map with an order of use, eviction of the least recently used key, only over the memory limit |
| `HashTable` | The storage engine, one iteration of each loop per step; implements `LRUCache` |
| `Versions` | Version vectors and the resolution of conflicts, as operators |
| `AntiEntropy` | A replica group in a fixed view: puts and the three steps of an anti-entropy round |
| `ViewChange` | Extends `AntiEntropy`: a server leaves the group and the others adopt the new view one after the other |
| `CacheServer` | One server's three threads, its mutexes and its view, over any sequence of views |
| `ViewService` | The view service's two threads and the life of server processes |
| `Ring` | The lookup on the circle in C++, Java and Python, while positions come and go |
| `KeyHash` | The 32-bit hash of a key in the three languages |
| `Routing` | Clients with cached views against servers and a view service that come and go |
| `RpcWaits` | Which thread of which process waits for which other one |
| `Blog` | The cache-aside protocol of the blog |
| `HashTableProofs`, `AntiEntropyProofs`, `ViewServiceProofs`, `CacheServerProofs`, `RingProofs`, `RpcWaitsProofs` | Theorems and proofs about the module of that name (`AntiEntropyProofs` also about `ViewChange`) |
| `ClientProofs` | Theorems and proofs about `Routing`, `KeyHash` and `Blog`, which are the programs around the servers |
| `Induction` | Induction over numbers and finite sets, and sums, for the other proofs |
| `MCHashTable`, `MCAntiEntropy`, `MCViewChange`, `MCViewService`, `MCCacheServer` | Values of the constants for TLC |

How they fit together. `HashTable` shows that the table is a map with an order,
which is what `AntiEntropy` and `CacheServer` take it to be. `CacheServer` and
`Routing` take views to be numbered in the order in which they are made, which
is what `ViewService` shows (`NumberIdentifiesView`), and a key to have one group
in a view, which is what `Ring` shows. `AntiEntropy` is about values and versions
in a group, `CacheServer` about which keys and diffs a server has, and
`ViewChange` composes the two for the versions: it has the puts and calls of
`AntiEntropy` and the rewriting of versions and diffs by `adjustVersion`.

**HashTable.** `table` is `hashTable` with `listHead` and `listTail`; the other
counters keep their names. `pc` is the line at which the operation that holds
`hashMutex` stands: `Begin` enters `put` or `propagate` at `normalizeTable`,
`EvictEntry` is an iteration of its `while`, `CheckGrow` and `CheckCompact` its
two `if`s, `RehashStep` and `RehashDone` the loop of `rehash` and what follows
it, `ApplyPut` and `ApplyPropagate` the rest of the two operations, `Get` and
`Invalidate` single steps, `BeginClean` and `CleanStep` the loop of
`cleanHash`, which reads `next` of a record it has just reset, as the code does.
A probe is one step: `AtPosition(t, k, p)` says that `getPosition` stops at `p`.
The load factors 0.25 and 0.5 are integer comparisons. Keys and values are
sizes with an identity; the hash function is a parameter, so that collisions and
wrap-around can be chosen. `recency` is an auxiliary variable, the order in
which keys were last used; the list is compared with it. Versions are left to
`AntiEntropy`, so what `propagate` does to the table is a choice among the
outcomes of the comparison.

**Versions and AntiEntropy.** A vector of pairs with distinct servers is a
function from servers to counters. `resolve` is `propagate` as a function of
the local and the incoming entry. `maximumVersion` starts from an empty vector
and `updateVersion` only raises counters that are there, so its result is always
empty; `MaximumIsEmpty` proves it. `Collect` is `antiEntropyHandler` up to the
unlock: the first peer in the order of the map that has diffs. `Deliver` is
`antiEntropy` at the peer, `Reply` and `Fail` what follows the call. A put and
the handler at the peer hold `hashMutex` throughout and are single steps.
`Evictable` stands for `normalizeTable`: with `MemoryTight` any of the few keys
of the model may be among the least recently used of all the keys of the
server; without it nothing is evicted.

**ViewService.** Each critical section is a step. `addServer` has two
(`AddServer`, `AddToRing`), `receivePing` two (`ReceivePing`, `GetView`),
`addReplica` one, and `checkPings` two (`Scan`, `RemoveServers`), after a listing
of the ring that takes no lock. The listing (`ListRing`, `ListServer`,
`EndListing`) takes a step per server. It inserts into `pings` while the I/O
thread does, so either may lose its write or miss an element (`SetFresh`), and it
compares its iterator with the end of the ring of the current `viewNum`: when the
view has changed meanwhile it may stop anywhere. A crash or an endless loop ends
what the thread does. The I/O thread finishes one call before the next (`handler`). Of the vectors
`views` and `hashToServer` only the last elements are read. Groups are sets:
they are searched, copied and drawn from at random only. A ping is fresh, stale
or never: `Expire` lets time pass for any server, running or not, so false
suspicions are included, and "never" is the `not_a_date_time` that the listing's
`pings[*it2]` inserts. The scan erases the map element its iterator stands on;
the model lets it find any non-empty part of the stale servers. It may also
crash the service, which ends the behaviour: for the safety properties this is
covered, since a behaviour may stop anywhere; the liveness properties are about
a service that runs on. A server process is down, joining or up; a call whose
caller has crashed is still executed (`handler.answered`).

**ViewChange.** Server `Leaver` crashes (`gone`) and the view service makes view
2 without it. `at[s]` is the state of each of the others: still at view 1, after
`pingViewService` has assigned the view, after `cleanHash` ("bare" if the table
was empty: `adjustVersion` then did not run). In between a put
already uses the new group while versions and diffs are still those of the old
one. `num` is the view number in a call, which `antiEntropy` compares with its
own under `currentViewMutex` (`VAccept`) before it takes `hashMutex` and applies
the entries (`VDeliver`); the peer may adopt the view and clean its table in
between, and its I/O thread takes no put and no other call. `adjustVersion`
keeps the counters of the new group (`Strip`), records all keys for a replica without diffs, and erases the diffs for the leaver; if the
anti-entropy thread holds an iterator to them, its reply may erase any element
(`VReply`).

**CacheServer.** A section under a mutex is a step, and `cleanHash` takes a step
per key, since it reads `currentView` without its mutex. `th[t]` is where the I/O
and the ping thread stand and the view they have been sent (`_currentView`); both
go through `Ask`, `Adopt`, `CleanHash`, `CleanKey`, `CleanDone`, the I/O thread
inside `checkServer`. `Receive`, `Check`, `Decide`, then `Put`, `Get` or
`Propagate` are a request; the decision uses the copy of the view, the diffs of a
put the shared one, as in the code. `getServer` on an empty ring throws: the
mutexes locked by hand stay locked (`"leaked"`, `viewLeaked`). `list` is the list
of records, because `cleanHash` walks it and stops at the first key it removes.
`strays` is an auxiliary variable: the keys that the last `cleanHash` did not come
to, and those stored since in a view in which the server does not own them. A peer
may send any key once both have been in the ring, because `adjustVersion` records
every key of the list. As in `AntiEntropy`, eviction is a choice under
`MemoryTight`.

**Ring and KeyHash.** Positions and hashes of `Ring` are the 2 * `Half` signed
numbers of a small circle; `getServer` is `lower_bound` with wrap-around, the
Java loop runs over the map in any order (`Visit`), and the Python lookup is
`bisect` on the converted hash (`pythonHash`). `KeyHash` has 32-bit words as two
halves; `HashChar` feeds one character to the three hash functions: C++ sees
UTF-8 bytes as signed chars, Java code units, Python unsigned bytes in an
unbounded number: the operands of its shifts are cut to 32 bits, the result only
at the end (`Cut`). Exclusive or is a sum over the bits (`Xor`), so that the
prover can reason about it. `KeyHash` and `Blog` name their specifications
`HashSpec` and `BlogSpec`, since `ClientProofs` extends both and `Routing`.

**Routing.** One key; a view is its group. A request is one step with four
outcomes (`NoServer`, `NoConnection`, `CheckFails`, `Query`), `Refreshes` tells
which of them make the client call `getView`, and `Learns` is the part of
`checkServer` that asks the view service. Servers crash and start again with
view number 0, and the link to the view service comes and goes.

**RpcWaits.** `queue[p]` are the calls that wait for the I/O thread of process
`p`, in order. Handlers that call another process are `checkServer` (the view
service) and `getStatistics` of the view service (every server); the ping and
anti-entropy threads, clients and `monitor.cpp` call from outside. `hashMutex` is
there because a handler that waits for it is a link in a chain of waits. Data and
failures are left out: any handler may take any of its branches.

**Blog.** Per user: the number of posts in the database, the page in the cache
and the request under way. `Hit`, `Miss`, `getPostsFromDB`, `SQLException`,
`PutPosts` and `Send` are the steps of `handle` and `getPosts`. `AddPost` and
`CacheLoses` are the surroundings.

## 3. Runs

Passing runs:

| Run | Instance | What it shows |
|---|---|---|
| `storage` | a first table of 3 slots; keys a, b with the last slot as their home and c with the first; keys of 1, values of 1 and 3 bytes; limit 6 | `ImplementsLRU`, `Findable`, `ProbeTerminates`, `ListIsRecency`, `Accounting`, `AssertionsHold`, `MemoryBound`, `OperationEnds` |
| `group` | `ViewChange`: 3 replicas of which one leaves, a key written at the first and one at the leaver, 2 values, counters to 2, failing calls | `SoleWriterLeads`, `SoleWriterNeverLoses`, `NewestAdopted`, `SoleWriterKeeps` |
| `leaving` | `ViewChange`: 3 replicas, the first has crashed, both others write 2 values, failing calls | `DrainAfterLeaving` |
| `views` | 2 servers started twice in all, 2 ring positions | `GroupsNonEmpty`, `RingWithinView`, `NumberIdentifiesView`, `RegisteredDeadLeave`, `ServersLearn` |
| `server` | a server and a peer, 2 keys, evictions, 2 views, the second of which may be empty | `CleanerHoldsMutex`, `OwnedOrStray`, `LeaksNeedEmptyRing`, `AnsweredUnlessLeaked`, `LearnsView` |
| `ring` | a circle of 8 positions, all rings on it, all hashes | `FindsFirst`, `JavaFindsSame`, `OnlyNeighboursMove`, `PythonMissesNeighbours` |
| `key_hash` | keys of up to 4 of 7 characters, one outside ASCII | `AsciiHashAlike`, `MixIsFNV` |
| `routing` | 2 servers, a C++ or Java client, a Python client, 3 views | `NewestViewServed`, `ClientsRecover` |
| `waits` | 2 servers, a client, a monitor, the view service | `CirclesAreCrossed`, `AnsweredUnlessCrossed` |
| `blog` | 2 users, up to 3 posts each | `CachedFromDatabase`, `PostsAppearIfLost` |

Why the bounds are enough. In `storage` the table grows to 6 slots when one
key is stored (4 * 1 > 3) and to 12 when two are (4 * 2 > 6), and is compacted when
more than half of the slots are used; with the 10 slots of the code it would take
a third key, and more memory, to grow at all. The hash of a and b is the last slot of
all three tables, so they collide there and probes wrap around. Three entries fit
when all values are small and two large ones do not, so that eviction happens with
two and with three keys stored, and three large ones would be more than one entry
over the limit. Three keys never need more than 12 slots, so the state space is finite
without a bound. In `group` three replicas give a writer two peers, one of
which waits while the other is served, counters to 2 let a put overtake a call,
and the replica that leaves is the last in the order of the map, so that the
diffs for it may be what remains. Behaviours in which nobody leaves are included,
so the run covers `AntiEntropy` in a fixed view too. Values are only compared for
equality, so they are interchangeable (`SYMMETRY`). The counters of the writer
that leaves are dropped by two replicas at different times, with calls of all
three under way. In `leaving` both writers have a first peer that has left and a
later one, which waits for its turn; their values conflict, so that keys they have
recorded for each other disappear. The leaver crashes before the first put, which
leaves out only calls of its own; counters of 1 suffice, since a conflict removes
the key and puts go on. In `views` two
starts allow a crash and a restart of the same address, or two servers; two
positions make both collisions of `gen()` and separate groups happen; the safety
properties of this run are proved for any number of starts. In `server` two views
suffice for a request, a ping reply and a cleaner to be at different views; the
keys have the same or different fates in the second. One peer suffices for its
properties, none of which compares the diffs of two; they are proved for any
number, but for the two about liveness. In `ring` both ends of the
circle and the seam between the largest and the smallest number occur with every
set of positions. In `key_hash` four characters fill the word and carry between
its halves. In `routing` three views let a client be two views behind a server
and a server two behind a client. In `waits` two servers call each other and are
both called by the view service; longer chains go through the same two kinds of
handlers. The bounds are `MaxJoins`, `MaxVersion`, `MaxViews`, `MaxLength` and
`MaxPosts`.

Deadlock is checked in `storage`, `views`, `ring`, `routing`, `waits` and `blog`.
A replica group may stop when all writers have reached the bound and all diffs
are sent; a key of full length ends `key_hash`; and a server whose mutexes have
leaked stops, so `group`, `leaving`, `key_hash` and `server` do
not check it.

Fairness. `storage`: the thread that holds `hashMutex` keeps running.
`resolved`: the anti-entropy thread wakes up after every sleep (weak fairness of
`Collect`), and a call that is made again and again is delivered and answered
in the end (strong fairness, since failures may come in between); nothing makes
clients stop or put. `leaving`: the same of the servers that run, and a server
learns of the new view with one of its pings, cleans its table, goes on with a call
it has accepted and refuses one of another view; a call to a crashed process fails.
`views`: the two threads of the service run on, the
ping of a dead server becomes old, and a running server's pings are handled in
the end; the last one is strong fairness, because the I/O thread serves other
calls in between. Nothing makes servers start, crash or be suspected.
`server`: the I/O and the ping thread run on unless they wait for a mutex, and
the view service answers in the end; nothing is assumed of the anti-entropy
thread. `routing`: clients go on with their requests; nothing is assumed of
servers, pings and the link, and the property asks only for the case that the
newest group stays up and the view service in reach. `waits`: I/O threads run on,
a holder of `hashMutex` releases it, and an I/O thread that wants it gets it in
the end (strong fairness: the two threads it competes with sleep or make a call
after each release). `blog`: a request under way goes on, visitors keep coming,
and a database that is asked again and again answers.

Violated on purpose: these runs state what the documentation says, and TLC finds
a behaviour of the code that differs.

| Run | Statement | What happens |
|---|---|---|
| `resolved` | `EventuallyResolved` (report/blank.tex:68) | a put during the call is erased from the diffs with the reply and never sent |
| `statistics_wait` | `PingsAnswered` (report/blank.tex:85) | the view service, in `getStatistics`, calls a server whose I/O thread is in `checkServer` and calls the view service; both wait for ever |

Further configurations. The same modules come with configurations for other
statements of the documents that TLC refutes. Each one is the reverse side of a
property that holds, and marks where it ends; run them with
`tlc -config X.cfg M`.

| Configuration, module | Statement | What happens | What holds |
|---|---|---|---|
| `CounterReset`, `MCAntiEntropy` | `NewestAdopted` (blank.tex:67) | after an eviction the writer counts from 1 again, and its peer stays with an older value | `NewestAdopted` without evictions |
| `LeaverWrote`, `MCViewChange` | `ResolvedAfterLeaving` (blank.tex:68) | when the writer leaves, all versions it wrote become empty and compare as equal | `SoleWriterKeeps`; `SoleWriterLeads` when the writer stays |
| `DepartedFirst`, `MCViewChange` | `PeersServedAfterLeaving` (blank.tex:86) | a conflict empties the table of a server, so that `adjustVersion` does not run and the diffs of a departed first peer stay; later peers are never served | `DrainAfterLeaving`, which exempts such servers |
| `KeepsOne`, `MCAntiEntropy` | `ConflictKeepsOne` (blank.tex:67) | both replicas drop the key | `SoleWriterNeverLoses` |
| `Merge`, `MCAntiEntropy` | `MergeCoversBoth` (server.cpp:149) | the merged version is empty | lemma `MaximumIsEmpty` |
| `PeerServed`, `MCAntiEntropy` | `EveryPeerServed` (blank.tex:86) | while a server writes, its first peer is served in every round and the second never | `DrainAfterLeaving` |
| `Registered`, `MCViewService` | `RegisteredInView` (blank.tex:93) | a restarted server is removed with the list of an earlier scan | `RingWithinView` |
| `DeadLeave`, `MCViewService` | `DeadLeave` (blank.tex:93) | a stall of a second inside `addServer` leaves a server in the ring without a ping | `RegisteredDeadLeave` |
| `AliveListed`, `MCViewService` | `AliveListed` (blank.tex:92) | a server removed after a pause pings for ever and is not listed again | `ServersLearn` |
| `EmptyRing`, `MCCacheServer` | `RequestsAnswered` (blank.tex:90) | `getServer` throws in `put` or `cleanHash` with mutexes held | `LeaksNeedEmptyRing`, `AnsweredUnlessLeaked` |
| `StoresOwned`, `MCCacheServer` | `StoresOwned` (blank.tex:88) | the ping thread adopts a view between `checkServer` and the store | `OwnedOrStray` |
| `TwoGroups`, `MCCacheServer` | `DiffsKept` (blank.tex:66) | a server in two groups erases the diffs of one when it cleans a key of the other | |
| `NewReplica`, `MCCacheServer` | `NewReplicaGetsAll` (blank.tex:66) | a put before `cleanHash`, or a purge that ends it early, keeps keys from being recorded for a new replica | |
| `PythonLookup`, `Ring` | `PythonFindsFirst` (blank.tex:53) | the next group is chosen for a hash at a position, or just before one in the upper half | `PythonMissesNeighbours` |
| `NonAscii`, `KeyHash` | `ClientsHashAlike` (blank.tex:81) | a sign-extended byte, a code unit and an unsigned byte hash differently | `AsciiHashAlike` |
| `PythonRecovers`, `Routing` | `PythonsRecover` (blank.tex:82) | only WRONG_SERVER makes the client get a new view; a refused connection does not | `ClientsRecover` |
| `PostsAppear`, `Blog` | `PostsAppear` (blank.tex:71) | a cached page has no age and is served for ever | `PostsAppearIfLost` |

## 4. Proofs

Every invariant and every action property the runs check is also a theorem, for
every value of the constants: any number of keys, servers, positions, views,
posts and steps. Each proof module has an inductive invariant, a lemma for each
action and the theorems at its end.

**HashTableProofs** (`StoreCorrect`, `TypesCorrect`, `ProbeCorrect`,
`FindableCorrect`, `ListCorrect`, `AccountingCorrect`, `AssertionsCorrect`,
`MemoryCorrect`, `Refinement`). From `StoreAssumption`: finite nonempty sets of
keys and values with sizes, any hash function, an initial table of at least 3
slots (the code has 10). The properties are about one moment between operations
and not inductive, because an operation stops in the middle of `normalizeTable`,
`rehash` or `cleanHash`. `StoreInv` says what holds there: `TableOk` (types,
every live key is found by its probe, the list is the order of use), `CountsOk`
(the three counters), `LoadOk` (how full the table may be at each line, from
which a probe meets an empty slot), `MemoryOk`, `CursorOk` (`cleanHash` has only
passed keys it keeps) and `RehashOk` (the new table holds exactly the records the
loop has passed, in their order). The proofs about probes use that the slots
between the home slot of a key and its record are in use; removal keeps them
so with a tombstone, and an insertion takes the first slot that is not in use or
has the key. The list lemmas relate each pointer operation (`addToHead`,
`removeFromList`) to the order of keys: the head is the greatest, `next` the
next smaller one. `Accounting` needs sums over the live records, with a bijection
between slots and keys. `Refinement` shows that a step maps to one step of
`LRUCache` or none: the eviction maps to the eviction of the least recently used
key, rehash steps to no step at all.

**AntiEntropyProofs.** From `GroupAssumption` (replicas are numbered, "absent" is
no value). The property `SoleWriterLeads` says that every copy of a key that
only server w writes, stored or in a call under way, has a counter of w only, at
most w's own, and w's value when they are equal. It is not inductive: a reply
that reports the key as invalidated would make a replica drop it. `LeadInv` adds
that no such reply exists (`NoFalseConflict`) and the types. Then every step is
either a put by the writer, whose new entry leads all copies (`PutByWriter`), or
`Harmless`: the writer's entry stays, no new copies appear, no replica loses the
key or goes back, and no conflict is reported. `ResolveLed` is the heart: entries
of one writer are totally ordered by their versions, so `propagate` finds no
conflict and keeps the newer one. The same invariant carries over to
`ViewChange` (`ViewChangeTypes`, `ViewChangeLeads`, `ViewChangeNeverLoses`,
`ViewChangeAdopts`) for the keys whose sole writer is in `Stayers`, a set the
server that leaves is not in (`LeaverAssumption`): `Strip` then keeps the only
counter there is. For the keys of the leaver the lead is lost, as the
configuration `LeaverWrote` shows.
`ViewChangeAdopts` has the hypotheses that all sole writers stay and that nothing
is evicted; `CounterReset` shows why the second is needed, and `group` that the
first is not in its instance. `ViewChangeKeeps` (`SoleWriterKeeps`) is about all
keys with one writer: any server may leave, the writer too. Its invariant `KeepInv` keeps of
`SoleWriterLeads` only that versions mention no other server than the writer.
Versions without a counter or with the writer's alone are still totally ordered
(`ResolveOnlyBy`), so that no comparison ends in a conflict and nothing is removed,
although which of two values stays is no longer determined.

**ViewServiceProofs.** From `ViewAssumption`: `GroupsCorrect`, `RingCorrect` (no
empty group, only members of the view in the ring) and `NumberTheorem`
(`NumberIdentifiesView`). The ring invariant is inductive with the types, because
a removal takes the same servers from view and ring. The theorem about numbers
needs `KnownBehind`: no process has been sent a number beyond the current one.

**CacheServerProofs** (`MutexCorrect`, `OwnedCorrect`, `LeaksCorrect`). From
`ServerAssumption`: a view is an empty ring or has a group for every key.
`ServerInv` adds to `CleanerHoldsMutex` and `LeaksNeedEmptyRing` that a thread
about to use a view has one other than the initial, empty one (`ViewKnown`), that
the cursor of `cleanHash` exists only under `hashMutex` (`NoStrayCursor`), and the
types. `OwnedOrStray` is about a settled server and not inductive; `Compared` says
what holds in the middle of a view change: unless a thread has changed the view and
not yet entered `cleanHash`, each stored key is one that the running `cleanHash` has
still to visit, or a stray, or owned in the current view. It rests on two facts of
the code: whoever changes `currentView` runs `cleanHash` afterwards, and `cleanHash`
reads the view of the moment, so that a view adopted by the other thread in the
middle of it is followed by another `cleanHash`. The list lemmas (`WithoutKeys`,
`ListTypes`) say which keys are stored after a removal, an eviction or an access.

**RingProofs** (`LookupCorrect`, `JavaLookupCorrect`, `MovesCorrect`,
`PythonLookupCorrect`). For a circle of every size. `GetServerNearest` shows that
the group found is the one at the least clockwise distance, by cases on the
wrap-around. `LoopInv` is the invariant of the Java loop: of the positions
visited so far, `minHash` is the least, and `lb` the least at or after the hash.

**RpcWaitsProofs** (`CirclesTheorem`). `WaitInv` says that a request in a queue
belongs to a thread that waits for it, that a busy I/O thread serves the first of
its queue, and that the holder of `hashMutex` is at work and waits for nobody. A
thread in a circle is then not one outside the I/O threads, since nobody waits
for those, nor an I/O thread that waits for the mutex; so the circle runs between
I/O threads, where servers wait only for the view service and it only for
servers.

**ClientProofs.** `ServedCorrect` needs that no server and no client is at a view
that was never made (`RoutingInv`, `RoutingCorrect`). `BlogCorrect` needs that the
request about to put has a number of posts the database had (`BlogInv`).
`AsciiCorrect` and `MixCorrect` are about the 32-bit arithmetic itself, for keys
of any length: `PlusFacts` shows that carries may be taken before or after an
addition, so that `Mix` is a multiplication (`MixFacts`), and `XorFacts` that the
exclusive or of two halves is a half and with 0 the other operand, by induction
over the bits. `HashInv` says that, as long as all characters are ASCII, the
Python number has the halves of the C++ word below its overflow.

**Induction.** The prover cannot instantiate induction theorems that have an
operator as a parameter. `LeastNumber`, `CountTo`, `SizeInduction` and
`GreatestNumber` state induction over sets instead: a proof applies them to the
set of numbers with, or without, the property. From them follow the existence of
the function `SumFunction` iterates (`SumExists`, `SumIs`), and how sums split
and move along a bijection (`SumSplit`, `SumBijection`).

Only model-checked: the liveness properties (`DrainAfterLeaving`, `OperationEnds`,
`RegisteredDeadLeave`, `ServersLearn`, `AnsweredUnlessLeaked`, `LearnsView`,
`ClientsRecover`, `AnsweredUnlessCrossed`, `PostsAppearIfLost`), since the prover
does not handle fairness; and the violations.

## 5. What is not modelled

- Thrift, memcached and ketama: third-party code, used as a library or for
  comparison. They are most of the lines of the repository (`thrift-0.9.0` and
  `memcached-1.4.15` alone have over 100,000); the prototype and the blog have
  about 1,800. What the models use of Thrift is that a `TNonblockingServer`, as
  constructed here, runs its handlers one after the other on one thread, and that
  sockets have no timeouts.
- Console and stress tools, `StressTest.java`, `DBCreator.java`: input, output
  and load around the clients; they keep no state of the system.
- The statistics counters: they have no effect on the system. Who waits for the
  calls that collect them is in `RpcWaits`.
- `cache.thrift`: declarations. `prototype/src/JavaClient.java`: written for an
  earlier interface, does not fit the servers.
- Byte contents, HTML, SQL and serialisation, wall-clock time, and the overflow of
  `totalKeyValueSize` (an `int`) for single values beyond a gigabyte.
- A crash of the view service by its dangling iterators: it ends the behaviour.
- Two views in a row in `ViewChange`, and a replica that joins there; which keys a
  joining replica is sent is in `CacheServer`.

## 6. Plan

The system's own parts are modelled, and the safety properties of the runs are
proved. What is left:

1. Strengthen theorems whose hypotheses are sufficient and not necessary:
   `ViewChangeAdopts` for the keys of the leaver.
2. Two views in a row in `ViewChange`, and a replica that joins there.
