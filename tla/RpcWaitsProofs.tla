--------------------------- MODULE RpcWaitsProofs ---------------------------
(***************************************************************************)
(* Proofs about RpcWaits: for any number of servers, clients and monitors, *)
(* threads wait in a circle only when the view service and a server wait   *)
(* for each other.                                                         *)
(***************************************************************************)
EXTENDS RpcWaits, TLAPS

-----------------------------------------------------------------------------
(* The inductive invariant.                                                *)

Locations ==
  {"idle", "wait", "answered", "lock", "locked", "clean", "cleaning", "collect", "apply"}

WaitTypes ==
  /\ pc \in [Threads -> Locations]
  /\ queue \in [Processes -> Seq(Threads)]

(***************************************************************************)
(* A thread in a queue waits and is in no other place of any queue.  The   *)
(* I/O thread of a server calls only the view service, and the one of the  *)
(* view service only servers.                                              *)
(***************************************************************************)
CallerAt(p, i) ==
  /\ pc[queue[p][i]] = "wait"
  /\ \A q \in Processes : queue[p][i] = Io(q) => (p = VS <=> q # VS)
  /\ \A q \in Processes : \A j \in 1 .. Len(queue[q]) :
       queue[p][i] = queue[q][j] => p = q /\ i = j

QueueInv == \A p \in Processes : \A i \in 1 .. Len(queue[p]) : CallerAt(p, i)

(***************************************************************************)
(* An I/O thread that is busy is so with the first request of its queue.   *)
(***************************************************************************)
BusyInv == \A p \in Processes : pc[Io(p)] # "idle" => queue[p] # <<>>

(***************************************************************************)
(* hashMutex is held by a thread of the server, which is at work.          *)
(***************************************************************************)
HolderInv ==
  \A s \in Servers :
    \/ hashMutex[s] = None
    \/ hashMutex[s] = Io(s) /\ pc[Io(s)] \in {"cleaning", "locked"}
    \/ hashMutex[s] = <<"ping", s>> /\ pc[<<"ping", s>>] = "cleaning"
    \/ hashMutex[s] = <<"ae", s>> /\ pc[<<"ae", s>>] \in {"collect", "apply"}

CallInv == WaitTypes /\ QueueInv /\ BusyInv

LockInv == HolderInv /\ hashMutex \in [Servers -> Threads \union {None}]

WaitInv == CallInv /\ LockInv /\ left \subseteq Servers

(***************************************************************************)
(* The threads by name.                                                    *)
(***************************************************************************)
LEMMA ThreadNames ==
  /\ \A p \in Processes : Io(p) \in Threads
  /\ \A s \in Servers : <<"ping", s>> \in Threads /\ <<"ae", s>> \in Threads
  /\ \A s \in Servers : s \in Processes
  /\ VS \in Processes /\ VS \notin Servers
  /\ Of("client", Clients) \subseteq Threads /\ Of("monitor", Monitors) \subseteq Threads
  /\ \A p, q : Io(p) = Io(q) => p = q
  /\ \A p, q : Io(p) # <<"ping", q>> /\ Io(p) # <<"ae", q>> /\ <<"ping", p>> # <<"ae", q>>
  /\ \A t \in Of("client", Clients) \union Of("monitor", Monitors) : \A q :
       t # Io(q) /\ t # <<"ping", q>> /\ t # <<"ae", q>>
  /\ None \notin Threads
BY WaitsAssumption DEF Threads, Of, Io, Processes, None

(***************************************************************************)
(* A call puts a thread at the end of a queue that was in none.            *)
(***************************************************************************)
LEMMA CallStep ==
  ASSUME CallInv, NEW t \in Threads, NEW p \in Processes, pc[t] # "wait", Call(t, p),
         \A q \in Processes : t = Io(q) => (p = VS <=> q # VS) /\ queue[q] # <<>>
  PROVE  CallInv'
<1> USE DEF CallInv, WaitTypes, Locations
<1>1. WaitTypes'
  BY DEF Call
<1>2. /\ pc'[t] = "wait" /\ \A u \in Threads \ {t} : pc'[u] = pc[u]
      /\ queue'[p] = Append(queue[p], t)
      /\ \A q \in Processes \ {p} : queue'[q] = queue[q]
  BY DEF Call
<1> DEFINE New(q, i) == q = p /\ i = Len(queue[p]) + 1
<1>3. ASSUME NEW q \in Processes, NEW i \in 1 .. Len(queue'[q])
      PROVE  \/ New(q, i) /\ queue'[q][i] = t
             \/ /\ ~ New(q, i) /\ i \in 1 .. Len(queue[q]) /\ queue'[q][i] = queue[q][i]
                /\ queue[q][i] \in Threads \ {t}
  <2>1. CASE q # p
    <3>1. queue'[q] = queue[q] /\ i \in 1 .. Len(queue[q]) /\ queue[q] \in Seq(Threads)
      BY <1>2, <2>1
    <3> QED
      BY <2>1, <3>1 DEF QueueInv, CallerAt
  <2>2. CASE q = p
    <3>1. queue[p] \in Seq(Threads) /\ queue'[p] = Append(queue[p], t)
      BY <1>2
    <3>2. CASE i = Len(queue[p]) + 1
      BY <2>2, <3>1, <3>2
    <3>3. CASE i # Len(queue[p]) + 1
      <4>1. i \in 1 .. Len(queue[p]) /\ queue'[q][i] = queue[q][i] /\ queue[q][i] \in Threads
        BY <2>2, <3>1, <3>3
      <4> QED
        BY <2>2, <3>3, <4>1 DEF QueueInv, CallerAt
    <3> QED
      BY <3>2, <3>3
  <2> QED
    BY <2>1, <2>2
<1>4. QueueInv'
  <2> SUFFICES ASSUME NEW q \in Processes, NEW i \in 1 .. Len(queue'[q])
               PROVE  CallerAt(q, i)'
    BY DEF QueueInv
  <2>1. pc'[queue'[q][i]] = "wait"
    <3>1. CASE queue'[q][i] = t
      BY <1>2, <3>1
    <3>2. CASE ~ New(q, i)
      <4>1. i \in 1 .. Len(queue[q]) /\ queue'[q][i] = queue[q][i] /\ queue[q][i] \in Threads \ {t}
        BY <1>3, <3>2
      <4>2. pc[queue[q][i]] = "wait"
        BY <4>1 DEF QueueInv, CallerAt
      <4> QED
        BY <1>2, <4>1, <4>2
    <3> QED
      BY <1>3, <3>1, <3>2
  <2>2. ASSUME NEW r \in Processes, queue'[q][i] = Io(r)
        PROVE  q = VS <=> r # VS
    <3>1. CASE New(q, i)
      <4>1. q = p /\ t = Io(r)
        BY <1>3, <2>2, <3>1
      <4> QED
        BY <4>1
    <3>2. CASE ~ New(q, i)
      <4>1. i \in 1 .. Len(queue[q]) /\ queue[q][i] = Io(r)
        BY <1>3, <2>2, <3>2
      <4>2. CallerAt(q, i)
        BY <4>1 DEF QueueInv
      <4> QED
        BY <4>1, <4>2 DEF CallerAt
    <3> QED
      BY <3>1, <3>2
  <2>3. ASSUME NEW r \in Processes, NEW j \in 1 .. Len(queue'[r]), queue'[q][i] = queue'[r][j]
        PROVE  q = r /\ i = j
    <3>1. CASE New(q, i)
      <4>1. queue'[r][j] = t
        BY <1>3, <2>3, <3>1
      <4>2. New(r, j)
        BY <1>3, <4>1
      <4> QED
        BY <3>1, <4>2
    <3>2. CASE ~ New(q, i)
      <4>1. i \in 1 .. Len(queue[q]) /\ queue'[q][i] = queue[q][i] /\ queue[q][i] # t
        BY <1>3, <3>2
      <4>2. j \in 1 .. Len(queue[r]) /\ queue'[r][j] = queue[r][j]
        BY <1>3, <2>3, <4>1
      <4>3. queue[q][i] = queue[r][j] /\ CallerAt(q, i)
        BY <2>3, <4>1, <4>2 DEF QueueInv
      <4> QED
        BY <4>2, <4>3 DEF CallerAt
    <3> QED
      BY <3>1, <3>2
  <2> QED
    BY <2>1, <2>2, <2>3 DEF CallerAt, Io
<1>5. BusyInv'
  <2> SUFFICES ASSUME NEW q \in Processes, pc'[Io(q)] # "idle" PROVE queue'[q] # <<>>
    BY DEF BusyInv, Io
  <2>1. queue[q] # <<>>
    BY <1>2, ThreadNames DEF BusyInv
  <2> QED
    BY <1>2, <2>1
<1> QED
  BY <1>1, <1>4, <1>5

(***************************************************************************)
(* An answer takes the first thread out of a queue.                        *)
(***************************************************************************)
LEMMA ReplyStep ==
  ASSUME CallInv, NEW p \in Processes, queue[p] # <<>>, pc[Io(p)] # "wait", Reply(p)
  PROVE  CallInv'
<1> USE DEF CallInv, WaitTypes, Locations
<1> DEFINE h == Head(queue[p])
<1>1. queue[p] \in Seq(Threads) /\ 1 \in 1 .. Len(queue[p]) /\ h = queue[p][1] /\ h \in Threads
  OBVIOUS
<1>2. WaitTypes'
  <2>1. pc' \in [Threads -> Locations]
    BY <1>1, ThreadNames DEF Reply
  <2>2. Tail(queue[p]) \in Seq(Threads)
    BY <1>1
  <2> QED
    BY <2>1, <2>2 DEF Reply
<1>3. /\ \A u \in Threads \ {h, Io(p)} : pc'[u] = pc[u]
      /\ pc'[Io(p)] = "idle"
      /\ queue'[p] = Tail(queue[p])
      /\ \A q \in Processes \ {p} : queue'[q] = queue[q]
  BY <1>1, ThreadNames DEF Reply
<1> HIDE DEF h
<1> DEFINE Old(q, i) == IF q = p THEN i + 1 ELSE i
<1>4. ASSUME NEW q \in Processes, NEW i \in 1 .. Len(queue'[q])
      PROVE  /\ Old(q, i) \in 1 .. Len(queue[q]) /\ queue'[q][i] = queue[q][Old(q, i)]
             /\ q = p => Old(q, i) # 1
  <2>1. CASE q # p
    BY <1>3, <2>1
  <2>2. CASE q = p
    <3>1. i \in 1 .. Len(Tail(queue[p])) /\ queue'[q][i] = Tail(queue[p])[i]
      BY <1>3, <2>2
    <3>2. i + 1 \in 1 .. Len(queue[p]) /\ Tail(queue[p])[i] = queue[p][i + 1] /\ i + 1 # 1
      BY <1>1, <3>1
    <3> QED
      BY <2>2, <3>1, <3>2
  <2> QED
    BY <2>1, <2>2
<1>5. ASSUME NEW q \in Processes, NEW i \in 1 .. Len(queue'[q])
      PROVE  queue'[q][i] \in Threads \ {h, Io(p)}
  <2>1. queue'[q][i] \in Threads /\ pc[queue'[q][i]] = "wait"
    <3>1. queue[q] \in Seq(Threads)
      OBVIOUS
    <3>2. queue[q][Old(q, i)] \in Threads
      BY <1>4, <3>1
    <3> QED
      BY <1>4, <3>2 DEF QueueInv, CallerAt
  <2>2. ASSUME queue'[q][i] = h PROVE FALSE
    <3>1. CallerAt(p, 1)
      BY <1>1 DEF QueueInv
    <3>2. Old(q, i) \in 1 .. Len(queue[q]) /\ queue[p][1] = queue[q][Old(q, i)]
      BY <1>1, <1>4, <2>2
    <3>3. p = q /\ 1 = Old(q, i)
      <4> HIDE DEF Old
      <4> QED
        BY <3>1, <3>2 DEF CallerAt
    <3> QED
      BY <1>4, <3>3
  <2> QED
    BY <2>1, <2>2
<1>6. QueueInv'
  <2> SUFFICES ASSUME NEW q \in Processes, NEW i \in 1 .. Len(queue'[q])
               PROVE  CallerAt(q, i)'
    BY DEF QueueInv
  <2> DEFINE o == Old(q, i)
  <2>0. o \in 1 .. Len(queue[q]) /\ queue'[q][i] = queue[q][o] /\ queue'[q][i] \in Threads \ {h, Io(p)}
    BY <1>4, <1>5
  <2> HIDE DEF o
  <2>1. pc'[queue'[q][i]] = "wait"
    <3>1. pc[queue[q][o]] = "wait"
      BY <2>0 DEF QueueInv, CallerAt
    <3> QED
      BY <1>3, <2>0, <3>1
  <2>2. \A r \in Processes : queue'[q][i] = Io(r) => (q = VS <=> r # VS)
    <3>1. CallerAt(q, o)
      BY <2>0 DEF QueueInv
    <3> QED
      BY <2>0, <3>1 DEF CallerAt
  <2>3. ASSUME NEW r \in Processes, NEW j \in 1 .. Len(queue'[r]), queue'[q][i] = queue'[r][j]
        PROVE  q = r /\ i = j
    <3>1. q = r /\ Old(q, i) = Old(r, j)
      <4>1. /\ Old(q, i) \in 1 .. Len(queue[q]) /\ Old(r, j) \in 1 .. Len(queue[r])
            /\ queue[q][Old(q, i)] = queue[r][Old(r, j)]
        BY <1>4, <2>3
      <4> HIDE DEF Old
      <4> QED
        BY <4>1 DEF QueueInv, CallerAt
    <3> QED
      BY <3>1
  <2> QED
    BY <2>1, <2>2, <2>3 DEF CallerAt, Io
<1>7. BusyInv'
  <2> SUFFICES ASSUME NEW q \in Processes, pc'[Io(q)] # "idle" PROVE queue'[q] # <<>>
    BY DEF BusyInv, Io
  <2>1. q # p
    BY <1>3
  <2>2. pc[Io(q)] # "idle"
    <3>1. pc[h] = "wait"
      BY <1>1 DEF QueueInv, CallerAt
    <3> QED
      BY <1>3, <3>1, ThreadNames
  <2> QED
    BY <1>3, <2>1, <2>2 DEF BusyInv
<1> QED
  BY <1>2, <1>6, <1>7

(***************************************************************************)
(* A thread that does not wait may go elsewhere; an I/O thread only while  *)
(* it has a request.                                                       *)
(***************************************************************************)
LEMMA LocalStep ==
  ASSUME CallInv, NEW t \in Threads, NEW to \in Locations, pc[t] # "wait",
         pc' = [pc EXCEPT ![t] = to], queue' = queue,
         \A q \in Processes : t = Io(q) => queue[q] # <<>>
  PROVE  CallInv'
<1> USE DEF CallInv
<1>1. WaitTypes'
  BY DEF WaitTypes
<1>2. ASSUME NEW q \in Processes, NEW i \in 1 .. Len(queue[q])
      PROVE  pc'[queue[q][i]] = "wait"
  BY DEF QueueInv, CallerAt, WaitTypes
<1>3. QueueInv'
  BY <1>2 DEF QueueInv, CallerAt, Io
<1>4. BusyInv'
  BY ThreadNames DEF BusyInv, WaitTypes, Io
<1> QED
  BY <1>1, <1>3, <1>4

-----------------------------------------------------------------------------
(* hashMutex.                                                              *)

Working == {"cleaning", "locked", "collect", "apply"}

(***************************************************************************)
(* A step that moves no working thread leaves every holder where it is.    *)
(***************************************************************************)
LEMMA HoldersKept ==
  ASSUME LockInv, hashMutex' = hashMutex,
         \A u \in Threads : pc[u] \in Working => pc'[u] = pc[u]
  PROVE  LockInv'
BY ThreadNames DEF LockInv, HolderInv, Working, Io, None

(***************************************************************************)
(* A step that releases a mutex may move a thread of that server.          *)
(***************************************************************************)
LEMMA HoldersReleased ==
  ASSUME LockInv, NEW r \in Servers, Unlock(r),
         \A u \in Threads \ {Io(r), <<"ping", r>>, <<"ae", r>>} :
           pc[u] \in Working => pc'[u] = pc[u]
  PROVE  LockInv'
<1>1. hashMutex' \in [Servers -> Threads \union {None}]
  BY DEF LockInv, Unlock
<1>2. ASSUME NEW s \in Servers
      PROVE  \/ hashMutex'[s] = None
             \/ hashMutex'[s] = Io(s) /\ pc'[Io(s)] \in {"cleaning", "locked"}
             \/ hashMutex'[s] = <<"ping", s>> /\ pc'[<<"ping", s>>] = "cleaning"
             \/ hashMutex'[s] = <<"ae", s>> /\ pc'[<<"ae", s>>] \in {"collect", "apply"}
  <2>1. CASE s = r
    BY <2>1 DEF LockInv, Unlock
  <2>2. CASE s # r
    <3>1. hashMutex'[s] = hashMutex[s]
      BY <2>2 DEF LockInv, Unlock
    <3>2. {Io(s), <<"ping", s>>, <<"ae", s>>} \subseteq
            Threads \ {Io(r), <<"ping", r>>, <<"ae", r>>}
      BY <2>2, ThreadNames DEF Io
    <3> QED
      BY <3>1, <3>2 DEF LockInv, HolderInv, Working
  <2> QED
    BY <2>1, <2>2
<1> QED
  BY <1>1, <1>2 DEF LockInv, HolderInv, Io, None

(***************************************************************************)
(* A thread of the server takes the mutex and is at work.                  *)
(***************************************************************************)
LEMMA HolderAdded ==
  ASSUME LockInv, WaitTypes, NEW r \in Servers, NEW t \in Threads, NEW from, NEW to,
         Lock(t, r, from, to), from \notin Working,
         \/ t = Io(r) /\ to \in {"cleaning", "locked"}
         \/ t = <<"ping", r>> /\ to = "cleaning"
         \/ t = <<"ae", r>> /\ to \in {"collect", "apply"}
  PROVE  LockInv'
<1>1. hashMutex' \in [Servers -> Threads \union {None}]
  BY DEF LockInv, Lock
<1>2. pc'[t] = to /\ \A u \in Threads : pc[u] \in Working => pc'[u] = pc[u]
  BY DEF Lock, WaitTypes
<1>3. ASSUME NEW s \in Servers
      PROVE  \/ hashMutex'[s] = None
             \/ hashMutex'[s] = Io(s) /\ pc'[Io(s)] \in {"cleaning", "locked"}
             \/ hashMutex'[s] = <<"ping", s>> /\ pc'[<<"ping", s>>] = "cleaning"
             \/ hashMutex'[s] = <<"ae", s>> /\ pc'[<<"ae", s>>] \in {"collect", "apply"}
  <2>1. CASE s = r
    <3>1. hashMutex'[s] = t
      BY <2>1 DEF LockInv, Lock
    <3> QED
      BY <1>2, <2>1, <3>1
  <2>2. CASE s # r
    <3>1. hashMutex'[s] = hashMutex[s]
      BY <2>2 DEF LockInv, Lock
    <3> QED
      BY <1>2, <3>1, ThreadNames DEF LockInv, HolderInv, Working
  <2> QED
    BY <2>1, <2>2
<1> QED
  BY <1>1, <1>3 DEF LockInv, HolderInv, Io, None

(***************************************************************************)
(* A call and an answer do not move a thread that works, except the I/O    *)
(* thread that answers.                                                    *)
(***************************************************************************)
LEMMA CallMoves ==
  ASSUME WaitTypes, NEW t \in Threads, NEW p, pc[t] \notin Working, Call(t, p)
  PROVE  \A u \in Threads : pc[u] \in Working => pc'[u] = pc[u]
BY DEF WaitTypes, Call

(***************************************************************************)
(* So too for an answer.                                                   *)
(***************************************************************************)
LEMMA ReplyMoves ==
  ASSUME CallInv, NEW p \in Processes, queue[p] # <<>>, Reply(p)
  PROVE  \A u \in Threads \ {Io(p)} : pc[u] \in Working => pc'[u] = pc[u]
<1>1. queue[p] \in Seq(Threads) /\ 1 \in 1 .. Len(queue[p]) /\ Head(queue[p]) = queue[p][1]
  BY DEF CallInv, WaitTypes
<1>2. pc[Head(queue[p])] = "wait" /\ Head(queue[p]) \in Threads
  BY <1>1 DEF CallInv, QueueInv, CallerAt
<1> QED
  BY <1>2, ThreadNames DEF CallInv, WaitTypes, Reply, Working

-----------------------------------------------------------------------------
(***************************************************************************)
(* The I/O thread of the view service preserves the invariant.             *)
(***************************************************************************)
LEMMA ViewIoStep == WaitInv /\ ViewIo => WaitInv'
<1> SUFFICES ASSUME WaitInv, ViewIo PROVE WaitInv'
  OBVIOUS
<1> USE ThreadNames DEF WaitInv, Working
<1>a. BusyInv
  BY DEF CallInv
<1>1. ASSUME queue[VS] # <<>>, pc[Io(VS)] \in {"idle", "answered"}, Reply(VS),
             hashMutex' = hashMutex, left' = left
      PROVE  WaitInv'
  <2>1. CallInv'
    BY <1>1, ReplyStep
  <2>2. LockInv'
    BY <1>1, ReplyMoves, HoldersKept
  <2> QED
    BY <1>1, <2>1, <2>2
<1>2. CASE getView
  BY <1>1, <1>2 DEF getView, Handles
<1>3. CASE getStatistics
  <2>1. CallInv'
    BY <1>3, LocalStep DEF getStatistics, Handles, Locations
  <2>2. LockInv'
    BY <1>3, HoldersKept DEF getStatistics, Handles, CallInv, WaitTypes
  <2> QED
    BY <1>3, <2>1, <2>2 DEF getStatistics
<1>4. ASSUME NEW s \in left, pc[Io(VS)] = "answered", Call(Io(VS), s), left' = left \ {s},
             hashMutex' = hashMutex
      PROVE  WaitInv'
  <2>1. CallInv'
    BY <1>a, <1>4, CallStep DEF BusyInv
  <2>2. LockInv'
    BY <1>4, CallMoves, HoldersKept DEF CallInv
  <2> QED
    BY <1>4, <2>1, <2>2
<1>5. CASE CallNext
  BY <1>a, <1>1, <1>4, <1>5 DEF CallNext, BusyInv
<1> QED
  BY <1>2, <1>3, <1>5 DEF ViewIo

(***************************************************************************)
(* So does the I/O thread of a server.                                     *)
(***************************************************************************)
LEMMA ServerIoStep ==
  ASSUME WaitInv, NEW s \in Servers, ServerIo(s) \/ IoLocks(s)
  PROVE  WaitInv'
<1> USE ThreadNames DEF WaitInv, Working
<1>a. BusyInv /\ s # VS
  BY DEF CallInv
<1>1. ASSUME queue[s] # <<>>, pc[Io(s)] # "wait", Reply(s), left' = left,
             \/ hashMutex' = hashMutex /\ pc[Io(s)] \in {"idle", "answered"}
             \/ Unlock(s)
      PROVE  WaitInv'
  <2>1. CallInv'
    BY <1>1, ReplyStep
  <2>2. LockInv'
    BY <1>1, ReplyMoves, HoldersKept, HoldersReleased
  <2> QED
    BY <1>1, <2>1, <2>2
<1>2. ASSUME queue[s] # <<>>, NEW from \in Locations \ {"wait"}, NEW to \in Locations,
             Goes(Io(s), from, to), queue' = queue, left' = left,
             \/ hashMutex' = hashMutex /\ from \notin Working
             \/ Unlock(s)
      PROVE  WaitInv'
  <2>1. CallInv'
    <3>1. \A q \in Processes : Io(s) = Io(q) => queue[q] # <<>>
      BY <1>2
    <3> QED
      BY <1>2, <3>1, LocalStep DEF Goes
  <2>2. \A u \in Threads \ {Io(s)} : pc'[u] = pc[u]
    BY <1>2 DEF Goes, CallInv, WaitTypes
  <2>3. LockInv'
    BY <1>2, <2>2, HoldersKept, HoldersReleased DEF Goes
  <2> QED
    BY <1>2, <2>1, <2>3
<1>3. CASE checkServer(s)
  <2>1. ASSUME Call(Io(s), VS) PROVE WaitInv'
    <3>1. CallInv'
      BY <1>a, <1>3, <2>1, CallStep DEF checkServer, Handles
    <3>2. LockInv'
      BY <1>3, <2>1, CallMoves, HoldersKept DEF checkServer, Handles, CallInv
    <3> QED
      BY <1>3, <3>1, <3>2 DEF checkServer
  <2>2. pc[Io(s)] = "idle" /\ queue[s] # <<>> /\ hashMutex' = hashMutex /\ left' = left
    BY <1>3 DEF checkServer, Handles
  <2>3. CASE Reply(s)
    BY <1>1, <2>2, <2>3
  <2>4. CASE Goes(Io(s), "idle", "lock") /\ queue' = queue
    BY <1>2, <2>2, <2>4 DEF Locations
  <2> QED
    BY <1>3, <2>1, <2>3, <2>4 DEF checkServer
<1>4. CASE Refreshed(s)
  <2>1. pc[Io(s)] = "answered" /\ queue[s] # <<>> /\ hashMutex' = hashMutex /\ left' = left
    BY <1>a, <1>4 DEF Refreshed, BusyInv
  <2>2. CASE Reply(s)
    BY <1>1, <2>1, <2>2
  <2>3. ASSUME NEW to \in {"clean", "lock"}, Goes(Io(s), "answered", to), queue' = queue
        PROVE  WaitInv'
    BY <1>2, <2>1, <2>3 DEF Locations
  <2> QED
    BY <1>4, <2>2, <2>3 DEF Refreshed
<1>5. CASE Cleaned(s)
  <2>1. pc[Io(s)] = "cleaning" /\ queue[s] # <<>> /\ Unlock(s) /\ left' = left
    BY <1>a, <1>5 DEF Cleaned, BusyInv
  <2>2. CASE Reply(s)
    BY <1>1, <2>1, <2>2
  <2>3. CASE Goes(Io(s), "cleaning", "lock") /\ queue' = queue
    BY <1>2, <2>1, <2>3 DEF Locations
  <2> QED
    BY <1>5, <2>2, <2>3 DEF Cleaned
<1>6. CASE antiEntropy(s)
  <2>1. pc[Io(s)] = "idle" /\ queue[s] # <<>> /\ hashMutex' = hashMutex /\ left' = left
    BY <1>6 DEF antiEntropy, Handles
  <2>2. CASE Reply(s)
    BY <1>1, <2>1, <2>2
  <2>3. CASE Goes(Io(s), "idle", "lock") /\ queue' = queue
    BY <1>2, <2>1, <2>3 DEF Locations
  <2> QED
    BY <1>6, <2>2, <2>3 DEF antiEntropy
<1>7. CASE serverStatistics(s)
  BY <1>1, <1>7 DEF serverStatistics, Handles
<1>8. CASE Handled(s)
  <2>1. pc[Io(s)] = "locked" /\ queue[s] # <<>>
    BY <1>a, <1>8 DEF Handled, BusyInv
  <2> QED
    BY <1>1, <1>8, <2>1 DEF Handled
<1>9. ASSUME NEW from \in {"clean", "lock"}, NEW to \in {"cleaning", "locked"},
             Lock(Io(s), s, from, to)
      PROVE  WaitInv'
  <2>1. queue[s] # <<>>
    BY <1>a, <1>9 DEF Lock, BusyInv
  <2>2. CallInv'
    BY <1>9, <2>1, LocalStep DEF Lock, Locations
  <2>3. LockInv'
    BY <1>9, HolderAdded DEF CallInv
  <2> QED
    BY <1>9, <2>2, <2>3 DEF Lock
<1> QED
  BY <1>3, <1>4, <1>5, <1>6, <1>7, <1>8, <1>9 DEF ServerIo, IoLocks

(***************************************************************************)
(* So do the other threads of a server and the callers from outside.       *)
(***************************************************************************)
LEMMA CallersStep ==
  ASSUME WaitInv,
         \/ \E s \in Servers : pingViewService(s) \/ AeLocks(s) \/ Releases(s)
         \/ \E t \in Of("client", Clients), s \in Servers : Outside(t, s)
         \/ \E t \in Of("monitor", Monitors) : Outside(t, VS)
  PROVE  WaitInv'
<1> USE ThreadNames DEF WaitInv, Working
<1>1. ASSUME NEW t \in Threads, NEW p \in Processes, Call(t, p),
             \A q \in Processes : t # Io(q), left' = left, pc[t] # "wait",
             \/ hashMutex' = hashMutex /\ pc[t] \notin Working
             \/ \E s \in Servers : t = <<"ae", s>> /\ Unlock(s)
      PROVE  WaitInv'
  <2>1. CallInv'
    BY <1>1, CallStep
  <2>2. \A u \in Threads \ {t} : pc'[u] = pc[u]
    BY <1>1 DEF Call, CallInv, WaitTypes
  <2>3. LockInv'
    BY <1>1, <2>2, HoldersKept, HoldersReleased
  <2> QED
    BY <1>1, <2>1, <2>3
<1>2. ASSUME NEW t \in Threads, NEW from \in Locations \ {"wait"}, NEW to \in Locations,
             Goes(t, from, to), \A q \in Processes : t # Io(q), queue' = queue, left' = left,
             \/ hashMutex' = hashMutex /\ from \notin Working
             \/ \E s \in Servers : t \in {<<"ping", s>>, <<"ae", s>>} /\ Unlock(s)
      PROVE  WaitInv'
  <2>1. CallInv'
    BY <1>2, LocalStep DEF Goes
  <2>2. \A u \in Threads \ {t} : pc'[u] = pc[u]
    BY <1>2 DEF Goes, CallInv, WaitTypes
  <2>3. LockInv'
    BY <1>2, <2>2, HoldersKept, HoldersReleased DEF Goes
  <2> QED
    BY <1>2, <2>1, <2>3
<1>3. ASSUME NEW s \in Servers, NEW t \in Threads, NEW from \in {"idle", "answered"},
             NEW to \in Locations, Lock(t, s, from, to), \A q \in Processes : t # Io(q),
             \/ t = <<"ping", s>> /\ to = "cleaning"
             \/ t = <<"ae", s>> /\ to \in {"collect", "apply"}
      PROVE  WaitInv'
  <2>1. CallInv'
    BY <1>3, LocalStep DEF Lock
  <2>2. LockInv'
    BY <1>3, HolderAdded DEF CallInv
  <2> QED
    BY <1>3, <2>1, <2>2 DEF Lock
<1> HIDE DEF WaitInv, Working
<1>a. ASSUME NEW s \in Servers, NEW t \in {<<"ping", s>>, <<"ae", s>>}
      PROVE  t \in Threads /\ \A q \in Processes : t # Io(q)
  OBVIOUS
<1>b. {"idle", "answered", "cleaning", "collect", "apply"} \subseteq Locations \ {"wait"}
      /\ "idle" \notin Working /\ "answered" \notin Working
  BY DEF Locations, Working
<1>4. ASSUME NEW s \in Servers, pingViewService(s) PROVE WaitInv'
  <2> DEFINE t == <<"ping", s>>
  <2>a. t \in Threads /\ \A q \in Processes : t # Io(q)
    BY <1>a
  <2>b. t = <<"ping", s>>
    OBVIOUS
  <2> HIDE DEF t
  <2>1. CASE pc[t] = "idle" /\ Call(t, VS) /\ UNCHANGED <<hashMutex, left>>
    BY <1>1, <1>b, <2>a, <2>1
  <2>2. CASE Goes(t, "answered", "idle") /\ UNCHANGED <<queue, hashMutex, left>>
    BY <1>2, <1>b, <2>a, <2>2
  <2>3. CASE Lock(t, s, "answered", "cleaning")
    BY <1>3, <1>b, <2>a, <2>b, <2>3
  <2> QED
    BY <1>4, <2>b, <2>1, <2>2, <2>3 DEF pingViewService
<1>5. ASSUME NEW s \in Servers, AeLocks(s) PROVE WaitInv'
  <2>1. <<"ae", s>> \in Threads /\ \A q \in Processes : <<"ae", s>> # Io(q)
    BY <1>a
  <2>2. CASE Lock(<<"ae", s>>, s, "idle", "collect")
    BY <1>3, <1>b, <2>1, <2>2
  <2>3. CASE Lock(<<"ae", s>>, s, "answered", "apply")
    BY <1>3, <1>b, <2>1, <2>3
  <2> QED
    BY <1>5, <2>2, <2>3 DEF AeLocks
<1>6. ASSUME NEW s \in Servers, PingUnlocks(s) \/ AeUnlocks(s) PROVE WaitInv'
  <2>1. CASE PingUnlocks(s)
    BY <1>2, <1>a, <1>b, <2>1 DEF PingUnlocks
  <2>2. CASE AeUnlocks(s)
    BY <1>2, <1>a, <1>b, <2>2 DEF AeUnlocks
  <2> QED
    BY <1>6, <2>1, <2>2
<1>7. ASSUME NEW s \in Servers, AeCalls(s) PROVE WaitInv'
  <2> DEFINE t == <<"ae", s>>
  <2>a. t \in Threads /\ \A q \in Processes : t # Io(q)
    BY <1>a
  <2>b. t = <<"ae", s>> /\ pc[t] = "collect" /\ Unlock(s) /\ left' = left
    BY <1>7 DEF AeCalls
  <2> HIDE DEF t
  <2>1. ASSUME NEW d \in Servers \ {s}, Call(t, d) PROVE WaitInv'
    BY <1>1, <2>a, <2>b, <2>1
  <2>2. CASE Goes(t, "collect", "idle") /\ queue' = queue
    BY <1>2, <1>b, <2>a, <2>b, <2>2
  <2> QED
    BY <1>7, <2>b, <2>1, <2>2 DEF AeCalls
<1>8. ASSUME NEW t \in Of("client", Clients) \union Of("monitor", Monitors),
             NEW p \in Processes, Outside(t, p)
      PROVE  WaitInv'
  <2>1. CASE pc[t] = "idle" /\ Call(t, p)
    BY <1>1, <1>8, <1>b, <2>1 DEF Outside
  <2>2. CASE Goes(t, "answered", "idle") /\ queue' = queue
    BY <1>2, <1>8, <1>b, <2>2 DEF Outside
  <2> QED
    BY <1>8, <2>1, <2>2 DEF Outside
<1> QED
  BY <1>4, <1>5, <1>6, <1>7, <1>8 DEF Releases

(***************************************************************************)
(* WaitInv is inductive.                                                   *)
(***************************************************************************)
LEMMA WaitInvariant == Spec => []WaitInv
<1>1. Init => WaitInv
  <2> SUFFICES ASSUME Init PROVE WaitInv
    OBVIOUS
  <2> USE ThreadNames DEF Init
  <2>1. WaitTypes /\ QueueInv /\ BusyInv
    BY DEF WaitTypes, Locations, QueueInv, BusyInv
  <2>2. LockInv
    BY DEF LockInv, HolderInv
  <2> QED
    BY <2>1, <2>2 DEF WaitInv, CallInv
<1>2. ASSUME WaitInv, UNCHANGED vars PROVE WaitInv'
  <2> USE <1>2 DEF vars, Io
  <2>1. WaitTypes' /\ QueueInv' /\ BusyInv'
    BY DEF WaitInv, CallInv, WaitTypes, QueueInv, CallerAt, BusyInv
  <2>2. LockInv'
    BY HoldersKept DEF WaitInv
  <2> QED
    BY <2>1, <2>2 DEF WaitInv, CallInv
<1>3. WaitInv /\ [Next]_vars => WaitInv'
  BY <1>2, ViewIoStep, ServerIoStep, CallersStep DEF Next
<1> QED
  BY <1>1, <1>3, PTL DEF Spec

(***************************************************************************)
(* Threads wait in a circle only if the view service and a server wait for *)
(* each other: the holder of a mutex never waits, so every thread of the   *)
(* circle waits for an I/O thread, and only calls between the view service *)
(* and a server have an I/O thread at both ends.                           *)
(***************************************************************************)
THEOREM CirclesTheorem == Spec => []CirclesAreCrossed
<1>1. ASSUME WaitInv, NEW S \in SUBSET Waiting, S # {},
             \A t \in S : \E u \in S : WaitsFor(t, u)
      PROVE  Crossed
  <2> USE ThreadNames
  <2>0. QueueInv /\ HolderInv
    BY <1>1 DEF WaitInv, CallInv, LockInv
  <2>1. ASSUME NEW t \in S
        PROVE  \E p \in Processes : Io(p) \in S /\ \E i \in 1 .. Len(queue[p]) : queue[p][i] = t
    <3>1. PICK u \in S : WaitsFor(t, u)
      BY <1>1
    <3>2. ASSUME NEW s \in Servers, u = hashMutex[s] PROVE FALSE
      <4>1. u # None /\ pc[u] \in {"cleaning", "locked", "collect", "apply"}
        <5>1. u # None
          BY DEF Waiting
        <5> QED
          BY <2>0, <3>2, <5>1 DEF HolderInv
      <4>2. PICK v \in S : WaitsFor(u, v)
        BY <1>1
      <4>3. pc[u] \in {"wait", "lock", "clean", "answered"}
        <5>1. CASE \E p \in Processes : \E i \in 1 .. Len(queue[p]) : queue[p][i] = u
          BY <2>0, <5>1 DEF QueueInv, CallerAt
        <5> QED
          BY <4>2, <5>1 DEF WaitsFor
      <4> QED
        BY <4>1, <4>3
    <3> QED
      BY <3>1, <3>2 DEF WaitsFor
  <2>2. ASSUME NEW p \in Processes, Io(p) \in S
        PROVE  \E q \in Processes :
                 /\ Io(q) \in S /\ (p = VS <=> q # VS)
                 /\ WaitsFor(Io(p), Io(q))
    <3>1. PICK q \in Processes : Io(q) \in S /\ \E i \in 1 .. Len(queue[q]) : queue[q][i] = Io(p)
      BY <2>1, <2>2
    <3>2. PICK i \in 1 .. Len(queue[q]) : queue[q][i] = Io(p)
      BY <3>1
    <3>3. CallerAt(q, i)
      BY <2>0 DEF QueueInv
    <3>4. q = VS <=> p # VS
      BY <3>2, <3>3 DEF CallerAt
    <3> QED
      BY <3>1, <3>4 DEF WaitsFor
  <2>3. PICK p \in Processes : Io(p) \in S
    BY <1>1, <2>1
  <2>4. Io(VS) \in S
    BY <2>2, <2>3
  <2>5. PICK s \in Processes : Io(s) \in S /\ s # VS /\ WaitsFor(Io(VS), Io(s))
    BY <2>2, <2>4
  <2>6. WaitsFor(Io(s), Io(VS))
    BY <2>2, <2>5
  <2>7. s \in Servers
    BY <2>5 DEF Processes
  <2> QED
    BY <2>5, <2>6, <2>7 DEF Crossed
<1>2. WaitInv => CirclesAreCrossed
  BY <1>1 DEF CirclesAreCrossed
<1> QED
  BY <1>2, WaitInvariant, PTL
=============================================================================
