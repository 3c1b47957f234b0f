-------------------------- MODULE CacheServerProofs --------------------------
(***************************************************************************)
(* Proofs about CacheServer: mutual exclusion of the cleaner, which keys   *)
(* stay in the table of a server that is not responsible for them, and     *)
(* when a mutex is left locked, for every set of keys, peers and views and *)
(* any number of views.                                                    *)
(***************************************************************************)
EXTENDS CacheServer, Induction

(***************************************************************************)
(* Taking keys out of a list of keys leaves a list of the other keys.      *)
(***************************************************************************)
LEMMA WithoutKeys ==
  ASSUME NEW S, NEW l \in Seq(S), NEW K
  PROVE  Without(l, K) \in Seq(S \ K)
<1> DEFINE Def(g, i) == IF i = 0 THEN <<>> ELSE IF l[i] \in K THEN g[i - 1] ELSE Append(g[i - 1], l[i])
           Good(n) == \E g \in [0 .. n -> Seq(S \ K)] : \A i \in 0 .. n : g[i] = Def(g, i)
           F == CHOOSE g : g = [i \in 0 .. Len(l) |-> Def(g, i)]
<1>1. Good(0)
  <2> WITNESS [i \in 0 .. 0 |-> <<>>] \in [0 .. 0 -> Seq(S \ K)]
  <2> QED
    OBVIOUS
<1>2. ASSUME NEW n \in 0 .. Len(l) - 1, Good(n) PROVE Good(n + 1)
  <2>1. PICK g \in [0 .. n -> Seq(S \ K)] : \A i \in 0 .. n : g[i] = Def(g, i)
    BY <1>2
  <2> DEFINE e == IF l[n + 1] \in K THEN g[n] ELSE Append(g[n], l[n + 1])
             h == [i \in 0 .. n + 1 |-> IF i = n + 1 THEN e ELSE g[i]]
  <2>2. e \in Seq(S \ K)
    OBVIOUS
  <2>3. h \in [0 .. n + 1 -> Seq(S \ K)]
    BY <2>2
  <2>4. ASSUME NEW i \in 0 .. n + 1 PROVE h[i] = Def(h, i)
    <3>1. CASE i = n + 1
      <4>1. i - 1 = n /\ n \in 0 .. n + 1 /\ n # n + 1 /\ i # 0
        BY <3>1
      <4>2. h[i] = e /\ h[i - 1] = g[n]
        BY <3>1, <4>1
      <4> QED
        BY <3>1, <4>1, <4>2
    <3>2. CASE i # n + 1
      <4>1. i \in 0 .. n /\ h[i] = g[i] /\ (i # 0 => h[i - 1] = g[i - 1])
        BY <3>2
      <4> QED
        BY <2>1, <4>1
    <3> QED
      BY <3>1, <3>2
  <2> QED
    BY <2>3, <2>4
<1>3. Good(Len(l))
  <2> DEFINE T == {n \in 0 .. Len(l) : Good(n)}
  <2> HIDE DEF Good
  <2>1. 0 \in T /\ \A i \in 0 .. Len(l) - 1 : i \in T => i + 1 \in T
    BY <1>1, <1>2
  <2>2. 0 .. Len(l) \subseteq T
    <3> HIDE DEF T
    <3> QED
      BY <2>1, CountTo
  <2> QED
    BY <2>2
<1>4. PICK g \in [0 .. Len(l) -> Seq(S \ K)] : \A i \in 0 .. Len(l) : g[i] = Def(g, i)
  BY <1>3
<1>5. g = [i \in 0 .. Len(l) |-> Def(g, i)]
  BY <1>4
<1>6. F = [i \in 0 .. Len(l) |-> Def(F, i)]
  BY <1>5
<1>7. Without(l, K) = F[Len(l)]
  BY DEF Without
<1> HIDE DEF F
<1>8. \A i \in 0 .. Len(l) : F[i] \in Seq(S \ K)
  <2> DEFINE T == {i \in 0 .. Len(l) : F[i] \in Seq(S \ K)}
  <2>1. 0 \in T
    BY <1>6
  <2>2. ASSUME NEW i \in 0 .. Len(l) - 1, i \in T PROVE i + 1 \in T
    <3>1. i + 1 \in 0 .. Len(l) /\ i + 1 # 0 /\ i + 1 - 1 = i /\ l[i + 1] \in S
      OBVIOUS
    <3>2. F[i + 1] = Def(F, i + 1)
      <4> HIDE DEF Def
      <4> QED
        BY <1>6, <3>1
    <3>3. F[i + 1] = IF l[i + 1] \in K THEN F[i] ELSE Append(F[i], l[i + 1])
      BY <3>1, <3>2
    <3>4. F[i] \in Seq(S \ K)
      BY <2>2
    <3>5. F[i + 1] \in Seq(S \ K)
      BY <3>1, <3>3, <3>4
    <3> QED
      BY <3>1, <3>5
  <2>3. 0 .. Len(l) \subseteq T
    <3>1. Len(l) \in Nat
      OBVIOUS
    <3> HIDE DEF T
    <3> QED
      BY <2>1, <2>2, <3>1, CountTo
  <2> QED
    BY <2>3
<1> QED
  BY <1>7, <1>8

(***************************************************************************)
(* So the keys stored afterwards are the stored keys that were not taken   *)
(* out, and the list is still one of keys.                                 *)
(***************************************************************************)
LEMMA WithoutType ==
  ASSUME NEW S, NEW l \in Seq(S), NEW K
  PROVE  /\ Without(l, K) \in Seq(S)
         /\ Stored(Without(l, K)) \subseteq Stored(l) \ K
<1>1. l \in Seq(Stored(l))
  BY DEF Stored
<1>2. Without(l, K) \in Seq(Stored(l) \ K)
  BY <1>1, WithoutKeys
<1>3. Stored(l) \subseteq S
  BY DEF Stored
<1> DEFINE w == Without(l, K)
<1> HIDE DEF w
<1>4. w \in Seq(Stored(l) \ K) => w \in Seq(S) /\ Stored(w) \subseteq Stored(l) \ K
  BY <1>3 DEF Stored
<1> QED
  BY <1>2, <1>4 DEF w

(***************************************************************************)
(* So do the other operations on the list: a key moves to the front, the   *)
(* last ones are evicted, and the cleaner goes to the next.                *)
(***************************************************************************)
LEMMA ListTypes ==
  ASSUME NEW l \in Seq(Keys)
  PROVE  /\ \A k \in Keys : /\ ToFront(l, k) \in Seq(Keys)
                           /\ Stored(ToFront(l, k)) \subseteq Stored(l) \union {k}
         /\ \A m \in Normalized(l) : m \in Seq(Keys) /\ Stored(m) \subseteq Stored(l)
         /\ l # <<>> => /\ Head(l) \in Keys /\ Tail(l) \in Seq(Keys)
                       /\ Stored(l) = {Head(l)} \union Stored(Tail(l))
<1>1. ASSUME NEW k \in Keys
      PROVE  /\ ToFront(l, k) \in Seq(Keys)
             /\ Stored(ToFront(l, k)) \subseteq Stored(l) \union {k}
  <2> DEFINE w == Without(l, {k})
  <2>1. w \in Seq(Keys) /\ Stored(w) \subseteq Stored(l)
    BY WithoutType
  <2>2. ToFront(l, k) = <<k>> \o w
    BY DEF ToFront
  <2> HIDE DEF w
  <2>3. Stored(<<k>> \o w) \subseteq {k} \union Stored(w)
    BY <2>1 DEF Stored
  <2> QED
    BY <2>1, <2>2, <2>3
<1>2. ASSUME NEW m \in Normalized(l) PROVE m \in Seq(Keys) /\ Stored(m) \subseteq Stored(l)
  <2>1. PICK n \in 0 .. Len(l) : m = SubSeq(l, 1, n)
    BY DEF Normalized
  <2>2. m \in Seq(Keys) /\ Len(m) = n /\ \A i \in 1 .. n : m[i] = l[i]
    BY <2>1
  <2> QED
    BY <2>2 DEF Stored
<1>3. ASSUME l # <<>>
      PROVE  /\ Head(l) \in Keys /\ Tail(l) \in Seq(Keys)
             /\ Stored(l) = {Head(l)} \union Stored(Tail(l))
  <2>1. Head(l) = l[1] /\ Tail(l) \in Seq(Keys) /\ Len(l) \in Nat \ {0} /\ Len(Tail(l)) = Len(l) - 1
    BY <1>3
  <2>2. \A i \in 1 .. Len(l) - 1 : Tail(l)[i] = l[i + 1]
    BY <1>3
  <2>3. ASSUME NEW i \in 1 .. Len(l), i # 1 PROVE l[i] \in Stored(Tail(l))
    <3>1. i - 1 \in 1 .. Len(l) - 1 /\ i - 1 + 1 = i
      BY <2>1, <2>3
    <3> QED
      BY <2>1, <2>2, <3>1 DEF Stored
  <2> QED
    BY <2>1, <2>2, <2>3 DEF Stored
<1> QED
  BY <1>1, <1>2, <1>3

-----------------------------------------------------------------------------
(* The inductive invariant.                                                *)

Locations == {"idle", "check", "ask", "adopt", "lock", "clean", "decide", "apply"}

ServerTypes ==
  /\ views \in Seq(Rings)
  /\ currentView \in 0 .. Len(views)
  /\ hashMutex \in Threads \union {"free", "leaked"}
  /\ list \in Seq(Keys) /\ rest \in Seq(Keys)
  /\ th \in [Threads -> [pc: Locations, view: 0 .. Len(views)]]
  /\ req \in [op: {"none", "put", "get", "antiEntropy"}, num: 0 .. Len(views),
              key: Keys \union {"none"}]

(***************************************************************************)
(* A thread that is about to use a view has one: the initial view, which   *)
(* is empty, is never cleaned against nor served.                          *)
(***************************************************************************)
ViewKnown ==
  /\ \A t \in Threads : th[t].pc = "adopt" => th[t].view # 0
  /\ \A t \in Threads : th[t].pc \in {"lock", "clean", "decide", "apply"} => currentView # 0
  /\ th["io"].pc # "idle" => req.num # 0 /\ req.key \in Keys
  /\ th["ping"].pc \in {"ask", "adopt", "lock", "clean"}

(***************************************************************************)
(* The cursor of cleanHash is used only by the thread that holds hashMutex.*)
(***************************************************************************)
NoStrayCursor == hashMutex \notin Threads => rest = <<>>

(***************************************************************************)
(* OwnedOrStray in the middle of a view change.  A thread at "lock" has    *)
(* changed the view and not compared the table with it.  While no thread   *)
(* is, a key of the table is one that cleanHash has still to visit, or a   *)
(* stray, or belongs to the server.                                        *)
(***************************************************************************)
Compared ==
  (\A t \in Threads : th[t].pc # "lock") /\ ~ Leaked =>
    \A k \in Stored(list) : \/ k \in Stored(rest) \union strays
                            \/ Self \in RingOf(currentView)[k]

NoStrayYet == rest # <<>> => strays = {}

ServerInv ==
  /\ ServerTypes /\ ViewKnown
  /\ CleanerHoldsMutex /\ NoStrayCursor
  /\ Compared /\ NoStrayYet /\ LeaksNeedEmptyRing

(***************************************************************************)
(* Where checkServer goes when it has compared the view numbers.           *)
(***************************************************************************)
LEMMA CheckOutcomes ==
  ASSUME ServerTypes, Check
  PROVE  \/ /\ req.num = currentView
            /\ th' = [th EXCEPT !["io"] =
                 [pc |-> IF req.op = "antiEntropy" THEN "apply" ELSE "decide",
                  view |-> currentView]]
            /\ req' = req
         \/ Goto("io", "ask") /\ req' = req
         \/ Return("io")
<1>1. CASE req.num = currentView
  BY <1>1 DEF Check
<1>2. CASE req.num # currentView /\ req.num > currentView /\ req.op # "antiEntropy"
  BY <1>2 DEF Check
<1>3. CASE req.num # currentView /\ ~ (req.num > currentView /\ req.op # "antiEntropy")
  BY <1>3 DEF Check
<1> QED
  BY <1>1, <1>2, <1>3

(***************************************************************************)
(* The types are preserved by every step of the three threads.             *)
(***************************************************************************)
LEMMA ServerTypesStep == ServerTypes /\ ViewKnown /\ [Next]_vars => ServerTypes'
<1> SUFFICES ASSUME ServerTypes, ViewKnown, [Next]_vars PROVE ServerTypes'
  OBVIOUS
<1> USE DEF ServerTypes, ViewKnown, Locations, Threads, viewVars, storeVars, NoRequest
<1>1. ASSUME NEW r \in Rings, NewView(r) PROVE ServerTypes'
  BY <1>1 DEF NewView
<1>2. ASSUME NEW t \in Threads, Ask(t) PROVE ServerTypes'
  BY <1>2 DEF Ask
<1>3. ASSUME NEW t \in Threads, Adopt(t) PROVE ServerTypes'
  BY <1>3 DEF Adopt, Settle, Goto, Return
<1>4. ASSUME NEW t \in Threads, CleanHash(t) PROVE ServerTypes'
  BY <1>4 DEF CleanHash, Goto
<1>5. ASSUME NEW t \in Threads, CleanKey(t) PROVE ServerTypes'
  <2>1. Head(rest) \in Keys /\ Tail(rest) \in Seq(Keys)
    BY <1>5, ListTypes DEF CleanKey
  <2>2. rest' \in Seq(Keys)
    <3>1. rest' \in {Tail(rest), <<>>}
      BY <1>5 DEF CleanKey
    <3>2. CASE rest' = Tail(rest)
      BY <2>1, <3>2
    <3>3. CASE rest' = <<>>
      BY <3>3
    <3> QED
      BY <3>1, <3>2, <3>3
  <2>3. list' \in Seq(Keys)
    BY <1>5, WithoutType DEF CleanKey
  <2> QED
    BY <1>5, <2>2, <2>3 DEF CleanKey, Return
<1>6. ASSUME NEW t \in Threads, CleanDone(t) PROVE ServerTypes'
  <2>1. CASE t = "io"
    BY <1>6, <2>1 DEF CleanDone, Settle, Goto
  <2>2. CASE t # "io"
    BY <1>6, <2>2 DEF CleanDone, Settle, Return
  <2> QED
    BY <2>1, <2>2
<1>7. ASSUME NEW op \in {"put", "get", "antiEntropy"}, NEW n \in 1 .. Len(views),
             NEW k \in Keys, Receive(op, n, k) PROVE ServerTypes'
  BY <1>7 DEF Receive, Goto
<1>8. CASE AskFails
  BY <1>8 DEF AskFails, Return
<1>9. CASE Check
  <2>1. CASE req.num = currentView
    BY <1>9, <2>1 DEF Check
  <2>2. CASE Goto("io", "ask") /\ req' = req
    BY <1>9, <2>2 DEF Check, Goto
  <2>3. CASE Return("io")
    BY <1>9, <2>3 DEF Check, Return
  <2> QED
    BY <1>9, <2>1, <2>2, <2>3, CheckOutcomes
<1>10. CASE Decide
  <2>1. CASE Goto("io", "apply") /\ req' = req
    BY <1>10, <2>1 DEF Decide, Goto
  <2>2. CASE Return("io")
    BY <1>10, <2>2 DEF Decide, Return
  <2> QED
    BY <1>10, <2>1, <2>2 DEF Decide
<1>11. CASE Put
  <2>1. req.key \in Keys
    BY <1>11 DEF Put
  <2>2. list' \in Seq(Keys)
    BY <1>11, <2>1, ListTypes DEF Put
  <2> QED
    BY <1>11, <2>2 DEF Put, Return
<1>12. CASE Get
  BY <1>12, ListTypes DEF Get, Return
<1>13. CASE Propagate
  <2>1. req.key \in Keys
    BY <1>13 DEF Propagate
  <2>2. PICK l \in Normalized(list) :
          list' \in {l, ToFront(l, req.key), Without(l, {req.key})}
    BY <1>13 DEF Propagate
  <2>3. l \in Seq(Keys)
    BY ListTypes
  <2>4. ToFront(l, req.key) \in Seq(Keys) /\ Without(l, {req.key}) \in Seq(Keys)
    BY <2>1, <2>3, ListTypes, WithoutType
  <2> QED
    BY <1>13, <2>2, <2>3, <2>4 DEF Propagate, Return
<1>14. CASE Collect
  BY <1>14 DEF Collect
<1>15. CASE Fail
  BY <1>15 DEF Fail
<1>16. ASSUME NEW K \in SUBSET ae.sent, Reply(K) PROVE ServerTypes'
  BY <1>16, WithoutType DEF Reply
<1>17. CASE UNCHANGED vars
  BY <1>17 DEF vars
<1> QED
  BY <1>1, <1>2, <1>3, <1>4, <1>5, <1>6, <1>7, <1>8, <1>9, <1>10, <1>11, <1>12, <1>13, <1>14, <1>15, <1>16, <1>17
     DEF Next, Clean, IoStep

(***************************************************************************)
(* ViewKnown is preserved.                                                 *)
(***************************************************************************)
LEMMA ViewKnownStep == ServerTypes /\ ViewKnown /\ [Next]_vars => ViewKnown'
<1> SUFFICES ASSUME ServerTypes, ViewKnown, [Next]_vars PROVE ViewKnown'
  OBVIOUS
<1> USE DEF ServerTypes, ViewKnown, Locations, Threads, viewVars, storeVars, NoRequest
<1>1. ASSUME NEW r \in Rings, NewView(r) PROVE ViewKnown'
  BY <1>1 DEF NewView
<1>2. ASSUME NEW t \in Threads, Ask(t) PROVE ViewKnown'
  BY <1>2 DEF Ask
<1>3. ASSUME NEW t \in Threads, Adopt(t) PROVE ViewKnown'
  BY <1>3 DEF Adopt, Settle, Goto, Return
<1>4. ASSUME NEW t \in Threads, CleanHash(t) PROVE ViewKnown'
  BY <1>4 DEF CleanHash, Goto
<1>5. ASSUME NEW t \in Threads, CleanKey(t) PROVE ViewKnown'
  <2>1. CASE UNCHANGED <<th, req>>
    BY <1>5, <2>1 DEF CleanKey
  <2>2. CASE Return(t)
    BY <1>5, <2>2 DEF CleanKey, Return
  <2> QED
    BY <1>5, <2>1, <2>2 DEF CleanKey
<1>6. ASSUME NEW t \in Threads, CleanDone(t) PROVE ViewKnown'
  BY <1>6 DEF CleanDone, Settle, Goto, Return
<1>7. ASSUME NEW op \in {"put", "get", "antiEntropy"}, NEW n \in 1 .. Len(views),
             NEW k \in Keys, Receive(op, n, k) PROVE ViewKnown'
  BY <1>7 DEF Receive, Goto
<1>8. CASE AskFails
  BY <1>8 DEF AskFails, Return
<1>9. CASE Check
  <2>1. CASE req.num = currentView
    BY <1>9, <2>1 DEF Check
  <2>2. CASE Goto("io", "ask") /\ req' = req
    BY <1>9, <2>2 DEF Check, Goto
  <2>3. CASE Return("io")
    BY <1>9, <2>3 DEF Check, Return
  <2> QED
    BY <1>9, <2>1, <2>2, <2>3, CheckOutcomes
<1>10. CASE Decide
  <2>1. CASE Goto("io", "apply") /\ req' = req
    BY <1>10, <2>1 DEF Decide, Goto
  <2>2. CASE Return("io")
    BY <1>10, <2>2 DEF Decide, Return
  <2> QED
    BY <1>10, <2>1, <2>2 DEF Decide
<1>11. CASE Put
  BY <1>11 DEF Put, Return
<1>12. CASE Get
  BY <1>12 DEF Get, Return
<1>13. CASE Propagate
  BY <1>13 DEF Propagate, Return
<1>14. CASE Collect
  BY <1>14 DEF Collect
<1>15. CASE Fail
  BY <1>15 DEF Fail
<1>16. ASSUME NEW K \in SUBSET ae.sent, Reply(K) PROVE ViewKnown'
  BY <1>16 DEF Reply
<1>17. CASE UNCHANGED vars
  BY <1>17 DEF vars
<1> QED
  BY <1>1, <1>2, <1>3, <1>4, <1>5, <1>6, <1>7, <1>8, <1>9, <1>10, <1>11, <1>12, <1>13, <1>14, <1>15, <1>16, <1>17
     DEF Next, Clean, IoStep

(***************************************************************************)
(* hashMutex and the cursor of cleanHash stay with the cleaner.            *)
(***************************************************************************)
LEMMA MutexStep ==
  ServerTypes /\ ViewKnown /\ CleanerHoldsMutex /\ NoStrayCursor /\ [Next]_vars
    => CleanerHoldsMutex' /\ NoStrayCursor'
<1> SUFFICES ASSUME ServerTypes, ViewKnown, CleanerHoldsMutex, NoStrayCursor, [Next]_vars
             PROVE  (CleanerHoldsMutex /\ NoStrayCursor)'
  OBVIOUS
<1> USE DEF ServerTypes, ViewKnown, CleanerHoldsMutex, NoStrayCursor, Threads, Locations,
            viewVars, storeVars
<1>0. Stored(<<>>) = {}
  BY DEF Stored
<1>1. ASSUME NEW r \in Rings, NewView(r) PROVE (CleanerHoldsMutex /\ NoStrayCursor)'
  BY <1>1 DEF NewView
<1>2. ASSUME NEW t \in Threads, Ask(t) PROVE (CleanerHoldsMutex /\ NoStrayCursor)'
  BY <1>2 DEF Ask
<1>3. ASSUME NEW t \in Threads, Adopt(t) PROVE (CleanerHoldsMutex /\ NoStrayCursor)'
  BY <1>3 DEF Adopt, Settle, Goto, Return
<1>4. ASSUME NEW t \in Threads, CleanHash(t) PROVE (CleanerHoldsMutex /\ NoStrayCursor)'
  BY <1>4 DEF CleanHash, Goto
<1>5. ASSUME NEW t \in Threads, CleanKey(t) PROVE (CleanerHoldsMutex /\ NoStrayCursor)'
  <2>1. Stored(Tail(rest)) \subseteq Stored(rest)
    BY <1>5, ListTypes DEF CleanKey
  <2>2. hashMutex = t /\ th[t].pc = "clean"
    BY <1>5 DEF CleanKey
  <2>3. CASE UNCHANGED <<hashMutex, th>>
    BY <1>0, <1>5, <2>1, <2>2, <2>3 DEF CleanKey
  <2>4. CASE hashMutex' = "leaked" /\ rest' = <<>> /\ Return(t)
    BY <1>0, <2>2, <2>4 DEF Return
  <2> QED
    BY <1>5, <2>3, <2>4 DEF CleanKey
<1>6. ASSUME NEW t \in Threads, CleanDone(t) PROVE (CleanerHoldsMutex /\ NoStrayCursor)'
  BY <1>6 DEF CleanDone, Settle, Goto, Return
<1>7. ASSUME NEW op \in {"put", "get", "antiEntropy"}, NEW n \in 1 .. Len(views),
             NEW k \in Keys, Receive(op, n, k) PROVE (CleanerHoldsMutex /\ NoStrayCursor)'
  BY <1>7 DEF Receive, Goto
<1>8. CASE AskFails
  BY <1>8 DEF AskFails, Return
<1>9. CASE Check
  <2>1. \E e \in [pc: Locations \ {"clean"}, view: Nat] : th' = [th EXCEPT !["io"] = e]
    BY <1>9, CheckOutcomes DEF Goto, Return
  <2> QED
    BY <1>9, <2>1 DEF Check
<1>10. CASE Decide
  <2>1. CASE Goto("io", "apply") /\ req' = req
    BY <1>10, <2>1 DEF Decide, Goto
  <2>2. CASE Return("io")
    BY <1>10, <2>2 DEF Decide, Return
  <2> QED
    BY <1>10, <2>1, <2>2 DEF Decide
<1>11. CASE Put
  BY <1>0, <1>11 DEF Put, Return
<1>12. CASE Get
  BY <1>0, <1>12 DEF Get, Return
<1>13. CASE Propagate
  BY <1>0, <1>13 DEF Propagate, Return
<1>14. CASE Collect
  BY <1>14 DEF Collect
<1>15. CASE Fail
  BY <1>15 DEF Fail
<1>16. ASSUME NEW K \in SUBSET ae.sent, Reply(K) PROVE (CleanerHoldsMutex /\ NoStrayCursor)'
  BY <1>0, <1>16 DEF Reply
<1>17. CASE UNCHANGED vars
  BY <1>17 DEF vars
<1> QED
  BY <1>1, <1>2, <1>3, <1>4, <1>5, <1>6, <1>7, <1>8, <1>9, <1>10, <1>11, <1>12, <1>13, <1>14, <1>15, <1>16, <1>17
     DEF Next, Clean, IoStep

(***************************************************************************)
(* A view that was made stays as it is.                                    *)
(***************************************************************************)
LEMMA ViewsStable ==
  ASSUME ServerTypes, [Next]_vars, NEW n \in 1 .. Len(views)
  PROVE  n \in 1 .. Len(views') /\ views'[n] = views[n]
<1>1. views' = views \/ \E r \in Rings : views' = Append(views, r)
  BY DEF Next, vars, viewVars, NewView, Ask, Adopt, Clean, CleanHash, CleanKey, CleanDone,
         Receive, AskFails, IoStep, Check, Decide, Put, Get, Propagate, Collect, Fail, Reply
<1>2. ASSUME NEW r \in Rings, views' = Append(views, r)
      PROVE  n \in 1 .. Len(views') /\ views'[n] = views[n]
  BY <1>2 DEF ServerTypes
<1> QED
  BY <1>1, <1>2

(***************************************************************************)
(* The group of a key in the view that the server is at changes only when  *)
(* a thread adopts a view.                                                 *)
(***************************************************************************)
LEMMA GroupStable ==
  ASSUME ServerTypes, [Next]_vars, currentView' = currentView, NEW k
  PROVE  RingOf(currentView)'[k] = RingOf(currentView)[k]
<1>1. CASE currentView = 0
  BY <1>1 DEF RingOf, EmptyRing
<1>2. CASE currentView # 0
  <2>1. currentView \in 1 .. Len(views)
    BY <1>2 DEF ServerTypes
  <2>2. views'[currentView] = views[currentView]
    BY <2>1, ViewsStable
  <2> QED
    BY <1>2, <2>2 DEF RingOf
<1> QED
  BY <1>1, <1>2

(***************************************************************************)
(* A mutex that is left locked stays locked.                               *)
(***************************************************************************)
LEMMA LeakStays == ServerTypes /\ CleanerHoldsMutex /\ Leaked /\ [Next]_vars => Leaked'
<1> SUFFICES ASSUME ServerTypes, CleanerHoldsMutex, Leaked, [Next]_vars PROVE Leaked'
  OBVIOUS
<1>1. ASSUME NEW t \in Threads, CleanHash(t) PROVE Leaked'
  BY <1>1 DEF CleanHash, Leaked, viewVars
<1>2. ASSUME NEW t \in Threads, CleanKey(t) PROVE Leaked'
  BY <1>2 DEF CleanKey, Leaked, viewVars
<1>3. ASSUME NEW t \in Threads, CleanDone(t) PROVE Leaked'
  <2>1. hashMutex = t /\ t # "leaked"
    BY <1>3 DEF CleanDone, CleanerHoldsMutex, Threads
  <2> QED
    BY <1>3, <2>1 DEF CleanDone, Leaked, viewVars
<1>4. CASE UNCHANGED <<viewLeaked, hashMutex>>
  BY <1>4 DEF Leaked
<1>5. ~ Put
  BY DEF Put, Leaked
<1> QED
  BY <1>1, <1>2, <1>3, <1>4, <1>5
     DEF Next, vars, viewVars, storeVars, NewView, Ask, Adopt, Clean, Receive, AskFails,
         IoStep, Check, Decide, Get, Propagate, Collect, Fail, Reply

(***************************************************************************)
(* Compared is preserved: a view that differs from the last one sends its  *)
(* thread to "lock", cleanHash compares the key that it leaves behind, and *)
(* what put and propagate store is owned in the view of now or a stray.    *)
(***************************************************************************)
LEMMA ComparedStep ==
  /\ ServerTypes /\ ViewKnown /\ CleanerHoldsMutex /\ NoStrayCursor /\ NoStrayYet /\ Compared
  /\ [Next]_vars
  => Compared' /\ NoStrayYet'
<1> SUFFICES ASSUME ServerTypes, ViewKnown, CleanerHoldsMutex, NoStrayCursor, NoStrayYet, Compared,
                    [Next]_vars
             PROVE  Compared' /\ NoStrayYet'
  OBVIOUS
<1> DEFINE Owned(k) == Self \in RingOf(currentView)[k]
           Fine(k) == k \in Stored(rest) \union strays \/ Owned(k)
           Unlocked == \A t \in Threads : th[t].pc # "lock"
<1>a. Stored(<<>>) = {} /\ (hashMutex \notin Threads => rest = <<>>)
  BY DEF Stored, NoStrayCursor
<1>b. Unlocked /\ ~ Leaked => \A k \in Stored(list) : Fine(k)
  BY DEF Compared
<1>c. currentView' = currentView => \A k : Owned(k)' <=> Owned(k)
  BY GroupStable
<1>d. ~ Leaked' => ~ Leaked
  BY LeakStays
<1>e. (Unlocked' /\ ~ Leaked' => \A k \in Stored(list') : Fine(k)') => Compared'
  BY DEF Compared
<1>f. ASSUME Unlocked' => Unlocked, UNCHANGED <<currentView, list, rest, strays>>
      PROVE  Compared' /\ NoStrayYet'
  BY <1>b, <1>c, <1>d, <1>e, <1>f DEF NoStrayYet
<1>g. ASSUME Unlocked' => Unlocked, currentView' = currentView, hashMutex = "free",
             UNCHANGED rest, NEW k \in Keys,
             Stored(list') \subseteq Stored(list) \union {k},
             \/ StoreFor(k, RingOf(currentView)[k])
             \/ strays' = strays /\ Stored(list') \subseteq Stored(list)
      PROVE  Compared' /\ NoStrayYet'
  <2>1. NoStrayYet'
    BY <1>a, <1>g DEF NoStrayYet, Threads
  <2>2. ASSUME Unlocked', ~ Leaked', NEW j \in Stored(list') PROVE Fine(j)'
    <3>1. j \in Stored(list) => Fine(j)
      BY <1>b, <1>d, <1>g, <2>2
    <3>2. CASE j \in Stored(list) /\ (j # k \/ strays' = strays)
      BY <1>c, <1>g, <2>2, <3>1, <3>2 DEF StoreFor
    <3>3. CASE j = k /\ StoreFor(k, RingOf(currentView)[k])
      BY <1>c, <1>g, <3>3 DEF StoreFor
    <3> QED
      BY <1>g, <3>2, <3>3
  <2> QED
    BY <1>e, <2>1, <2>2
<1> HIDE DEF Fine, Owned
<1> USE DEF ServerTypes, ViewKnown, Threads, Locations, viewVars, storeVars
<1>1. ASSUME NEW r \in Rings, NewView(r) PROVE Compared' /\ NoStrayYet'
  BY <1>f, <1>1 DEF NewView
<1>2. ASSUME NEW t \in Threads, Ask(t) PROVE Compared' /\ NoStrayYet'
  BY <1>f, <1>2 DEF Ask
<1>3. ASSUME NEW t \in Threads, Adopt(t) PROVE Compared' /\ NoStrayYet'
  <2>1. CASE currentView # th[t].view
    <3>1. ~ Unlocked' /\ UNCHANGED <<rest, strays>>
      BY <1>3, <2>1 DEF Adopt, Goto
    <3> QED
      BY <1>e, <3>1 DEF NoStrayYet
  <2>2. CASE currentView = th[t].view
    <3>1. Unlocked' => Unlocked
      BY <1>3, <2>2 DEF Adopt, Settle, Goto, Return
    <3> QED
      BY <1>f, <1>3, <2>2, <3>1 DEF Adopt
  <2> QED
    BY <2>1, <2>2
<1>4. ASSUME NEW t \in Threads, CleanHash(t) PROVE Compared' /\ NoStrayYet'
  <2>1. \A k \in Stored(list') : Fine(k)'
    BY <1>4 DEF CleanHash, Fine
  <2> QED
    BY <1>e, <1>4, <2>1 DEF CleanHash, NoStrayYet
<1>5. ASSUME NEW t \in Threads, CleanKey(t) PROVE Compared' /\ NoStrayYet'
  <2> DEFINE k == Head(rest)
             g == RingOf(currentView)[k]
  <2>1. Stored(rest) = {k} \union Stored(Tail(rest))
    BY <1>5, ListTypes DEF CleanKey
  <2>2. hashMutex = t /\ strays = {} /\ currentView' = currentView
    BY <1>5 DEF CleanKey, CleanerHoldsMutex, NoStrayYet
  <2> HIDE DEF k
  <2>3. CASE Self \in g /\ UNCHANGED <<list, strays, th>> /\ rest' = Tail(rest)
    <3>1. ASSUME Unlocked', ~ Leaked', NEW j \in Stored(list') PROVE Fine(j)'
      <4>1. j \in Stored(rest) \/ Owned(j)
        BY <1>b, <1>d, <2>2, <2>3, <3>1 DEF Fine
      <4>2. j \in Stored(Tail(rest)) \/ Owned(j)
        BY <2>1, <2>3, <4>1 DEF Owned
      <4> QED
        BY <1>c, <2>2, <2>3, <4>2 DEF Fine
    <3> QED
      BY <1>e, <2>2, <2>3, <3>1 DEF NoStrayYet
  <2>4. CASE /\ list' = Without(list, {k}) /\ rest' = <<>> /\ strays' = Stored(Tail(rest))
             /\ UNCHANGED <<hashMutex, th>>
    <3>1. ASSUME Unlocked', ~ Leaked', NEW j \in Stored(list') PROVE Fine(j)'
      <4>1. j \in Stored(list) \ {k}
        BY <2>4, <3>1, WithoutType
      <4>2. j \in Stored(rest) \/ Owned(j)
        BY <1>b, <1>d, <2>2, <2>4, <3>1, <4>1 DEF Fine
      <4>3. j \in strays' \/ Owned(j)
        BY <2>1, <2>4, <4>1, <4>2
      <4>4. j \in strays' \/ Owned(j)'
        BY <1>c, <2>2, <4>3
      <4> QED
        BY <4>4 DEF Fine
    <3> QED
      BY <1>e, <2>2, <2>4, <3>1 DEF NoStrayYet
  <2>5. CASE hashMutex' = "leaked" /\ rest' = <<>>
    BY <1>e, <2>5 DEF Leaked, NoStrayYet
  <2> QED
    BY <1>5, <2>3, <2>4, <2>5 DEF CleanKey, k
<1>6. ASSUME NEW t \in Threads, CleanDone(t) PROVE Compared' /\ NoStrayYet'
  <2>1. Unlocked' => Unlocked
    BY <1>6 DEF CleanDone, Settle, Goto, Return
  <2> QED
    BY <1>f, <1>6, <2>1 DEF CleanDone
<1>7. ASSUME NEW op \in {"put", "get", "antiEntropy"}, NEW n \in 1 .. Len(views),
             NEW k \in Keys, Receive(op, n, k) PROVE Compared' /\ NoStrayYet'
  BY <1>f, <1>7 DEF Receive, Goto
<1>8. CASE AskFails
  BY <1>f, <1>8 DEF AskFails, Return
<1>9. CASE Check
  <2>1. Unlocked' => Unlocked
    BY <1>9, CheckOutcomes DEF Check, Goto, Return
  <2> QED
    BY <1>f, <1>9, <2>1 DEF Check
<1>10. CASE Decide
  <2>1. Unlocked' => Unlocked
    BY <1>10 DEF Decide, Goto, Return
  <2> QED
    BY <1>f, <1>10, <2>1 DEF Decide
<1>11. CASE Put
  <2>1. req.key \in Keys
    BY <1>11 DEF Put
  <2>2. Stored(list') \subseteq Stored(list) \union {req.key}
    <3>1. PICK l \in Normalized(list) : list' = ToFront(l, req.key)
      BY <1>11 DEF Put
    <3>2. l \in Seq(Keys) /\ Stored(l) \subseteq Stored(list)
      BY ListTypes
    <3> QED
      BY <2>1, <3>1, <3>2, ListTypes
  <2>3. Unlocked' => Unlocked
    BY <1>11 DEF Put, Return
  <2> QED
    BY <1>g, <1>11, <2>1, <2>2, <2>3 DEF Put
<1>12. CASE Get
  <2>1. req.key \in Keys
    BY <1>12 DEF Get
  <2>2. Stored(list') \subseteq Stored(list)
    BY <1>12, <2>1, ListTypes DEF Get
  <2>3. Unlocked' => Unlocked
    BY <1>12 DEF Get, Return
  <2> QED
    BY <1>g, <1>12, <2>1, <2>2, <2>3 DEF Get
<1>13. CASE Propagate
  <2>1. req.key \in Keys
    BY <1>13 DEF Propagate
  <2>2. Stored(list') \subseteq Stored(list) \union {req.key}
    <3>1. PICK l \in Normalized(list) :
            list' \in {l, ToFront(l, req.key), Without(l, {req.key})}
      BY <1>13 DEF Propagate
    <3>2. l \in Seq(Keys) /\ Stored(l) \subseteq Stored(list)
      BY ListTypes
    <3>3. Stored(ToFront(l, req.key)) \subseteq Stored(l) \union {req.key}
      BY <2>1, <3>2, ListTypes
    <3>4. Stored(Without(l, {req.key})) \subseteq Stored(l)
      BY <3>2, WithoutType
    <3> QED
      BY <3>1, <3>2, <3>3, <3>4
  <2>3. Unlocked' => Unlocked
    BY <1>13 DEF Propagate, Return
  <2> QED
    BY <1>g, <1>13, <2>1, <2>2, <2>3 DEF Propagate
<1>14. CASE Collect
  BY <1>f, <1>14 DEF Collect
<1>15. CASE Fail
  BY <1>f, <1>15 DEF Fail
<1>16. ASSUME NEW K \in SUBSET ae.sent, Reply(K) PROVE Compared' /\ NoStrayYet'
  <2>1. Stored(list') \subseteq Stored(list)
    BY <1>16, WithoutType DEF Reply
  <2>2. UNCHANGED <<currentView, hashMutex, rest, strays, th, viewLeaked>> /\ hashMutex = "free"
    BY <1>16 DEF Reply
  <2>3. ASSUME Unlocked', ~ Leaked', NEW j \in Stored(list') PROVE Fine(j)'
    BY <1>b, <1>c, <1>d, <2>1, <2>2, <2>3 DEF Fine
  <2> QED
    BY <1>e, <2>2, <2>3 DEF NoStrayYet
<1>17. CASE UNCHANGED vars
  BY <1>f, <1>17 DEF vars
<1> QED
  BY <1>1, <1>2, <1>3, <1>4, <1>5, <1>6, <1>7, <1>8, <1>9, <1>10, <1>11, <1>12, <1>13, <1>14, <1>15, <1>16, <1>17
     DEF Next, Clean, IoStep

(***************************************************************************)
(* A view that is known and has no group for some key is an empty ring.    *)
(***************************************************************************)
LEMMA EmptyGroup ==
  ASSUME ServerTypes, currentView # 0, NEW k \in Keys, RingOf(currentView)[k] = {}
  PROVE  \E n \in 1 .. Len(views) : views[n] = EmptyRing
<1>1. currentView \in 1 .. Len(views) /\ views[currentView] \in Rings
  BY DEF ServerTypes
<1>2. views[currentView][k] = {}
  BY DEF RingOf
<1> QED
  BY <1>1, <1>2, ServerAssumption

(***************************************************************************)
(* Only an empty ring makes a handler or the cleaner throw.                *)
(***************************************************************************)
LEMMA LeaksStep ==
  ServerTypes /\ ViewKnown /\ LeaksNeedEmptyRing /\ [Next]_vars => LeaksNeedEmptyRing'
<1> SUFFICES ASSUME ServerTypes, ViewKnown, LeaksNeedEmptyRing, [Next]_vars, Leaked'
             PROVE  (\E n \in 1 .. Len(views) : views[n] = EmptyRing)'
  BY DEF LeaksNeedEmptyRing
<1> DEFINE Emptied == \E n \in 1 .. Len(views) : views[n] = EmptyRing
<1>a. Emptied => Emptied'
  <2> SUFFICES ASSUME NEW n \in 1 .. Len(views), views[n] = EmptyRing PROVE Emptied'
    OBVIOUS
  <2>1. n \in 1 .. Len(views') /\ views'[n] = views[n]
    BY ViewsStable
  <2>2. EmptyRing' = EmptyRing
    BY DEF EmptyRing
  <2> QED
    BY <2>1, <2>2
<1>b. SUFFICES ASSUME ~ Leaked PROVE Emptied
  BY <1>a DEF LeaksNeedEmptyRing
<1> USE <1>b DEF Leaked, Threads, viewVars, storeVars
<1>1. ASSUME NEW r \in Rings, NewView(r) PROVE Emptied
  BY <1>1 DEF NewView
<1>2. ASSUME NEW t \in Threads, Ask(t) PROVE Emptied
  BY <1>2 DEF Ask
<1>3. ASSUME NEW t \in Threads, Adopt(t) PROVE Emptied
  BY <1>3 DEF Adopt, Settle, Goto, Return
<1>4. ASSUME NEW t \in Threads, CleanHash(t) PROVE Emptied
  BY <1>4 DEF CleanHash, Goto
<1>5. ASSUME NEW t \in Threads, CleanKey(t) PROVE Emptied
  <2>1. RingOf(currentView)[Head(rest)] = {}
    BY <1>5 DEF CleanKey
  <2>2. Head(rest) \in Keys /\ currentView # 0
    BY <1>5, ListTypes DEF CleanKey, ServerTypes, ViewKnown
  <2> QED
    BY <2>1, <2>2, EmptyGroup
<1>6. ASSUME NEW t \in Threads, CleanDone(t) PROVE Emptied
  BY <1>6 DEF CleanDone, Settle, Goto, Return
<1>7. ASSUME NEW op \in {"put", "get", "antiEntropy"}, NEW n \in 1 .. Len(views),
             NEW k \in Keys, Receive(op, n, k) PROVE Emptied
  BY <1>7 DEF Receive, Goto
<1>8. CASE AskFails
  BY <1>8 DEF AskFails, Return
<1>9. CASE Check
  BY <1>9 DEF Check, Goto, Return
<1>10. CASE Decide
  BY <1>10 DEF Decide, Goto, Return
<1>11. CASE Put
  <2>1. RingOf(currentView)[req.key] = {}
    BY <1>11 DEF Put
  <2>2. req.key \in Keys /\ currentView # 0
    BY <1>11 DEF Put, ServerTypes, ViewKnown, Threads
  <2> QED
    BY <2>1, <2>2, EmptyGroup
<1>12. CASE Get
  BY <1>12 DEF Get, Return
<1>13. CASE Propagate
  BY <1>13 DEF Propagate, Return
<1>14. CASE Collect
  BY <1>14 DEF Collect
<1>15. CASE Fail
  BY <1>15 DEF Fail
<1>16. ASSUME NEW K \in SUBSET ae.sent, Reply(K) PROVE Emptied
  BY <1>16 DEF Reply
<1>17. CASE UNCHANGED vars
  BY <1>17 DEF vars
<1> QED
  BY <1>1, <1>2, <1>3, <1>4, <1>5, <1>6, <1>7, <1>8, <1>9, <1>10, <1>11, <1>12, <1>13, <1>14, <1>15, <1>16, <1>17
     DEF Next, Clean, IoStep

(***************************************************************************)
(* ServerInv is inductive.                                                 *)
(***************************************************************************)
LEMMA ServerInvariant == Spec => []ServerInv
<1>1. Init => ServerInv
  <2> SUFFICES ASSUME Init PROVE ServerInv
    OBVIOUS
  <2> USE DEF Init, Threads
  <2>1. ServerTypes
    BY DEF ServerTypes, Locations, NoRequest
  <2>2. ViewKnown
    BY DEF ViewKnown
  <2>3. CleanerHoldsMutex /\ NoStrayCursor
    BY DEF CleanerHoldsMutex, NoStrayCursor, Stored
  <2>4. Compared /\ NoStrayYet /\ LeaksNeedEmptyRing
    BY DEF Compared, NoStrayYet, LeaksNeedEmptyRing, Leaked, Stored
  <2> QED
    BY <2>1, <2>2, <2>3, <2>4 DEF ServerInv
<1>2. ServerInv /\ [Next]_vars => ServerInv'
  BY ServerTypesStep, ViewKnownStep, MutexStep, ComparedStep, LeaksStep DEF ServerInv
<1> QED
  BY <1>1, <1>2, PTL DEF Spec

-----------------------------------------------------------------------------
(***************************************************************************)
(* A thread is inside cleanHash exactly when it holds hashMutex, and the   *)
(* keys it has still to visit are stored, for any number of keys.          *)
(***************************************************************************)
THEOREM MutexCorrect == Spec => []CleanerHoldsMutex
<1>1. ServerInv => CleanerHoldsMutex
  BY DEF ServerInv
<1> QED
  BY <1>1, ServerInvariant, PTL

(***************************************************************************)
(* Whichever thread adopts a view and however their steps fall, the keys   *)
(* that the server keeps without being responsible for them are strays:    *)
(* those behind the first key that cleanHash purged, and those stored late.*)
(***************************************************************************)
THEOREM OwnedCorrect == Spec => []OwnedOrStray
<1>1. ServerInv => OwnedOrStray
  <2> SUFFICES ASSUME ServerInv, Settled, ~ Leaked, NEW k \in Stored(list) \ strays
               PROVE  Self \in RingOf(currentView)[k]
    BY DEF OwnedOrStray
  <2>1. \A t \in Threads : th[t].pc # "lock" /\ th[t].pc # "clean"
    BY DEF Settled
  <2>2. rest = <<>>
    BY <2>1 DEF ServerInv, CleanerHoldsMutex, NoStrayCursor
  <2>3. Stored(rest) = {}
    BY <2>2 DEF Stored
  <2> QED
    BY <2>1, <2>3 DEF ServerInv, Compared
<1> QED
  BY <1>1, ServerInvariant, PTL

(***************************************************************************)
(* No mutex is left locked as long as the view service makes no empty view.*)
(***************************************************************************)
THEOREM LeaksCorrect == Spec => []LeaksNeedEmptyRing
<1>1. ServerInv => LeaksNeedEmptyRing
  BY DEF ServerInv
<1> QED
  BY <1>1, ServerInvariant, PTL
=============================================================================
