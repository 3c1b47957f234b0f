---------------------------- MODULE ClientProofs ----------------------------
(***************************************************************************)
(* Proofs about the programs that use the cache: the clients on their way  *)
(* to a server (Routing.tla), for any number of servers, clients and       *)
(* views, the blog (Blog.tla), for any number of users and posts, and the  *)
(* hash of a key (KeyHash.tla), for keys of any length.                    *)
(***************************************************************************)
EXTENDS Routing, Blog, KeyHash, Induction

-----------------------------------------------------------------------------
(* The way of a request to its server.                                     *)

(***************************************************************************)
(* No server and no client is at a view that was never made.               *)
(***************************************************************************)
RoutingInv ==
  /\ views \in Seq(SUBSET Servers)
  /\ currentView \in [Servers -> 0 .. Len(views)]
  /\ client \in [AllClients -> [pc : {"idle", "refresh"}, view : 0 .. Len(views),
                                result : {"none", "ok", "wrong", "failed"}]]

(***************************************************************************)
(* A client that ends a call keeps its view.                               *)
(***************************************************************************)
LEMMA EndsFacts ==
  ASSUME RoutingInv, NEW c \in AllClients, NEW r \in {"none", "ok", "wrong", "failed"}, Ends(c, r)
  PROVE  /\ client' \in [AllClients -> [pc : {"idle", "refresh"}, view : 0 .. Len(views),
                                        result : {"none", "ok", "wrong", "failed"}]]
         /\ client'[c].result = r
BY DEF RoutingInv, Ends

(***************************************************************************)
(* checkServer takes a server to the newest view or leaves it at its own.  *)
(***************************************************************************)
LEMMA LearnsFacts ==
  ASSUME RoutingInv, NEW s \in Servers, NEW n \in 0 .. Len(views)
  PROVE  /\ Learns(s, n) \in 0 .. Len(views) /\ Len(views) \in Nat
         /\ n = Len(views) => Learns(s, n) = n
<1>1. Len(views) \in Nat /\ currentView[s] \in 0 .. Len(views)
  BY DEF RoutingInv
<1> QED
  BY <1>1 DEF Learns

(***************************************************************************)
(* The groups consist of servers.                                          *)
(***************************************************************************)
LEMMA GroupFacts ==
  ASSUME RoutingInv, NEW n \in 0 .. Len(views)
  PROVE  Group(n) \subseteq Servers
BY DEF RoutingInv, Group

(***************************************************************************)
(* The invariant is inductive.                                             *)
(***************************************************************************)
LEMMA RoutingStep ==
  ASSUME RoutingInv, [Next]_vars
  PROVE  RoutingInv'
<1>1. CASE UNCHANGED vars
  BY <1>1 DEF RoutingInv, vars
<1>2. ASSUME NEW g \in SUBSET Servers, NewView(g) PROVE RoutingInv'
  <2>1. /\ views' = Append(views, g) /\ currentView' = currentView /\ client' = client
        /\ views \in Seq(SUBSET Servers)
    BY <1>2 DEF NewView, RoutingInv
  <2>2. views' \in Seq(SUBSET Servers) /\ Len(views) \in Nat /\ Len(views') = Len(views) + 1
    BY <2>1
  <2>3. 0 .. Len(views) \subseteq 0 .. Len(views')
    BY <2>2
  <2>4. currentView' \in [Servers -> 0 .. Len(views')]
    BY <2>1, <2>3 DEF RoutingInv
  <2>5. client' \in [AllClients -> [pc : {"idle", "refresh"}, view : 0 .. Len(views'),
                                    result : {"none", "ok", "wrong", "failed"}]]
    BY <2>1, <2>3 DEF RoutingInv
  <2> QED
    BY <2>2, <2>4, <2>5 DEF RoutingInv
<1>3. ASSUME NEW s \in Servers, Crash(s) \/ Start(s) \/ Ping(s) PROVE RoutingInv'
  <2>1. views' = views /\ client' = client /\ Len(views) \in Nat
    BY <1>3 DEF Crash, Start, Ping, RoutingInv
  <2>2. currentView' \in [Servers -> 0 .. Len(views)]
    BY <1>3, <2>1 DEF Crash, Start, Ping, RoutingInv
  <2> QED
    BY <2>1, <2>2 DEF RoutingInv
<1>4. CASE ViewServiceLink
  BY <1>4 DEF ViewServiceLink, RoutingInv
<1>5. ASSUME NEW c \in AllClients, Request(c) PROVE RoutingInv'
  <2>1. CASE NoServer(c) \/ NoConnection(c) \/ CheckFails(c)
    <3>1. views' = views /\ currentView' = currentView /\ Ends(c, "failed")
      BY <2>1 DEF NoServer, NoConnection, CheckFails
    <3> QED
      BY <3>1, EndsFacts DEF RoutingInv
  <2>2. CASE Query(c)
    <3> DEFINE n == client[c].view
    <3>1. n \in 0 .. Len(views) /\ views' = views
      BY <2>2 DEF RoutingInv, Query
    <3>2. PICK s \in Group(n) \cap alive :
            /\ currentView' = [currentView EXCEPT ![s] = Learns(s, n)]
            /\ Ends(c, IF Accepts(s, n) THEN "ok" ELSE "wrong")
      BY <2>2 DEF Query
    <3> HIDE DEF n
    <3>3. s \in Servers
      BY <3>1, GroupFacts
    <3>4. Learns(s, n) \in 0 .. Len(views)
      BY <3>1, <3>3, LearnsFacts
    <3>5. currentView' \in [Servers -> 0 .. Len(views)]
      BY <3>2, <3>4 DEF RoutingInv
    <3>6. client' \in [AllClients -> [pc : {"idle", "refresh"}, view : 0 .. Len(views),
                                      result : {"none", "ok", "wrong", "failed"}]]
      BY <3>2, EndsFacts
    <3> QED
      BY <3>1, <3>5, <3>6 DEF RoutingInv
  <2> QED
    BY <1>5, <2>1, <2>2 DEF Request
<1>6. ASSUME NEW c \in AllClients, getView(c) PROVE RoutingInv'
  <2> DEFINE n == IF reachable THEN Len(views) ELSE client[c].view
  <2>1. /\ views' = views /\ currentView' = currentView
        /\ client' = [client EXCEPT ![c].pc = "idle", ![c].view = n]
    BY <1>6 DEF getView
  <2>2. n \in 0 .. Len(views)
    BY DEF RoutingInv
  <2> HIDE DEF n
  <2>3. client' \in [AllClients -> [pc : {"idle", "refresh"}, view : 0 .. Len(views),
                                    result : {"none", "ok", "wrong", "failed"}]]
    BY <2>1, <2>2 DEF RoutingInv
  <2> QED
    BY <2>1, <2>3 DEF RoutingInv
<1> QED
  BY <1>1, <1>2, <1>3, <1>4, <1>5, <1>6 DEF Next

(***************************************************************************)
(* A request with the newest view, at a group that runs: every way to fail *)
(* is closed, and the server is at that view when it answers.              *)
(***************************************************************************)
LEMMA ServedStep ==
  ASSUME RoutingInv, NEW c \in AllClients, Healthy, client[c].view = Len(views), Request(c)
  PROVE  client'[c].result = "ok"
<1> DEFINE n == client[c].view
<1>1. n \in 0 .. Len(views) /\ n = Len(views) /\ reachable /\ Group(n) # {} /\ Group(n) \subseteq alive
  BY DEF RoutingInv, Healthy
<1>2. Query(c)
  BY <1>1 DEF Request, NoServer, NoConnection, CheckFails
<1>3. PICK s \in Group(n) \cap alive : Ends(c, IF Accepts(s, n) THEN "ok" ELSE "wrong")
  BY <1>2 DEF Query
<1> HIDE DEF n
<1>4. s \in Servers
  BY <1>1, GroupFacts
<1>5. Learns(s, n) = n
  BY <1>1, <1>4, LearnsFacts
<1>6. Accepts(s, n)
  BY <1>5 DEF Accepts
<1> QED
  BY <1>3, <1>6, EndsFacts

(***************************************************************************)
(* No server and no client is ever ahead of the view service.              *)
(***************************************************************************)
THEOREM RoutingCorrect == Spec => []RoutingInv
<1>1. Init => RoutingInv
  BY DEF Init, RoutingInv
<1>2. RoutingInv /\ [Next]_vars => RoutingInv'
  BY RoutingStep
<1> QED
  BY <1>1, <1>2, PTL DEF Spec

(***************************************************************************)
(* A put or get that is sent with the newest view succeeds as long as the  *)
(* key's group runs and the view service is in reach: a server that is     *)
(* behind catches up in checkServer before it answers.                     *)
(***************************************************************************)
THEOREM ServedCorrect == Spec => NewestViewServed
<1>1. RoutingInv /\ [Next]_vars =>
        [\A c \in AllClients :
           Healthy /\ client[c].view = Len(views) /\ Request(c) => client'[c].result = "ok"]_vars
  BY ServedStep
<1> QED
  BY <1>1, RoutingCorrect, PTL DEF Spec, NewestViewServed

-----------------------------------------------------------------------------
(* The blog.                                                               *)

(***************************************************************************)
(* What a request is about to put into the cache comes from the database,  *)
(* which has only grown since.                                             *)
(***************************************************************************)
BlogInv ==
  /\ posts \in [Users -> Nat]
  /\ cached \in [Users -> SUBSET Nat]
  /\ request \in [Users -> [pc : {"idle", "query", "put", "send"}, posts : Nat]]
  /\ \A u \in Users : /\ posts[u] >= 1
                      /\ request[u].pc = "put" => request[u].posts \in 1 .. posts[u]
                      /\ cached[u] \subseteq 1 .. posts[u]

(***************************************************************************)
(* The invariant of the blog is inductive.                                 *)
(***************************************************************************)
LEMMA BlogStep ==
  ASSUME BlogInv, [BlogNext]_blogVars
  PROVE  BlogInv'
<1>1. CASE UNCHANGED blogVars
  BY <1>1 DEF blogVars, BlogInv
<1>2. ASSUME NEW u \in Users, Hit(u) \/ Miss(u) \/ getPostsFromDB(u) \/ SQLException(u) \/ Send(u)
      PROVE  BlogInv'
  <2>1. /\ posts' = posts /\ cached' = cached
        /\ \E r \in [pc : {"idle", "query", "put", "send"}, posts : Nat] :
             /\ request' = [request EXCEPT ![u] = r]
             /\ r.pc = "put" => r.posts = posts[u]
    BY <1>2 DEF BlogInv, Hit, Miss, getPostsFromDB, SQLException, Send, Goes, Idle
  <2> QED
    BY <2>1 DEF BlogInv
<1>3. ASSUME NEW u \in Users, PutPosts(u) PROVE BlogInv'
  <2> DEFINE n == request[u].posts
             r == [pc |-> "send", posts |-> n]
  <2>1. /\ posts' = posts /\ n \in 1 .. posts[u] /\ n \in Nat
        /\ request' = [request EXCEPT ![u] = r]
        /\ cached' = cached \/ cached' = [cached EXCEPT ![u] = cached[u] \union {n}]
    BY <1>3 DEF BlogInv, PutPosts, Goes
  <2>2. r \in [pc : {"idle", "query", "put", "send"}, posts : Nat] /\ r.pc = "send"
    BY <2>1
  <2> HIDE DEF n, r
  <2>3. request' \in [Users -> [pc : {"idle", "query", "put", "send"}, posts : Nat]]
    BY <2>1, <2>2 DEF BlogInv
  <2>4. \A x \in Users : request'[x].pc = "put" => request'[x].posts \in 1 .. posts[x]
    BY <2>1, <2>2 DEF BlogInv
  <2>5. cached' \in [Users -> SUBSET Nat] /\ \A x \in Users : cached'[x] \subseteq 1 .. posts[x]
    BY <2>1 DEF BlogInv
  <2> QED
    BY <2>1, <2>3, <2>4, <2>5 DEF BlogInv
<1>4. ASSUME NEW u \in Users, AddPost(u) PROVE BlogInv'
  <2>1. posts' = [posts EXCEPT ![u] = posts[u] + 1] /\ cached' = cached /\ request' = request
    BY <1>4 DEF AddPost
  <2>2. posts' \in [Users -> Nat] /\ \A x \in Users : posts'[x] >= posts[x]
    BY <2>1 DEF BlogInv
  <2>3. \A x \in Users : 1 .. posts[x] \subseteq 1 .. posts'[x] /\ posts'[x] >= 1
    BY <2>2 DEF BlogInv
  <2> QED
    BY <2>1, <2>2, <2>3 DEF BlogInv
<1>5. ASSUME NEW u \in Users, CacheLoses(u) PROVE BlogInv'
  BY <1>5 DEF CacheLoses, BlogInv
<1> QED
  BY <1>1, <1>2, <1>3, <1>4, <1>5 DEF BlogNext, Handle, Work

(***************************************************************************)
(* Whatever HTTPServer puts into the cache was in the database: a failed   *)
(* query is never kept, however requests, posts and evictions interleave.  *)
(***************************************************************************)
THEOREM BlogCorrect == BlogSpec => []CachedFromDatabase
<1>1. BlogInit => BlogInv
  BY DEF BlogInit, Idle, BlogInv
<1>2. BlogInv /\ [BlogNext]_blogVars => BlogInv'
  BY BlogStep
<1>3. BlogInv => CachedFromDatabase
  BY DEF BlogInv, CachedFromDatabase
<1> QED
  BY <1>1, <1>2, <1>3, PTL DEF BlogSpec

-----------------------------------------------------------------------------
(* The hash of a key.                                                      *)

(***************************************************************************)
(* 16 bits, and 32 bits.                                                   *)
(***************************************************************************)
Halves == 0 .. Base - 1
Words == [hi : Halves, lo : Halves]

(***************************************************************************)
(* Division with a remainder is unique.                                    *)
(***************************************************************************)
LEMMA ModIs ==
  ASSUME NEW m \in Nat \ {0}, NEW k \in Int, NEW x \in 0 .. m - 1
  PROVE  (m * k + x) % m = x
<1> DEFINE a == m * k + x   q == a \div m   r == a % m
<1>1. a \in Int /\ a = m * k + x
  OBVIOUS
<1> HIDE DEF a
<1>2. q \in Int /\ r \in 0 .. m - 1 /\ a = m * q + r
  BY <1>1
<1> HIDE DEF q, r
<1>3. m * (k - q) = r - x
  BY <1>1, <1>2
<1>4. ~ (k - q >= 1) /\ ~ (k - q <= -1)
  BY <1>2, <1>3
<1>5. k = q
  BY <1>2, <1>4
<1>6. r = x
  BY <1>2, <1>3, <1>5
<1> QED
  BY <1>6 DEF r, a

(***************************************************************************)
(* A half is a number below 2^16.                                          *)
(***************************************************************************)
LEMMA InHalves == Base \in Nat \ {0} /\ \A n : n \in Halves <=> n \in Nat /\ n < Base
<1>1. Base \in Nat \ {0}
  BY DEF Base
<1> QED
  BY <1>1 DEF Halves

(***************************************************************************)
(* Halves are the remainders modulo 2^16.                                  *)
(***************************************************************************)
LEMMA HalfFacts ==
  ASSUME NEW n \in Nat
  PROVE  /\ n % Base \in Halves /\ n \div Base \in Nat
         /\ n = Base * (n \div Base) + (n % Base)
         /\ n \in Halves => n % Base = n /\ n \div Base = 0
<1> DEFINE B == Base
<1>1. B \in Nat \ {0}
  BY InHalves
<1> HIDE DEF B
<1>2. /\ n % B \in Nat /\ n % B < B /\ n \div B \in Nat
      /\ n = B * (n \div B) + (n % B)
  BY <1>1
<1>3. ASSUME n < B PROVE n % B = n /\ n \div B = 0
  <2>1. n = B * 0 + n /\ n \in 0 .. B - 1
    BY <1>1, <1>3
  <2>2. n % B = n
    BY <1>1, <2>1, ModIs
  <2> QED
    BY <1>1, <1>2, <2>2
<1> QED
  BY <1>2, <1>3, InHalves DEF B

(***************************************************************************)
(* One bit more of a number.                                               *)
(***************************************************************************)
LEMMA BitOfNumber ==
  ASSUME NEW a \in Nat, NEW p \in Nat \ {0}
  PROVE  (a % p) + p * ((a \div p)  % 2) = a % (2 * p)
<1> DEFINE q == a \div p  r == a % p  k == q \div 2  e == q % 2
<1>1. q \in Nat /\ r \in 0 .. p - 1 /\ a = p * q + r
  OBVIOUS
<1>2. k \in Nat /\ e \in 0 .. 1 /\ q = 2 * k + e
  BY <1>1
<1> HIDE DEF q, r, k, e
<1> DEFINE m == 2 * p   x == p * e + r
<1>3. a = m * k + x
  BY <1>1, <1>2
<1>4. x \in 0 .. m - 1 /\ m \in Nat \ {0} /\ k \in Int
  BY <1>1, <1>2
<1>5. x = r + p * e
  BY <1>1, <1>2
<1> HIDE DEF m, x
<1>6. a % m = x
  BY <1>3, <1>4, ModIs
<1> QED
  BY <1>5, <1>6 DEF q, r, e, m

(***************************************************************************)
(* The weights of the bits of a half.                                      *)
(***************************************************************************)
LEMMA Powers ==
  ASSUME NEW i \in 0 .. 15
  PROVE  2 ^ (i + 1) = 2 * 2 ^ i /\ 2 ^ i \in Nat \ {0}
<1> DEFINE Q(j) == 2 ^ (j + 1) = 2 * 2 ^ j /\ 2 ^ j \in Nat \ {0}
<1>1. /\ Q(0) /\ Q(1) /\ Q(2) /\ Q(3) /\ Q(4) /\ Q(5) /\ Q(6) /\ Q(7) /\ Q(8) /\ Q(9) /\ Q(10)
      /\ Q(11) /\ Q(12) /\ Q(13) /\ Q(14) /\ Q(15)
  OBVIOUS
<1>2. \/ i = 0 \/ i = 1 \/ i = 2 \/ i = 3 \/ i = 4 \/ i = 5 \/ i = 6 \/ i = 7 \/ i = 8
      \/ i = 9 \/ i = 10 \/ i = 11 \/ i = 12 \/ i = 13 \/ i = 14 \/ i = 15
  OBVIOUS
<1>3. Q(i)
  <2> HIDE DEF Q
  <2> QED
    BY <1>1, <1>2
<1> QED
  BY <1>3

(***************************************************************************)
(* A bit more of the exclusive or, and of a number when the other is 0.    *)
(***************************************************************************)
LEMMA NextBit ==
  ASSUME NEW a \in Nat, NEW b \in Nat, NEW p \in Nat \ {0}, NEW s \in 0 .. p - 1
  PROVE  LET t == s + p * (((a \div p) + (b \div p)) % 2)
         IN  /\ t \in 0 .. 2 * p - 1
             /\ b = 0 /\ s = a % p => t = a % (2 * p)
<1> DEFINE q == a \div p
           e == (q + (b \div p)) % 2
           t == s + p * e
<1>1. q \in Nat /\ b \div p \in Nat /\ (b = 0 => b \div p = 0)
  OBVIOUS
<1>2. e \in 0 .. 1 /\ (b = 0 => e = q % 2)
  <2> HIDE DEF q
  <2> QED
    BY <1>1
<1>3. b = 0 /\ s = a % p => t = a % (2 * p)
  <2>1. ASSUME b = 0, s = a % p PROVE t = a % (2 * p)
    <3>1. t = (a % p) + p * (q % 2)
      <4> HIDE DEF q, e
      <4> QED
        BY <1>2, <2>1
    <3> QED
      BY <3>1, BitOfNumber
  <2> QED
    BY <2>1
<1>4. t \in 0 .. 2 * p - 1
  <2> HIDE DEF e
  <2> QED
    BY <1>2
<1> QED
  BY <1>3, <1>4

(***************************************************************************)
(* Where two halves differ in a bit it counts with its weight.             *)
(***************************************************************************)
LEMMA BitFacts ==
  ASSUME NEW a \in Halves, NEW b \in Halves, NEW i \in 0 .. 15
  PROVE  Bit(a, b, i) \in Nat
<1> DEFINE p == 2 ^ i
<1>1. p \in Nat \ {0}
  BY Powers
<1> HIDE DEF p
<1>2. a \div p \in Int /\ b \div p \in Int
  BY <1>1, InHalves
<1>3. ((a \div p) + (b \div p)) % 2 \in 0 .. 1
  BY <1>2
<1>4. p * (((a \div p) + (b \div p)) % 2) \in Nat
  BY <1>1, <1>3
<1> QED
  BY <1>4 DEF Bit, p

(***************************************************************************)
(* The sum of the first n bits.                                            *)
(***************************************************************************)
FirstBits(a, b, n) == SumFunction([i \in 0 .. n - 1 |-> Bit(a, b, i)])

(***************************************************************************)
(* The sum grows bit by bit.                                               *)
(***************************************************************************)
LEMMA FirstBitsNext ==
  ASSUME NEW a \in Halves, NEW b \in Halves, NEW n \in 0 .. 15
  PROVE  FirstBits(a, b, n + 1) = FirstBits(a, b, n) + Bit(a, b, n)
<1> DEFINE D == 0 .. (n + 1) - 1
           f == [i \in D |-> Bit(a, b, i)]
           E == 0 .. n - 1
           g == [i \in E |-> Bit(a, b, i)]
<1>1. IsFiniteSet(D) /\ IsFiniteSet(E)
  BY FS_Interval
<1>2. \A i \in D : i \in 0 .. 15
  OBVIOUS
<1>3. n \in D /\ D \ {n} = E /\ E \subseteq D
  OBVIOUS
<1>4. \A i \in D : Bit(a, b, i) \in Nat
  BY <1>2, BitFacts, Zenon
<1> HIDE DEF D, E
<1>5. f \in [D -> Nat] /\ f[n] = Bit(a, b, n)
  BY <1>3, <1>4, Zenon
<1>6. [i \in D \ {n} |-> f[i]] = g /\ g \in [E -> Nat]
  BY <1>3, <1>4
<1> HIDE DEF f, g
<1>7. SumFunction(f) \in Nat /\ SumFunction(g) \in Nat /\ Bit(a, b, n) \in Nat
  BY <1>1, <1>3, <1>4, <1>5, <1>6, SumType, Zenon
<1>8. SumFunction(f) = Bit(a, b, n) + SumFunction(g)
  <2>1. SumFunction(f) = f[n] + SumFunction([i \in D \ {n} |-> f[i]])
    BY <1>1, <1>3, <1>5, SumSplit, ZenonT(60)
  <2> QED
    BY <1>5, <1>6, <2>1, Zenon
<1>9. SumFunction(f) = SumFunction(g) + Bit(a, b, n)
  BY <1>7, <1>8
<1> QED
  BY <1>9 DEF FirstBits, f, g, D, E

(***************************************************************************)
(* The exclusive or of two halves is a half, and with 0 the other operand. *)
(***************************************************************************)
LEMMA XorFacts ==
  ASSUME NEW a \in Halves, NEW b \in Halves
  PROVE  Xor(a, b) \in Halves /\ (b = 0 => Xor(a, b) = a)
<1> DEFINE S(n) == FirstBits(a, b, n)
           Good(n) == S(n) \in 0 .. 2 ^ n - 1 /\ (b = 0 => S(n) = a % (2 ^ n))
           T == {n \in 0 .. 16 : Good(n)}
<1>1. S(0) = 0
  <2> DEFINE f == [i \in 0 .. 0 - 1 |-> Bit(a, b, i)]
  <2>1. f \in [{} -> Nat] /\ IsFiniteSet({})
    BY FS_EmptySet
  <2> HIDE DEF f
  <2>2. SumFunction(f) = 0
    BY <2>1, SumType
  <2> QED
    BY <2>2 DEF f, FirstBits
<1>2. Good(0)
  <2> HIDE DEF S
  <2>1. 2 ^ 0 = 1 /\ a % 1 = 0
    BY InHalves
  <2> QED
    BY <1>1, <2>1
<1>3. ASSUME NEW n \in 0 .. 15, Good(n) PROVE Good(n + 1)
  <2> DEFINE p == 2 ^ n
             r == 2 ^ (n + 1)
             s == S(n)
             u == S(n + 1)
  <2>1. p \in Nat \ {0} /\ r = 2 * p
    BY Powers
  <2>2. s \in 0 .. p - 1 /\ (b = 0 => s = a % p)
    BY <1>3
  <2>3. u = s + p * (((a \div p) + (b \div p)) % 2)
    BY FirstBitsNext DEF Bit
  <2> HIDE DEF p, r, s, u
  <2>4. a \in Nat /\ b \in Nat
    BY InHalves
  <2>5. u \in 0 .. 2 * p - 1 /\ (b = 0 => u = a % (2 * p))
    BY <2>1, <2>2, <2>3, <2>4, NextBit
  <2>6. u \in 0 .. r - 1 /\ (b = 0 => u = a % r)
    BY <2>1, <2>5
  <2> QED
    BY <2>6 DEF r, u
<1>4. 16 \in T
  <2> HIDE DEF Good
  <2>1. 0 \in T /\ \A n \in 0 .. 16 - 1 : n \in T => n + 1 \in T
    BY <1>2, <1>3
  <2> HIDE DEF T
  <2>2. 0 .. 16 \subseteq T
    BY <2>1, CountTo
  <2> QED
    BY <2>2
<1>5. Good(16)
  BY <1>4
<1>6. Xor(a, b) = S(16)
  BY DEF Xor, FirstBits
<1> HIDE DEF S
<1>7. 2 ^ 16 = Base
  BY DEF Base
<1>8. S(16) \in 0 .. Base - 1 /\ (b = 0 => S(16) = a % Base)
  BY <1>5, <1>7
<1>9. a % Base = a
  BY InHalves, HalfFacts
<1> QED
  BY <1>6, <1>8, <1>9 DEF Halves

(***************************************************************************)
(* Every word with carries is a word of two halves.                        *)
(***************************************************************************)
LEMMA WordFacts ==
  ASSUME NEW h \in Nat, NEW l \in Nat
  PROVE  /\ Word(h, l) \in Words
         /\ h \in Halves /\ l \in Halves => Word(h, l) = [hi |-> h, lo |-> l]
<1> DEFINE a == (h + (l \div Base)) % Base
           b == l % Base
<1>1. a \in Halves /\ b \in Halves
  <2>1. l \div Base \in Nat /\ b \in Halves
    BY HalfFacts
  <2>2. h + (l \div Base) \in Nat
    BY <2>1
  <2> QED
    BY <2>1, <2>2, HalfFacts
<1>2. h \in Halves /\ l \in Halves => a = h /\ b = l
  <2>1. l \in Halves => l \div Base = 0 /\ b = l
    BY HalfFacts
  <2>2. h \in Halves => h % Base = h
    BY HalfFacts
  <2>3. h + 0 = h
    OBVIOUS
  <2> QED
    BY <2>1, <2>2, <2>3
<1>3. Word(h, l) = [hi |-> a, lo |-> b]
  BY DEF Word
<1> HIDE DEF a, b
<1> QED
  BY <1>1, <1>2, <1>3 DEF Words

(***************************************************************************)
(* The carries may be taken before or after an addition.                   *)
(***************************************************************************)
LEMMA PlusFacts ==
  ASSUME NEW h1 \in Nat, NEW l1 \in Nat, NEW h2 \in Nat, NEW l2 \in Nat
  PROVE  Plus(Word(h1, l1), Word(h2, l2)) = Word(h1 + h2, l1 + l2)
<1> DEFINE q1 == l1 \div Base   r1 == l1 % Base
           q2 == l2 \div Base   r2 == l2 % Base
           c == (r1 + r2) \div Base
<1>1. q1 \in Nat /\ r1 \in Nat /\ l1 = Base * q1 + r1
  BY HalfFacts, InHalves
<1>2. q2 \in Nat /\ r2 \in Nat /\ l2 = Base * q2 + r2
  BY HalfFacts, InHalves
<1> HIDE DEF q1, r1, q2, r2
<1>3. c \in Nat
  <2>1. r1 + r2 \in Nat
    BY <1>1, <1>2
  <2> QED
    BY <2>1, HalfFacts
<1>4. (r1 + r2) % Base = (l1 + l2) % Base /\ q1 + q2 + c = (l1 + l2) \div Base
  BY <1>1, <1>2 DEF Base
<1> HIDE DEF c
<1>5. (((h1 + q1) % Base) + ((h2 + q2) % Base) + c) % Base = (h1 + h2 + (q1 + q2 + c)) % Base
  BY <1>1, <1>2, <1>3 DEF Base
<1>6. /\ Word(h1, l1) = [hi |-> (h1 + q1) % Base, lo |-> r1]
      /\ Word(h2, l2) = [hi |-> (h2 + q2) % Base, lo |-> r2]
  BY DEF Word, q1, q2, r1, r2
<1>7. Plus(Word(h1, l1), Word(h2, l2)) = Word(((h1 + q1) % Base) + ((h2 + q2) % Base), r1 + r2)
  <2> DEFINE a == (h1 + q1) % Base   b == (h2 + q2) % Base
             x == Word(h1, l1)   y == Word(h2, l2)
  <2>1. x = [hi |-> a, lo |-> r1] /\ y = [hi |-> b, lo |-> r2]
    BY <1>6
  <2> HIDE DEF a, b, x, y
  <2>2. x.hi = a /\ x.lo = r1 /\ y.hi = b /\ y.lo = r2
    BY <2>1
  <2>3. Plus(x, y) = Word(a + b, r1 + r2)
    BY <2>2, Zenon DEF Plus
  <2> QED
    BY <2>3 DEF a, b, x, y
<1>8. @ = [hi |-> (((h1 + q1) % Base) + ((h2 + q2) % Base) + c) % Base, lo |-> (r1 + r2) % Base]
  BY DEF Word, c
<1>9. Word(h1 + h2, l1 + l2) = [hi |-> (h1 + h2 + (q1 + q2 + c)) % Base, lo |-> (r1 + r2) % Base]
  BY <1>4 DEF Word
<1> QED
  BY <1>5, <1>7, <1>8, <1>9

(***************************************************************************)
(* Shifts and their sum, with the carries taken once.                      *)
(***************************************************************************)
LEMMA MixFacts ==
  ASSUME NEW x \in Words
  PROVE  /\ Shifts(x) \in Words /\ Mix(x) \in Words
         /\ Mix(x) = Word(x.hi * 403 + x.lo * 256, x.lo * 403)
<1> DEFINE h == x.hi   l == x.lo
<1>1. h \in Nat /\ l \in Nat /\ h \in Halves /\ l \in Halves /\ x = [hi |-> h, lo |-> l]
  <2>1. h \in Halves /\ l \in Halves /\ x = [hi |-> h, lo |-> l]
    BY DEF Words
  <2> HIDE DEF h, l
  <2> QED
    BY <2>1, InHalves
<1>2. x = Word(h, l)
  BY <1>1, WordFacts
<1>3. 2 ^ 1 = 2 /\ 2 ^ 4 = 16 /\ 2 ^ 7 = 128 /\ 2 ^ 8 = 256
  OBVIOUS
<1>4. /\ Shift(x, 1) = Word(h * 2, l * 2) /\ Shift(x, 4) = Word(h * 16, l * 16)
      /\ Shift(x, 7) = Word(h * 128, l * 128) /\ Shift(x, 8) = Word(h * 256, l * 256)
      /\ Shift(x, 24) = Word(l * 256, 0)
  BY <1>3 DEF Shift
<1> HIDE DEF h, l
<1>5. Plus(Shift(x, 1), Shift(x, 4)) = Word(h * 2 + h * 16, l * 2 + l * 16)
  BY <1>1, <1>4, PlusFacts
<1>6. Plus(Shift(x, 7), Shift(x, 8)) = Word(h * 128 + h * 256, l * 128 + l * 256)
  BY <1>1, <1>4, PlusFacts
<1>7. Plus(Plus(Shift(x, 1), Shift(x, 4)), Plus(Shift(x, 7), Shift(x, 8))) = Word(h * 402, l * 402)
  <2>1. h * 2 + h * 16 + (h * 128 + h * 256) = h * 402 /\ l * 2 + l * 16 + (l * 128 + l * 256) = l * 402
    BY <1>1
  <2> QED
    BY <1>1, <1>5, <1>6, <2>1, PlusFacts
<1>8. Shifts(x) = Word(l * 256 + h * 402, l * 402)
  BY <1>1, <1>4, <1>7, PlusFacts DEF Shifts
<1>9. Mix(x) = Word(h * 403 + l * 256, l * 403)
  <2>1. h + (l * 256 + h * 402) = h * 403 + l * 256 /\ l + l * 402 = l * 403
    BY <1>1
  <2> QED
    BY <1>1, <1>2, <1>8, <2>1, PlusFacts DEF Mix
<1>10. /\ l * 256 + h * 402 \in Nat /\ l * 402 \in Nat
       /\ h * 403 + l * 256 \in Nat /\ l * 403 \in Nat
  BY <1>1
<1>11. Shifts(x) \in Words /\ Mix(x) \in Words
  BY <1>8, <1>9, <1>10, WordFacts
<1> QED
  BY <1>9, <1>11 DEF h, l

(***************************************************************************)
(* The invariant: the result in C++ is a word of 32 bits; and while only   *)
(* ASCII characters came, Java has the same and Python the same below its  *)
(* overflow.                                                               *)
(***************************************************************************)
Ascii(k) == \A i \in 1 .. Len(k) : k[i] < 128

HashInv ==
  /\ key \in Seq(Chars)
  /\ cpp \in Words
  /\ Ascii(key) => /\ java = cpp
                   /\ python \in [top : Int, hi : Halves, lo : Halves]
                   /\ python.hi = cpp.hi /\ python.lo = cpp.lo

(***************************************************************************)
(* A byte changes the word in C++ into a word.                             *)
(***************************************************************************)
LEMMA StepFacts ==
  ASSUME NEW x \in Words, NEW b \in Nat, b < 256
  PROVE  /\ ir_hash(x, b) \in Words
         /\ b < 128 => /\ Xor2(x, SignedChar(b)) = [hi |-> x.hi, lo |-> Xor(x.lo, b)]
                       /\ Xor(x.lo, b) \in Halves
                       /\ hashJava(x, b) = ir_hash(x, b)
<1> DEFINE c == SignedChar(b)
           h == Xor(x.hi, c.hi)
           l == Xor(x.lo, c.lo)
<1>1. /\ 0 \in Nat /\ b \in Nat /\ Base - 1 \in Nat /\ Base - 256 + b \in Nat
      /\ 0 \in Halves /\ b \in Halves
  <2>1. b < Base /\ 0 < Base /\ Base - 1 \in Nat /\ Base - 256 + b \in Nat
    BY DEF Base
  <2> QED
    BY <2>1, InHalves
<1>2. c \in Words /\ (b < 128 => c = Word(0, b) /\ c.hi = 0 /\ c.lo = b)
  <2>1. Word(0, b) \in Words /\ Word(Base - 1, Base - 256 + b) \in Words
    BY <1>1, WordFacts
  <2>2. Word(0, b) = [hi |-> 0, lo |-> b]
    BY <1>1, WordFacts
  <2> QED
    BY <2>1, <2>2 DEF SignedChar
<1> HIDE DEF c
<1>3. x.hi \in Halves /\ x.lo \in Halves /\ c.hi \in Halves /\ c.lo \in Halves
  BY <1>2 DEF Words
<1>4. h \in Halves /\ l \in Halves /\ (c.hi = 0 => h = x.hi)
  BY <1>3, XorFacts
<1>5. Xor2(x, c) = Word(h, l)
  BY DEF Xor2
<1> HIDE DEF h, l
<1>6. h \in Nat /\ l \in Nat
  BY <1>4, InHalves
<1>7. Xor2(x, c) \in Words /\ Xor2(x, c) = [hi |-> h, lo |-> l]
  BY <1>4, <1>5, <1>6, WordFacts
<1>8. Mix(Xor2(x, c)) \in Words
  BY <1>7, MixFacts
<1>9. ASSUME b < 128
      PROVE  Xor2(x, c) = [hi |-> x.hi, lo |-> Xor(x.lo, b)] /\ Xor(x.lo, b) \in Halves
  BY <1>2, <1>4, <1>7, <1>9 DEF l
<1> QED
  BY <1>2, <1>8, <1>9 DEF ir_hash, hashJava, c

(***************************************************************************)
(* For an ASCII character Python computes the same halves as C++.          *)
(***************************************************************************)
LEMMA PythonFacts ==
  ASSUME NEW p \in [top : Int, hi : Halves, lo : Halves], NEW x \in Words,
         p.hi = x.hi, p.lo = x.lo, NEW b \in Nat, b < 128
  PROVE  /\ pythonStep(p, b) \in [top : Int, hi : Halves, lo : Halves]
         /\ pythonStep(p, b).hi = ir_hash(x, b).hi /\ pythonStep(p, b).lo = ir_hash(x, b).lo
<1> DEFINE l == Xor(x.lo, b)
           r == [p EXCEPT !.lo = Xor(p.lo, b)]
           w == [hi |-> x.hi, lo |-> l]
           sum == Shifts(Word(r.hi, r.lo))
           t == r.top + ((r.hi + sum.hi + ((r.lo + sum.lo) \div Base)) \div Base)
<1>1. b < 256
  OBVIOUS
<1>2. /\ Xor2(x, SignedChar(b)) = w /\ l \in Halves
      /\ ir_hash(x, b) = Mix(w) /\ ir_hash(x, b) \in Words
  BY <1>1, StepFacts DEF ir_hash
<1> HIDE DEF l
<1>3. r.top = p.top /\ r.hi = x.hi /\ r.lo = l /\ p.top \in Int /\ x.hi \in Halves
  BY DEF l, Words
<1> HIDE DEF r
<1>4. x.hi \in Nat /\ l \in Nat
  BY <1>2, <1>3, InHalves
<1>5. Word(r.hi, r.lo) = w
  BY <1>2, <1>3, <1>4, WordFacts
<1>6. w \in Words
  BY <1>2, <1>3 DEF Words
<1>7. sum = Shifts(w) /\ sum \in Words
  BY <1>5, <1>6, MixFacts
<1> HIDE DEF sum
<1>8. sum.hi \in Nat /\ sum.lo \in Nat
  <2>1. sum.hi \in Halves /\ sum.lo \in Halves
    BY <1>7 DEF Words
  <2> QED
    BY <2>1, InHalves
<1>9. Plus(r, sum) = Mix(w)
  BY <1>3, <1>7 DEF Mix, Plus
<1>10. t \in Int
  <2>1. r.hi \in Nat /\ r.lo \in Nat /\ r.top \in Int
    BY <1>3, <1>4
  <2> DEFINE a == r.hi + sum.hi + ((r.lo + sum.lo) \div Base)
  <2>2. a \in Int
    BY <1>8, <2>1 DEF Base
  <2> HIDE DEF a
  <2>3. r.top + (a \div Base) \in Int
    BY <2>1, <2>2 DEF Base
  <2> QED
    BY <2>3 DEF a
<1>11. pythonStep(p, b) = [top |-> t, hi |-> Plus(r, sum).hi, lo |-> Plus(r, sum).lo]
  BY DEF pythonStep, r, sum
<1> HIDE DEF t
<1>12. Mix(w).hi \in Halves /\ Mix(w).lo \in Halves
  BY <1>2 DEF Words
<1> QED
  BY <1>2, <1>9, <1>10, <1>11, <1>12

(***************************************************************************)
(* A key of ASCII characters was one before its last character.            *)
(***************************************************************************)
LEMMA AsciiAppend ==
  ASSUME NEW k \in Seq(Chars), NEW c \in Chars, Ascii(Append(k, c))
  PROVE  Ascii(k) /\ c < 128
<1> DEFINE a == Append(k, c)
<1>1. Len(a) = Len(k) + 1 /\ Len(k) \in Nat /\ a[Len(a)] = c /\ \A i \in 1 .. Len(k) : a[i] = k[i]
  OBVIOUS
<1>2. \A i \in 1 .. Len(a) : a[i] < 128
  BY DEF Ascii
<1> HIDE DEF a
<1>3. Len(a) \in 1 .. Len(a) /\ \A i \in 1 .. Len(k) : i \in 1 .. Len(a)
  BY <1>1
<1> QED
  BY <1>1, <1>2, <1>3 DEF Ascii

(***************************************************************************)
(* The invariant is inductive.                                             *)
(***************************************************************************)
LEMMA HashStep ==
  ASSUME HashInv, [HashNext]_hashVars
  PROVE  HashInv'
<1>1. CASE UNCHANGED hashVars
  BY <1>1 DEF hashVars, HashInv, Ascii
<1>2. ASSUME NEW c \in Chars, HashChar(c) PROVE HashInv'
  <2>1. c \in Nat /\ c <= 2047
    <3> DEFINE last == 2047
    <3>1. last \in Nat
      OBVIOUS
    <3>2. Chars \subseteq 0 .. last
      BY HashAssumption
    <3> HIDE DEF last
    <3>3. c \in Nat /\ c <= last
      BY <3>1, <3>2
    <3> QED
      BY <3>3 DEF last
  <2>2. /\ key' = Append(key, c)
        /\ cpp' = EachByte(ir_hash, cpp, Utf8(c))
        /\ java' = hashJava(java, c)
        /\ python' = EachByte(pythonStep, python, Utf8(c))
    BY <1>2 DEF HashChar
  <2>3. CASE c < 128
    <3>1. Utf8(c) = <<c>> /\ c < 256
      <4>1. Utf8(c) = <<c>>
        BY <2>3, Zenon DEF Utf8
      <4>2. c < 256
        BY <2>1, <2>3
      <4> QED
        BY <4>1, <4>2
    <3>2. cpp' = ir_hash(cpp, c) /\ python' = pythonStep(python, c)
      BY <2>2, <3>1 DEF EachByte
    <3>3. cpp' \in Words /\ hashJava(cpp, c) = ir_hash(cpp, c)
      BY <2>1, <2>3, <3>1, <3>2, StepFacts DEF HashInv
    <3>4. ASSUME Ascii(key)
          PROVE  /\ java' = cpp'
                 /\ python' \in [top : Int, hi : Halves, lo : Halves]
                 /\ python'.hi = cpp'.hi /\ python'.lo = cpp'.lo
      <4>1. /\ java = cpp /\ cpp \in Words
            /\ python \in [top : Int, hi : Halves, lo : Halves]
            /\ python.hi = cpp.hi /\ python.lo = cpp.lo
        BY <3>4, Zenon DEF HashInv
      <4>2. java' = cpp'
        BY <2>2, <3>2, <3>3, <4>1, Zenon
      <4>3. /\ pythonStep(python, c) \in [top : Int, hi : Halves, lo : Halves]
            /\ pythonStep(python, c).hi = ir_hash(cpp, c).hi
            /\ pythonStep(python, c).lo = ir_hash(cpp, c).lo
        BY <2>1, <2>3, <4>1, PythonFacts
      <4> QED
        BY <3>2, <4>2, <4>3, Zenon
    <3>5. Ascii(key') => Ascii(key)
      <4>1. key \in Seq(Chars)
        BY DEF HashInv
      <4> QED
        BY <2>2, <4>1, AsciiAppend
    <3>6. key' \in Seq(Chars)
      BY <2>2 DEF HashInv
    <3> QED
      BY <3>3, <3>4, <3>5, <3>6 DEF HashInv, Ascii
  <2>4. CASE ~ (c < 128)
    <3> DEFINE a == 192 + (c \div 64)   b == 128 + (c % 64)
    <3>1. Utf8(c) = <<a, b>>
      BY <2>4, Zenon DEF Utf8
    <3>2. a \in Nat /\ a < 256 /\ b \in Nat /\ b < 256
      BY <2>1
    <3> HIDE DEF a, b
    <3>3. cpp' = ir_hash(ir_hash(cpp, a), b)
      BY <2>2, <3>1 DEF EachByte
    <3>4. cpp' \in Words
      BY <3>2, <3>3, StepFacts DEF HashInv
    <3>5. ~ Ascii(key')
      <4>1. key \in Seq(Chars)
        BY DEF HashInv
      <4> QED
        BY <2>2, <2>4, <4>1, AsciiAppend
    <3>6. key' \in Seq(Chars)
      BY <2>2 DEF HashInv
    <3> QED
      BY <3>4, <3>5, <3>6 DEF HashInv, Ascii
  <2> QED
    BY <2>3, <2>4
<1> QED
  BY <1>1, <1>2 DEF HashNext

(***************************************************************************)
(* The invariant holds of every key of any length and any characters.      *)
(***************************************************************************)
LEMMA HashInvariant == HashSpec => []HashInv
<1>1. HashInit => HashInv
  <2> SUFFICES ASSUME HashInit PROVE HashInv
    OBVIOUS
  <2>1. 0 \in Halves /\ 0 \in Nat
    BY InHalves
  <2>2. Zero = [hi |-> 0, lo |-> 0] /\ Zero \in Words
    BY <2>1, WordFacts DEF Zero
  <2> QED
    BY <2>1, <2>2 DEF HashInit, HashInv
<1>2. HashInv /\ [HashNext]_hashVars => HashInv'
  BY HashStep
<1> QED
  BY <1>1, <1>2, PTL DEF HashSpec

(***************************************************************************)
(* ir_hash, hash of ConsistentHashing.java and the loop of client.py give  *)
(* the same 32 bits for every key of ASCII characters, of any length.      *)
(***************************************************************************)
THEOREM AsciiCorrect == HashSpec => []AsciiHashAlike
<1>1. HashInv => AsciiHashAlike
  <2> SUFFICES ASSUME HashInv, Ascii(key) PROVE HashAlike
    BY DEF AsciiHashAlike, Ascii
  <2>1. cpp.hi \in Halves /\ cpp.lo \in Halves /\ cpp = [hi |-> cpp.hi, lo |-> cpp.lo]
    BY DEF HashInv, Words
  <2>2. cpp = Word(cpp.hi, cpp.lo)
    BY <2>1, InHalves, WordFacts
  <2>3. java = cpp /\ Cut(python) = Word(cpp.hi, cpp.lo)
    BY DEF HashInv, Cut
  <2> QED
    BY <2>2, <2>3 DEF HashAlike
<1> QED
  BY <1>1, HashInvariant, PTL

(***************************************************************************)
(* The shifts and additions of the hash multiply by the FNV prime modulo   *)
(* 2^32, whatever the key.                                                 *)
(***************************************************************************)
THEOREM MixCorrect == HashSpec => []MixIsFNV
<1>1. HashInv => MixIsFNV
  BY MixFacts DEF HashInv, MixIsFNV
<1> QED
  BY <1>1, HashInvariant, PTL
=============================================================================
