-------------------------------- MODULE Blog --------------------------------
(***************************************************************************)
(* The blog (SimpleBlog/src/HTTPServer.java): pages come from the cache,   *)
(* and from the database when the cache has nothing or does not answer;    *)
(* what the database gives is put into the cache.  The HTTP server has no  *)
(* executor and handles one request at a time.                             *)
(*                                                                         *)
(* The posts of a user are represented by their number.  The cache is      *)
(* external: of each user it holds copies, different ones at different     *)
(* replicas, and may lose any of them; a call may fail.  Posts are added   *)
(* to the database by other programs.                                      *)
(***************************************************************************)
EXTENDS Integers

CONSTANTS
  Users,
  MaxPosts      \* bound: posts of a user

ASSUME BlogAssumption == MaxPosts \in Nat \ {0}

VARIABLES
  posts,        \* the database
  cached,       \* cached[u]: the copies the replicas have
  request,      \* the request under way: its user and where it is
  page          \* page[u]: posts on the last page sent

blogVars == <<posts, cached, request, page>>

Idle == [pc |-> "idle", posts |-> 0]

BlogInit ==
  /\ posts = [u \in Users |-> 1]
  /\ cached = [u \in Users |-> {}]
  /\ request = [u \in Users |-> Idle]
  /\ page = [u \in Users |-> 0]

Free == \A u \in Users : request[u] = Idle

(***************************************************************************)
(* The request of u goes on at pc with n posts.                            *)
(***************************************************************************)
Goes(u, pc, n) == request' = [request EXCEPT ![u] = [pc |-> pc, posts |-> n]]

(***************************************************************************)
(* getPosts: a copy is found and sent as it is; or client.get throws.      *)
(***************************************************************************)
Hit(u) ==
  /\ Free
  /\ \E n \in cached[u] : Goes(u, "send", n)
  /\ UNCHANGED <<posts, cached, page>>

Miss(u) ==
  /\ Free
  /\ Goes(u, "query", 0)
  /\ UNCHANGED <<posts, cached, page>>

\* Mutant: the answer of the database is read as empty.
getPostsFromDBEmpty(u) ==
  /\ request[u].pc = "query"
  /\ Goes(u, "send", 0)
  /\ UNCHANGED <<posts, cached, page>>

getPostsFromDB(u) ==
  /\ request[u].pc = "query"
  /\ Goes(u, "put", posts[u])
  /\ UNCHANGED <<posts, cached, page>>

\* Mutant: the empty list that stands for a failed query is cached.
SQLExceptionCached(u) ==
  /\ request[u].pc = "query"
  /\ Goes(u, "put", 0)
  /\ UNCHANGED <<posts, cached, page>>

SQLException(u) ==
  /\ request[u].pc = "query"
  /\ Goes(u, "send", 0)
  /\ UNCHANGED <<posts, cached, page>>

(***************************************************************************)
(* client.put reaches a replica or throws; the page is sent in both cases. *)
(***************************************************************************)
PutPosts(u) ==
  /\ request[u].pc = "put"
  /\ Goes(u, "send", request[u].posts)
  /\ cached' \in {cached, [cached EXCEPT ![u] = @ \union {request[u].posts}]}
  /\ UNCHANGED <<posts, page>>

Send(u) ==
  /\ request[u].pc = "send"
  /\ page' = [page EXCEPT ![u] = request[u].posts]
  /\ request' = [request EXCEPT ![u] = Idle]
  /\ UNCHANGED <<posts, cached>>

-----------------------------------------------------------------------------
AddPost(u) ==
  /\ posts[u] < MaxPosts
  /\ posts' = [posts EXCEPT ![u] = @ + 1]
  /\ UNCHANGED <<cached, request, page>>

(***************************************************************************)
(* A replica evicts, invalidates or overwrites a copy, or crashes.         *)
(***************************************************************************)
CacheLoses(u) ==
  /\ \E n \in cached[u] : cached' = [cached EXCEPT ![u] = @ \ {n}]
  /\ UNCHANGED <<posts, request, page>>

Handle(u) == Hit(u) \/ Miss(u)
Work(u) == getPostsFromDB(u) \/ SQLException(u) \/ PutPosts(u) \/ Send(u)

BlogNext == \E u \in Users : Handle(u) \/ Work(u) \/ AddPost(u) \/ CacheLoses(u)

BlogSpec == BlogInit /\ [][BlogNext]_blogVars

(***************************************************************************)
(* A request under way goes on, visitors of each user keep coming, and the *)
(* database answers in the end when it is asked again and again.           *)
(***************************************************************************)
BlogFairSpec ==
  /\ BlogSpec
  /\ \A u \in Users : SF_blogVars(Handle(u)) /\ WF_blogVars(Work(u)) /\ SF_blogVars(getPostsFromDB(u))

-----------------------------------------------------------------------------
(* Properties.                                                             *)

(***************************************************************************)
(* What is cached for a user was in the database at some time: the empty   *)
(* list that a failed query yields is shown once but never kept.           *)
(***************************************************************************)
CachedFromDatabase == \A u \in Users : \A n \in cached[u] : 1 <= n /\ n <= posts[u]

(***************************************************************************)
(* If the cache keeps losing a user's page, new posts appear, although an  *)
(* old page may be put after the post was added.                           *)
(***************************************************************************)
PostsAppearIfLost ==
  \A u \in Users : []<>(cached[u] = {}) => []<>(page[u] = posts[u])

(***************************************************************************)
(* report/blank.tex: "we are not too concerned if a viewer sees a new post *)
(* slightly later than another viewer".  A new post is seen some time.     *)
(***************************************************************************)
PostsAppear == \A u \in Users : []<>(page[u] = posts[u])
=============================================================================
