------------------------------ MODULE Induction ------------------------------
(***************************************************************************)
(* Induction principles the other proofs share, stated about sets, so that *)
(* a proof applies them to the set of counterexamples of what it shows.    *)
(***************************************************************************)
EXTENDS Integers, Functions, FiniteSetTheorems, WellFoundedInduction, TLAPS

(***************************************************************************)
(* A nonempty set of natural numbers has a least element.                  *)
(***************************************************************************)
LEMMA LeastNumber ==
  ASSUME NEW T \in SUBSET Nat, T # {}
  PROVE  \E x \in T : \A y \in T : x <= y
<1> DEFINE R == {ss \in Nat \X Nat : ss[1] < ss[2]}
<1>1. IsWellFoundedOn(R, Nat)
  BY NatLessThanWellFounded, Zenon DEF OpToRel
<1>2. PICK x \in T : \A y \in T : ~ (<<y, x>> \in R)
  BY <1>1, WFMin, Zenon
<1>3. ASSUME NEW y \in T PROVE x <= y
  <2>1. y < x => <<y, x>> \in R
    OBVIOUS
  <2> QED
    BY <1>2, <2>1
<1> QED
  BY <1>3

(***************************************************************************)
(* A set that has 0 and, with every number below n, the next one, has all  *)
(* the numbers up to n: the induction of a loop that counts to n.          *)
(***************************************************************************)
LEMMA CountTo ==
  ASSUME NEW n \in Nat, NEW T, 0 \in T, \A i \in 0 .. n - 1 : i \in T => i + 1 \in T
  PROVE  0 .. n \subseteq T
<1> DEFINE B == (0 .. n) \ T
<1>1. ASSUME B # {} PROVE FALSE
  <2>1. PICK x \in B : \A y \in B : x <= y
    <3>1. B \in SUBSET Nat
      OBVIOUS
    <3> HIDE DEF B
    <3> QED
      BY <1>1, <3>1, LeastNumber
  <2>2. x # 0 /\ x - 1 \in 0 .. n - 1 /\ x \notin T
    OBVIOUS
  <2>3. x - 1 \notin T
    BY <2>2
  <2>4. x - 1 \in B
    BY <2>2, <2>3
  <2> QED
    BY <2>1, <2>4
<1> QED
  BY <1>1

-----------------------------------------------------------------------------
(* Sums over finite sets: SumFunction of the community module Functions.   *)

(***************************************************************************)
(* What SumFunction(f) iterates: g[s] is the sum of f over s.              *)
(***************************************************************************)
Pick(s) == CHOOSE x \in s : TRUE

Summed(f, g, s) == IF s = {} THEN 0 ELSE f[Pick(s)] + g[s \ {Pick(s)}]

IsSum(f, g, S) ==
  /\ g \in [SUBSET S -> Nat]
  /\ \A s \in SUBSET S : g[s] = Summed(f, g, s)

(***************************************************************************)
(* Taking the picked element out of a finite set makes it smaller by one.  *)
(***************************************************************************)
LEMMA PickSmaller ==
  ASSUME NEW S, IsFiniteSet(S), NEW s \in SUBSET S, s # {}
  PROVE  /\ Pick(s) \in s /\ s \ {Pick(s)} \in SUBSET S
         /\ \A x \in s : /\ Cardinality(s) \in Nat /\ Cardinality(s \ {x}) \in Nat
                          /\ Cardinality(s) = Cardinality(s \ {x}) + 1
<1>1. Pick(s) \in s
  BY DEF Pick
<1>2. IsFiniteSet(s)
  BY FS_Subset
<1>3. ASSUME NEW x \in s
      PROVE  /\ Cardinality(s) \in Nat /\ Cardinality(s \ {x}) \in Nat
             /\ Cardinality(s) = Cardinality(s \ {x}) + 1
  <2>1. IsFiniteSet(s \ {x}) /\ Cardinality(s \ {x}) = Cardinality(s) - 1
    BY <1>2, FS_RemoveElement
  <2>2. Cardinality(s) \in Nat /\ Cardinality(s \ {x}) \in Nat
    BY <1>2, <2>1, FS_CardinalityType
  <2> QED
    BY <2>1, <2>2
<1> QED
  BY <1>1, <1>3

(***************************************************************************)
(* The function that SumFunction iterates exists.                          *)
(***************************************************************************)
LEMMA SumExists ==
  ASSUME NEW S, IsFiniteSet(S), NEW f \in [S -> Nat]
  PROVE  \E g : IsSum(f, g, S)
<1> DEFINE N == Cardinality(S)
           Upto(n) == {s \in SUBSET S : Cardinality(s) <= n}
           Good(n) == \E g \in [Upto(n) -> Nat] : \A s \in Upto(n) : g[s] = Summed(f, g, s)
<1>0. N \in Nat /\ \A s \in SUBSET S : Cardinality(s) \in Nat /\ Cardinality(s) <= N
  BY FS_Subset, FS_CardinalityType
<1> HIDE DEF N
<1>1. Good(0)
  <2>1. \A s \in Upto(0) : s = {}
    BY <1>0, FS_EmptySet, FS_Subset
  <2> DEFINE g == [s \in Upto(0) |-> 0]
  <2>2. g \in [Upto(0) -> Nat] /\ \A s \in Upto(0) : g[s] = Summed(f, g, s)
    BY <2>1 DEF Summed
  <2> QED
    BY <2>2
<1>2. ASSUME NEW n \in 0 .. N - 1, Good(n) PROVE Good(n + 1)
  <2>1. PICK g \in [Upto(n) -> Nat] : \A s \in Upto(n) : g[s] = Summed(f, g, s)
    BY <1>2
  <2> DEFINE h == [s \in Upto(n + 1) |-> Summed(f, g, s)]
  <2>2. ASSUME NEW s \in Upto(n + 1), s # {}
        PROVE  Pick(s) \in S /\ s \ {Pick(s)} \in Upto(n)
    <3>1. /\ Pick(s) \in s /\ s \ {Pick(s)} \in SUBSET S
          /\ Cardinality(s) \in Nat /\ Cardinality(s \ {Pick(s)}) \in Nat
          /\ Cardinality(s) = Cardinality(s \ {Pick(s)}) + 1
      BY <2>2, PickSmaller
    <3> QED
      BY <3>1
  <2>3. h \in [Upto(n + 1) -> Nat]
    BY <2>2 DEF Summed
  <2>4. \A s \in Upto(n) : s \in Upto(n + 1) /\ h[s] = g[s]
    BY <1>0, <2>1
  <2>5. ASSUME NEW s \in Upto(n + 1) PROVE h[s] = Summed(f, h, s)
    BY <2>2, <2>4 DEF Summed
  <2> QED
    BY <2>3, <2>5
<1>3. Good(N)
  <2> DEFINE T == {n \in 0 .. N : Good(n)}
  <2> HIDE DEF Good
  <2>1. 0 \in T /\ \A i \in 0 .. N - 1 : i \in T => i + 1 \in T
    BY <1>0, <1>1, <1>2
  <2>2. 0 .. N \subseteq T
    <3> HIDE DEF T
    <3> QED
      BY <1>0, <2>1, CountTo
  <2> QED
    BY <1>0, <2>2
<1>4. Upto(N) = SUBSET S
  BY <1>0
<1> QED
  BY <1>3, <1>4 DEF IsSum

(***************************************************************************)
(* A set of numbers that has the size of the empty subset and, with each   *)
(* size, the next one, has the sizes of all the subsets of a finite set.   *)
(***************************************************************************)
LEMMA SizeInduction ==
  ASSUME NEW S, IsFiniteSet(S), NEW T, 0 \in T,
         \A n \in Nat : n \in T => n + 1 \in T
  PROVE  \A s \in SUBSET S : Cardinality(s) \in T
<1> DEFINE N == Cardinality(S)
<1>1. N \in Nat /\ \A s \in SUBSET S : Cardinality(s) \in Nat /\ Cardinality(s) <= N
  BY FS_Subset, FS_CardinalityType
<1> HIDE DEF N
<1>2. 0 .. N \subseteq T
  BY <1>1, CountTo
<1> QED
  BY <1>1, <1>2

(***************************************************************************)
(* Two such functions agree on every subset on which they sum the same.    *)
(***************************************************************************)
LEMMA SumAgrees ==
  ASSUME NEW S, IsFiniteSet(S), NEW f, NEW g, NEW f2, NEW g2,
         \A s \in SUBSET S : g[s] = Summed(f, g, s),
         \A s \in SUBSET S : g2[s] = Summed(f2, g2, s),
         \A x \in S : f[x] = f2[x]
  PROVE  \A s \in SUBSET S : g[s] = g2[s]
<1> DEFINE T == {n \in Nat : \A s \in SUBSET S : Cardinality(s) = n => g[s] = g2[s]}
<1>1. 0 \in T
  <2>1. ASSUME NEW s \in SUBSET S, Cardinality(s) = 0 PROVE g[s] = g2[s]
    <3>1. s = {}
      BY <2>1, FS_EmptySet, FS_Subset
    <3> QED
      BY <3>1 DEF Summed
  <2> QED
    BY <2>1
<1>2. ASSUME NEW n \in Nat, n \in T PROVE n + 1 \in T
  <2>1. ASSUME NEW s \in SUBSET S, Cardinality(s) = n + 1 PROVE g[s] = g2[s]
    <3>1. s # {}
      <4>1. Cardinality(s) # 0
        BY <2>1
      <4> QED
        BY <4>1, FS_EmptySet
    <3>2. Pick(s) \in S /\ s \ {Pick(s)} \in SUBSET S
      BY <3>1, PickSmaller
    <3>3. Cardinality(s \ {Pick(s)}) = n
      <4>1. Pick(s) \in s
        BY <3>1, PickSmaller
      <4>2. Cardinality(s \ {Pick(s)}) \in Nat /\ Cardinality(s) = Cardinality(s \ {Pick(s)}) + 1
        BY <3>1, <4>1, PickSmaller
      <4> QED
        BY <2>1, <4>2
    <3>4. g[s \ {Pick(s)}] = g2[s \ {Pick(s)}]
      BY <1>2, <3>2, <3>3
    <3> QED
      BY <3>1, <3>2, <3>4 DEF Summed
  <2> QED
    BY <2>1
<1>3. \A s \in SUBSET S : Cardinality(s) \in T
  <2> HIDE DEF T
  <2> QED
    BY <1>1, <1>2, SizeInduction
<1> QED
  BY <1>3

(***************************************************************************)
(* The function that SumFunction evaluates is that function.               *)
(***************************************************************************)
LEMMA SumIs ==
  ASSUME NEW S, IsFiniteSet(S), NEW f \in [S -> Nat]
  PROVE  \E g : IsSum(f, g, S) /\ SumFunction(f) = g[S]
<1> DEFINE It(g) == [s \in SUBSET S |-> Summed(f, g, s)]
           F == CHOOSE g : g = It(g)
<1>1. PICK g : IsSum(f, g, S)
  BY SumExists
<1>2. g = It(g)
  BY <1>1 DEF IsSum
<1>3. F = It(F)
  BY <1>2
<1>4. SumFunction(f) = F[S]
  <2>1. DOMAIN f = S
    OBVIOUS
  <2> QED
    BY <2>1 DEF SumFunction, SumFunctionOnSet, FoldFunctionOnSet, MapThenFoldSet, Summed, Pick
<1> HIDE DEF F
<1>5. /\ \A s \in SUBSET S : F[s] = Summed(f, F, s)
      /\ \A s \in SUBSET S : g[s] = Summed(f, g, s)
  BY <1>1, <1>3 DEF IsSum
<1>6. \A s \in SUBSET S : F[s] = g[s]
  BY <1>5, SumAgrees
<1> QED
  BY <1>1, <1>4, <1>6

(***************************************************************************)
(* The order in which the elements are picked does not matter.             *)
(***************************************************************************)
LEMMA SumOfAny ==
  ASSUME NEW S, IsFiniteSet(S), NEW f \in [S -> Nat], NEW g, IsSum(f, g, S)
  PROVE  \A s \in SUBSET S : \A x \in s : g[s] = f[x] + g[s \ {x}]
<1> DEFINE T == {n \in Nat : \A s \in SUBSET S : Cardinality(s) = n =>
                   \A x \in s : g[s] = f[x] + g[s \ {x}]}
<1>1. 0 \in T
  <2>1. ASSUME NEW s \in SUBSET S, Cardinality(s) = 0 PROVE s = {}
    BY <2>1, FS_EmptySet, FS_Subset
  <2> QED
    BY <2>1
<1>2. ASSUME NEW n \in Nat, n \in T PROVE n + 1 \in T
  <2>1. ASSUME NEW s \in SUBSET S, Cardinality(s) = n + 1, NEW x \in s
        PROVE  g[s] = f[x] + g[s \ {x}]
    <3> DEFINE c == Pick(s)
    <3>1. c \in s /\ g[s] = f[c] + g[s \ {c}]
      BY PickSmaller DEF IsSum, Summed
    <3> HIDE DEF c
    <3>2. CASE x = c
      BY <3>1, <3>2
    <3>3. CASE x # c
      <4>1. /\ s \ {c} \in SUBSET S /\ s \ {x} \in SUBSET S
            /\ Cardinality(s \ {c}) = n /\ Cardinality(s \ {x}) = n
        <5>1. \A y \in s : /\ Cardinality(s) \in Nat /\ Cardinality(s \ {y}) \in Nat
                            /\ Cardinality(s) = Cardinality(s \ {y}) + 1
          BY <3>1, PickSmaller
        <5> QED
          BY <2>1, <3>1, <5>1
      <4>2. g[s \ {c}] = f[x] + g[(s \ {c}) \ {x}]
        BY <1>2, <3>3, <4>1
      <4>3. g[s \ {x}] = f[c] + g[(s \ {x}) \ {c}]
        BY <1>2, <3>1, <3>3, <4>1
      <4>4. (s \ {x}) \ {c} = (s \ {c}) \ {x}
        OBVIOUS
      <4>5. f[x] \in Nat /\ f[c] \in Nat /\ g[(s \ {c}) \ {x}] \in Nat
        BY <3>1 DEF IsSum
      <4> QED
        BY <3>1, <4>2, <4>3, <4>4, <4>5
    <3> QED
      BY <3>2, <3>3
  <2> QED
    BY <2>1
<1>3. \A s \in SUBSET S : Cardinality(s) \in T
  <2> HIDE DEF T
  <2> QED
    BY <1>1, <1>2, SizeInduction
<1> QED
  BY <1>3

(***************************************************************************)
(* A sum of natural numbers is one, and 0 over the empty set.              *)
(***************************************************************************)
LEMMA SumType ==
  ASSUME NEW S, IsFiniteSet(S), NEW f \in [S -> Nat]
  PROVE  SumFunction(f) \in Nat /\ (S = {} => SumFunction(f) = 0)
<1>1. PICK g : IsSum(f, g, S) /\ SumFunction(f) = g[S]
  BY SumIs
<1> QED
  BY <1>1 DEF IsSum, Summed

(***************************************************************************)
(* A sum is any one of its terms and the sum of the others.                *)
(***************************************************************************)
LEMMA SumSplit ==
  ASSUME NEW S, IsFiniteSet(S), NEW f \in [S -> Nat], NEW x \in S
  PROVE  SumFunction(f) = f[x] + SumFunction([y \in S \ {x} |-> f[y]])
<1> DEFINE R == S \ {x}
           f2 == [y \in R |-> f[y]]
<1>1. PICK g : IsSum(f, g, S) /\ SumFunction(f) = g[S]
  BY SumIs
<1>2. IsFiniteSet(R) /\ f2 \in [R -> Nat] /\ R \subseteq S
  BY FS_Subset
<1>3. PICK g2 : IsSum(f2, g2, R) /\ SumFunction(f2) = g2[R]
  <2> HIDE DEF R, f2
  <2> QED
    BY <1>2, SumIs
<1>4. g[R] = g2[R]
  <2>1. /\ \A s \in SUBSET R : g[s] = Summed(f, g, s)
        /\ \A s \in SUBSET R : g2[s] = Summed(f2, g2, s)
        /\ \A y \in R : f[y] = f2[y]
    BY <1>1, <1>2, <1>3 DEF IsSum
  <2>2. \A s \in SUBSET R : g[s] = g2[s]
    <3> HIDE DEF R, f2
    <3> QED
      BY <1>2, <2>1, SumAgrees
  <2> QED
    BY <2>2
<1>5. g[S] = f[x] + g[R]
  BY <1>1, SumOfAny
<1> QED
  BY <1>1, <1>3, <1>4, <1>5

(***************************************************************************)
(* A sum stays the same when its terms are named differently.              *)
(***************************************************************************)
LEMMA SumBijection ==
  ASSUME NEW S, IsFiniteSet(S), NEW T, NEW b \in Bijection(S, T), NEW f \in [T -> Nat]
  PROVE  SumFunction([s \in S |-> f[b[s]]]) = SumFunction(f)
<1> DEFINE Img(A) == {b[s] : s \in A}
           SumS(A) == SumFunction([s \in A |-> f[b[s]]])
           SumT(B) == SumFunction([t \in B |-> f[t]])
           N == {n \in Nat : \A A \in SUBSET S : Cardinality(A) = n => SumS(A) = SumT(Img(A))}
<1>1. /\ b \in [S -> T] /\ \A x, y \in S : b[x] = b[y] => x = y
      /\ \A t \in T : \E s \in S : b[s] = t
  BY DEF Bijection, Injection, Surjection, IsInjective
<1>2. IsFiniteSet(T)
  BY FS_Surjection DEF Bijection
<1>3. ASSUME NEW A \in SUBSET S PROVE IsFiniteSet(A) /\ IsFiniteSet(Img(A)) /\ Img(A) \subseteq T
  <2>1. Img(A) \in SUBSET T
    BY <1>1
  <2> HIDE DEF Img
  <2> QED
    BY <1>2, <2>1, FS_Subset
<1>4. ASSUME NEW A \in SUBSET S, NEW x \in A
      PROVE  /\ SumS(A) = f[b[x]] + SumS(A \ {x})
             /\ SumT(Img(A)) = f[b[x]] + SumT(Img(A \ {x}))
  <2>1. SumS(A) = f[b[x]] + SumS(A \ {x})
    <3> DEFINE g == [s \in A |-> f[b[s]]]
    <3>1. g \in [A -> Nat] /\ g[x] = f[b[x]] /\ [y \in A \ {x} |-> g[y]] = [s \in A \ {x} |-> f[b[s]]]
      BY <1>1
    <3> HIDE DEF g
    <3>2. IsFiniteSet(A)
      BY <1>3
    <3>3. SumFunction(g) = g[x] + SumFunction([y \in A \ {x} |-> g[y]])
      BY <3>1, <3>2, SumSplit
    <3> QED
      BY <3>1, <3>3 DEF g
  <2>2. SumT(Img(A)) = f[b[x]] + SumT(Img(A) \ {b[x]})
    <3> DEFINE B == Img(A)
               g == [t \in B |-> f[t]]
    <3>1. /\ g \in [B -> Nat] /\ b[x] \in B /\ g[b[x]] = f[b[x]]
          /\ [y \in B \ {b[x]} |-> g[y]] = [t \in B \ {b[x]} |-> f[t]]
      BY <1>1
    <3>2. IsFiniteSet(B)
      BY <1>3
    <3> HIDE DEF g, B
    <3>3. SumFunction(g) = g[b[x]] + SumFunction([y \in B \ {b[x]} |-> g[y]])
      BY <3>1, <3>2, SumSplit
    <3> QED
      BY <3>1, <3>3 DEF g, B
  <2>3. Img(A) \ {b[x]} = Img(A \ {x})
    BY <1>1
  <2> QED
    BY <2>1, <2>2, <2>3
<1>5. 0 \in N
  <2>1. ASSUME NEW A \in SUBSET S, Cardinality(A) = 0 PROVE SumS(A) = SumT(Img(A))
    <3>1. A = {} /\ Img(A) = {}
      BY <1>3, <2>1, FS_EmptySet
    <3>2. [s \in A |-> f[b[s]]] = [t \in Img(A) |-> f[t]]
      BY <3>1
    <3> QED
      BY <3>2
  <2> QED
    BY <2>1
<1>6. ASSUME NEW n \in Nat, n \in N PROVE n + 1 \in N
  <2>1. ASSUME NEW A \in SUBSET S, Cardinality(A) = n + 1 PROVE SumS(A) = SumT(Img(A))
    <3>1. A # {}
      <4>1. Cardinality(A) # 0
        BY <2>1
      <4> QED
        BY <4>1, FS_EmptySet
    <3>2. PICK x \in A : TRUE
      BY <3>1
    <3>3. Cardinality(A) = Cardinality(A \ {x}) + 1 /\ Cardinality(A \ {x}) \in Nat
      BY <3>1, PickSmaller
    <3>4. A \ {x} \in SUBSET S /\ Cardinality(A \ {x}) = n
      BY <2>1, <3>3
    <3>5. SumS(A \ {x}) = SumT(Img(A \ {x}))
      <4> HIDE DEF SumS, SumT, Img
      <4> QED
        BY <1>6, <3>4
    <3> HIDE DEF SumS, SumT, Img
    <3> QED
      BY <1>4, <3>5
  <2> QED
    BY <2>1
<1>7. \A A \in SUBSET S : Cardinality(A) \in N
  <2> HIDE DEF N
  <2> QED
    BY <1>5, <1>6, SizeInduction
<1>8. SumS(S) = SumT(Img(S))
  <2>1. S \in SUBSET S
    OBVIOUS
  <2> HIDE DEF SumS, SumT, Img
  <2> QED
    BY <1>7, <2>1
<1>9. Img(S) = T
  BY <1>1
<1>10. [t \in T |-> f[t]] = f
  OBVIOUS
<1> QED
  BY <1>8, <1>9, <1>10

(***************************************************************************)
(* A finite nonempty set of natural numbers has a greatest element.        *)
(***************************************************************************)
LEMMA GreatestNumber ==
  ASSUME NEW S \in SUBSET Nat, IsFiniteSet(S), S # {}
  PROVE  \E x \in S : \A y \in S : x >= y
<1> DEFINE Top(A) == \E x \in A : \A y \in A : x >= y
           N == {n \in Nat : \A A \in SUBSET S : Cardinality(A) = n /\ A # {} => Top(A)}
<1>1. 0 \in N
  BY FS_EmptySet, FS_Subset
<1>2. ASSUME NEW n \in Nat, n \in N PROVE n + 1 \in N
  <2>1. ASSUME NEW A \in SUBSET S, Cardinality(A) = n + 1, A # {} PROVE Top(A)
    <3>1. PICK z \in A : TRUE
      BY <2>1
    <3>2. Cardinality(A) = Cardinality(A \ {z}) + 1 /\ Cardinality(A \ {z}) \in Nat
      BY <2>1, PickSmaller
    <3>3. A \ {z} \in SUBSET S /\ Cardinality(A \ {z}) = n
      BY <2>1, <3>2
    <3>4. CASE A \ {z} = {}
      BY <3>4
    <3>5. CASE A \ {z} # {}
      <4>1. PICK x \in A \ {z} : \A y \in A \ {z} : x >= y
        BY <1>2, <3>3, <3>5
      <4>2. x \in Nat /\ z \in Nat /\ \A y \in A : y \in Nat
        OBVIOUS
      <4>3. CASE x >= z
        BY <4>1, <4>3
      <4>4. CASE z >= x
        BY <4>1, <4>2, <4>4
      <4> QED
        BY <4>2, <4>3, <4>4
    <3> QED
      BY <3>4, <3>5
  <2> QED
    BY <2>1
<1>3. \A A \in SUBSET S : Cardinality(A) \in N
  <2> HIDE DEF N
  <2> QED
    BY <1>1, <1>2, SizeInduction
<1> QED
  BY <1>3
=============================================================================
