-------------------------- MODULE HashTableProofs --------------------------
(***************************************************************************)
(* Proofs about the storage engine (HashTable.tla) for every set of keys   *)
(* and values, every hash function, all sizes and every memory limit.      *)
(* StoreInv is the inductive invariant; the invariants that the model      *)
(* checker verifies on a small instance follow from it, and so does the    *)
(* refinement of LRUCache.tla.                                             *)
(***************************************************************************)
EXTENDS HashTable, Induction

USE DEF Null

-----------------------------------------------------------------------------
(* What the list operations do to the fields of a table.                   *)

(***************************************************************************)
(* Tables t and u have the same size and the same states, keys and values. *)
(***************************************************************************)
SameRecords(t, u) ==
  /\ u.size = t.size
  /\ \A q \in Slots(t) : /\ u.slots[q].state = t.slots[q].state
                         /\ u.slots[q].key = t.slots[q].key
                         /\ u.slots[q].value = t.slots[q].value

(***************************************************************************)
(* One assignment to a record or to an end of the list.                    *)
(***************************************************************************)
WithSlot(t, p, r) == [t EXCEPT !.slots[p] = r]
WithNext(t, p, x) == [t EXCEPT !.slots[p].next = x]
WithPrev(t, p, x) == [t EXCEPT !.slots[p].prev = x]
WithHead(t, x) == [t EXCEPT !.head = x]
WithTail(t, x) == [t EXCEPT !.tail = x]

(***************************************************************************)
(* A whole record is assigned.                                             *)
(***************************************************************************)
LEMMA SetSlot ==
  ASSUME NEW t, IsTable(t), NEW p \in Slots(t), NEW r \in RecordType,
         r.prev \in Slots(t) \union {Null}, r.next \in Slots(t) \union {Null}
  PROVE  LET u == WithSlot(t, p, r)
         IN /\ IsTable(u) /\ u.size = t.size /\ u.head = t.head /\ u.tail = t.tail
            /\ Slots(u) = Slots(t)
            /\ \A q \in Slots(t) : u.slots[q] = IF q = p THEN r ELSE t.slots[q]
<1> DEFINE s == [t.slots EXCEPT ![p] = r]
           u == [size |-> t.size, slots |-> s, head |-> t.head, tail |-> t.tail]
<1>1. WithSlot(t, p, r) = u
  BY DEF IsTable, WithSlot
<1>2. s \in [Slots(t) -> RecordType] /\ \A q \in Slots(t) : s[q] = IF q = p THEN r ELSE t.slots[q]
  BY DEF IsTable
<1> HIDE DEF s
<1>3. IsTable(u) /\ Slots(u) = Slots(t)
  BY <1>2 DEF IsTable, Slots
<1> QED
  BY <1>1, <1>2, <1>3

(***************************************************************************)
(* A record keeps its type when one of its two links is assigned.          *)
(***************************************************************************)
LEMMA SetLinks ==
  ASSUME NEW t, IsTable(t), NEW p \in Slots(t), NEW x \in Slots(t) \union {Null}
  PROVE  /\ t.slots[p] \in RecordType
         /\ [t.slots[p] EXCEPT !.next = x] \in RecordType
         /\ [t.slots[p] EXCEPT !.prev = x] \in RecordType
<1>1. t.slots[p] \in RecordType /\ x \in Int
  BY DEF IsTable, Slots
<1> QED
  BY <1>1 DEF RecordType

(***************************************************************************)
(* A next link is assigned: states, keys, values and prev links stay.      *)
(***************************************************************************)
LEMMA SetNext ==
  ASSUME NEW t, IsTable(t), NEW p \in Slots(t), NEW x \in Slots(t) \union {Null}
  PROVE  LET u == WithNext(t, p, x)
         IN /\ IsTable(u) /\ SameRecords(t, u) /\ u.head = t.head /\ u.tail = t.tail
            /\ \A q \in Slots(t) : /\ u.slots[q].next = IF q = p THEN x ELSE t.slots[q].next
                                   /\ u.slots[q].prev = t.slots[q].prev
<1> DEFINE r == [t.slots[p] EXCEPT !.next = x]
<1>1. /\ r \in RecordType /\ r.next = x /\ r.prev = t.slots[p].prev /\ r.key = t.slots[p].key
      /\ r.state = t.slots[p].state /\ r.value = t.slots[p].value
      /\ t.slots[p].prev \in Slots(t) \union {Null}
  BY SetLinks DEF IsTable, RecordType
<1>2. WithNext(t, p, x) = WithSlot(t, p, r)
  BY DEF WithNext, WithSlot
<1> HIDE DEF r
<1> DEFINE u == WithSlot(t, p, r)
<1>3. /\ IsTable(u) /\ u.size = t.size /\ u.head = t.head /\ u.tail = t.tail
      /\ \A q \in Slots(t) : u.slots[q] = IF q = p THEN r ELSE t.slots[q]
  BY <1>1, SetSlot
<1> HIDE DEF u
<1> QED
  BY <1>1, <1>2, <1>3 DEF SameRecords, u

(***************************************************************************)
(* A prev link is assigned: states, keys, values and next links stay.      *)
(***************************************************************************)
LEMMA SetPrev ==
  ASSUME NEW t, IsTable(t), NEW p \in Slots(t), NEW x \in Slots(t) \union {Null}
  PROVE  LET u == WithPrev(t, p, x)
         IN /\ IsTable(u) /\ SameRecords(t, u) /\ u.head = t.head /\ u.tail = t.tail
            /\ \A q \in Slots(t) : /\ u.slots[q].prev = IF q = p THEN x ELSE t.slots[q].prev
                                   /\ u.slots[q].next = t.slots[q].next
<1> DEFINE r == [t.slots[p] EXCEPT !.prev = x]
<1>1. /\ r \in RecordType /\ r.prev = x /\ r.next = t.slots[p].next /\ r.key = t.slots[p].key
      /\ r.state = t.slots[p].state /\ r.value = t.slots[p].value
      /\ t.slots[p].next \in Slots(t) \union {Null}
  BY SetLinks DEF IsTable, RecordType
<1>2. WithPrev(t, p, x) = WithSlot(t, p, r)
  BY DEF WithPrev, WithSlot
<1> HIDE DEF r
<1> DEFINE u == WithSlot(t, p, r)
<1>3. /\ IsTable(u) /\ u.size = t.size /\ u.head = t.head /\ u.tail = t.tail
      /\ \A q \in Slots(t) : u.slots[q] = IF q = p THEN r ELSE t.slots[q]
  BY <1>1, SetSlot
<1> HIDE DEF u
<1> QED
  BY <1>1, <1>2, <1>3 DEF SameRecords, u

(***************************************************************************)
(* listHead or listTail is assigned: the records stay.                     *)
(***************************************************************************)
LEMMA SetEnds ==
  ASSUME NEW t, IsTable(t), NEW x \in Slots(t) \union {Null}
  PROVE  /\ LET u == WithHead(t, x)
            IN /\ IsTable(u) /\ SameRecords(t, u) /\ u.slots = t.slots
               /\ u.head = x /\ u.tail = t.tail
         /\ LET u == WithTail(t, x)
            IN /\ IsTable(u) /\ SameRecords(t, u) /\ u.slots = t.slots
               /\ u.head = t.head /\ u.tail = x
BY DEF WithHead, WithTail, IsTable, Slots, SameRecords

(***************************************************************************)
(* removeFromList: the neighbours of the record, or the ends of the list,  *)
(* are linked past it.                                                     *)
(***************************************************************************)
LEMMA RemoveShape ==
  ASSUME NEW t, IsTable(t), NEW p \in Slots(t)
  PROVE  LET u == removeFromList(t, p)
             r == t.slots[p]
         IN /\ IsTable(u) /\ SameRecords(t, u)
            /\ \A q \in Slots(t) :
                 /\ u.slots[q].next = IF q = r.prev THEN r.next ELSE t.slots[q].next
                 /\ u.slots[q].prev = IF q = r.next THEN r.prev ELSE t.slots[q].prev
            /\ u.head = IF r.prev = Null THEN r.next ELSE t.head
            /\ u.tail = IF r.next = Null THEN r.prev ELSE t.tail
<1> DEFINE r == t.slots[p]
           l == IF r.prev # Null THEN WithNext(t, r.prev, r.next)
                                 ELSE WithHead(t, r.next)
           u == IF r.next # Null THEN WithPrev(l, r.next, r.prev)
                                 ELSE WithTail(l, r.prev)
<1>1. removeFromList(t, p) = u
  BY DEF removeFromList, WithSlot, WithNext, WithPrev, WithHead, WithTail
<1>2. r.prev \in Slots(t) \union {Null} /\ r.next \in Slots(t) \union {Null}
  BY DEF IsTable
<1> HIDE DEF r
<1>3. /\ IsTable(l) /\ SameRecords(t, l) /\ l.tail = t.tail
      /\ l.head = IF r.prev = Null THEN r.next ELSE t.head
      /\ \A q \in Slots(t) :
           /\ l.slots[q].next = IF q = r.prev THEN r.next ELSE t.slots[q].next
           /\ l.slots[q].prev = t.slots[q].prev
  <2>1. CASE r.prev # Null
    <3>1. l = WithNext(t, r.prev, r.next)
      BY <2>1
    <3> HIDE DEF l
    <3> QED
      BY <1>2, <2>1, <3>1, SetNext
  <2>2. CASE r.prev = Null
    <3>1. l = WithHead(t, r.next)
      BY <2>2
    <3>2. r.prev \notin Slots(t)
      BY <2>2 DEF Slots
    <3> HIDE DEF l
    <3> QED
      BY <1>2, <2>2, <3>1, <3>2, SetEnds
  <2> QED
    BY <2>1, <2>2
<1>4. Slots(l) = Slots(t)
  BY <1>3 DEF SameRecords, Slots
<1> HIDE DEF l
<1>5. /\ IsTable(u) /\ SameRecords(l, u) /\ u.head = l.head
      /\ u.tail = IF r.next = Null THEN r.prev ELSE l.tail
      /\ \A q \in Slots(t) :
           /\ u.slots[q].prev = IF q = r.next THEN r.prev ELSE l.slots[q].prev
           /\ u.slots[q].next = l.slots[q].next
  <2>1. CASE r.next # Null
    <3>1. u = WithPrev(l, r.next, r.prev)
      BY <2>1
    <3> HIDE DEF u
    <3> QED
      BY <1>2, <1>3, <1>4, <2>1, <3>1, SetPrev
  <2>2. CASE r.next = Null
    <3>1. u = WithTail(l, r.prev)
      BY <2>2
    <3>2. r.next \notin Slots(t)
      BY <2>2 DEF Slots
    <3> HIDE DEF u
    <3> QED
      BY <1>2, <1>3, <1>4, <2>2, <3>1, <3>2, SetEnds
  <2> QED
    BY <2>1, <2>2
<1> HIDE DEF u
<1>6. SameRecords(t, u)
  BY <1>3, <1>4, <1>5 DEF SameRecords
<1> QED
  BY <1>1, <1>3, <1>5, <1>6 DEF r

(***************************************************************************)
(* addToFront: the record becomes the head, before the old one.            *)
(***************************************************************************)
LEMMA FrontShape ==
  ASSUME NEW t, IsTable(t), NEW p \in Slots(t), t.head # p
  PROVE  LET u == addToFront(t, p)
         IN /\ IsTable(u) /\ SameRecords(t, u)
            /\ \A q \in Slots(t) :
                 /\ u.slots[q].next = IF q = p THEN t.head ELSE t.slots[q].next
                 /\ u.slots[q].prev = IF q = p THEN Null
                                      ELSE IF q = t.head THEN p ELSE t.slots[q].prev
            /\ u.head = p
            /\ u.tail = IF t.tail = Null THEN p ELSE t.tail
<1> DEFINE k == WithPrev(t, p, Null)
           l == WithNext(k, p, t.head)
           m == IF t.head # Null THEN WithPrev(l, t.head, p) ELSE l
           n == WithHead(m, p)
           u == WithTail(n, IF t.tail = Null THEN p ELSE t.tail)
<1>1. addToFront(t, p) = u
  BY DEF addToFront, WithSlot, WithNext, WithPrev, WithHead, WithTail
<1>2. t.head \in Slots(t) \union {Null} /\ t.tail \in Slots(t) \union {Null} /\ Null \notin Slots(t)
  BY DEF IsTable, Slots
<1>3. /\ IsTable(k) /\ SameRecords(t, k) /\ k.head = t.head /\ k.tail = t.tail
      /\ \A q \in Slots(t) : /\ k.slots[q].prev = IF q = p THEN Null ELSE t.slots[q].prev
                             /\ k.slots[q].next = t.slots[q].next
  BY SetPrev
<1>4. Slots(k) = Slots(t)
  BY <1>3 DEF SameRecords, Slots
<1> HIDE DEF k
<1>5. /\ IsTable(l) /\ SameRecords(k, l) /\ l.head = t.head /\ l.tail = t.tail
      /\ \A q \in Slots(t) : /\ l.slots[q].prev = k.slots[q].prev
                             /\ l.slots[q].next = IF q = p THEN t.head ELSE k.slots[q].next
  BY <1>2, <1>3, <1>4, SetNext
<1>6. Slots(l) = Slots(t)
  BY <1>4, <1>5 DEF SameRecords, Slots
<1> HIDE DEF l
<1>7. /\ IsTable(m) /\ SameRecords(l, m) /\ m.head = t.head /\ m.tail = t.tail
      /\ \A q \in Slots(t) : /\ m.slots[q].prev = IF q = t.head THEN p ELSE l.slots[q].prev
                             /\ m.slots[q].next = l.slots[q].next
  <2>1. CASE t.head # Null
    <3>1. m = WithPrev(l, t.head, p)
      BY <2>1
    <3> HIDE DEF m
    <3> QED
      BY <1>2, <1>5, <1>6, <2>1, <3>1, SetPrev
  <2>2. CASE t.head = Null
    BY <1>2, <1>5, <1>6, <2>2 DEF SameRecords
  <2> QED
    BY <2>1, <2>2
<1>8. Slots(m) = Slots(t)
  BY <1>6, <1>7 DEF SameRecords, Slots
<1> HIDE DEF m
<1>9. /\ IsTable(n) /\ SameRecords(m, n) /\ n.head = p /\ n.tail = t.tail /\ n.slots = m.slots
  BY <1>7, <1>8, SetEnds
<1>10. Slots(n) = Slots(t)
  BY <1>8, <1>9 DEF SameRecords, Slots
<1> HIDE DEF n
<1>11. /\ IsTable(u) /\ SameRecords(n, u) /\ u.head = p /\ u.slots = n.slots
       /\ u.tail = IF t.tail = Null THEN p ELSE t.tail
  <2>1. (IF t.tail = Null THEN p ELSE t.tail) \in Slots(n) \union {Null}
    BY <1>2, <1>10
  <2> QED
    BY <1>9, <2>1, SetEnds
<1> HIDE DEF u
<1>12. SameRecords(t, u)
  BY <1>3, <1>4, <1>5, <1>6, <1>7, <1>8, <1>9, <1>10, <1>11 DEF SameRecords
<1>13. ASSUME NEW q \in Slots(t)
       PROVE  /\ u.slots[q].next = IF q = p THEN t.head ELSE t.slots[q].next
              /\ u.slots[q].prev = IF q = p THEN Null
                                   ELSE IF q = t.head THEN p ELSE t.slots[q].prev
  BY <1>3, <1>5, <1>7, <1>9, <1>11
<1> QED
  BY <1>1, <1>11, <1>12, <1>13

(***************************************************************************)
(* An iteration of rehash: the record becomes the tail, behind the old     *)
(* one.                                                                    *)
(***************************************************************************)
LEMMA AppendShape ==
  ASSUME NEW t, IsTable(t), NEW p \in Slots(t), t.tail # p, NEW r \in RecordType
  PROVE  LET u == appendRecord(t, p, r)
         IN /\ IsTable(u) /\ u.size = t.size
            /\ \A q \in Slots(t) :
                 /\ q # p => /\ u.slots[q].state = t.slots[q].state
                             /\ u.slots[q].key = t.slots[q].key
                             /\ u.slots[q].value = t.slots[q].value
                 /\ u.slots[q].next = IF q = p THEN Null
                                      ELSE IF q = t.tail THEN p ELSE t.slots[q].next
                 /\ u.slots[q].prev = IF q = p THEN t.tail ELSE t.slots[q].prev
            /\ u.slots[p].state = "ALIVE" /\ u.slots[p].key = r.key /\ u.slots[p].value = r.value
            /\ u.head = IF t.head = Null THEN p ELSE t.head
            /\ u.tail = p
<1> DEFINE a == Record("ALIVE", r.key, r.value, t.tail, Null)
           l == WithSlot(t, p, a)
           m == IF t.tail # Null THEN WithNext(l, t.tail, p) ELSE l
           n == WithHead(m, IF t.head = Null THEN p ELSE t.head)
           u == WithTail(n, p)
<1>1. appendRecord(t, p, r) = u
  BY DEF appendRecord, WithSlot, WithNext, WithPrev, WithHead, WithTail
<1>2. t.head \in Slots(t) \union {Null} /\ t.tail \in Slots(t) \union {Null} /\ Null \notin Slots(t)
  BY DEF IsTable, Slots
<1>3. /\ a \in RecordType /\ a.prev = t.tail /\ a.next = Null
      /\ a.state = "ALIVE" /\ a.key = r.key /\ a.value = r.value
  BY <1>2 DEF Record, RecordType, Slots
<1> HIDE DEF a
<1>4. /\ IsTable(l) /\ l.size = t.size /\ l.head = t.head /\ l.tail = t.tail
      /\ Slots(l) = Slots(t)
      /\ \A q \in Slots(t) : l.slots[q] = IF q = p THEN a ELSE t.slots[q]
  BY <1>2, <1>3, SetSlot
<1> HIDE DEF l
<1>5. /\ IsTable(m) /\ SameRecords(l, m) /\ m.head = t.head /\ m.tail = t.tail
      /\ \A q \in Slots(t) : /\ m.slots[q].prev = l.slots[q].prev
                             /\ m.slots[q].next = IF q = t.tail THEN p ELSE l.slots[q].next
  <2>1. CASE t.tail # Null
    <3>1. m = WithNext(l, t.tail, p)
      BY <2>1
    <3> HIDE DEF m
    <3> QED
      BY <1>2, <1>4, <2>1, <3>1, SetNext
  <2>2. CASE t.tail = Null
    BY <1>2, <1>4, <2>2 DEF SameRecords
  <2> QED
    BY <2>1, <2>2
<1>6. Slots(m) = Slots(t)
  BY <1>4, <1>5 DEF SameRecords, Slots
<1> HIDE DEF m
<1>7. /\ IsTable(n) /\ SameRecords(m, n) /\ n.tail = t.tail /\ n.slots = m.slots
      /\ n.head = IF t.head = Null THEN p ELSE t.head
  <2>1. (IF t.head = Null THEN p ELSE t.head) \in Slots(m) \union {Null}
    BY <1>2, <1>6
  <2> QED
    BY <1>5, <2>1, SetEnds
<1>8. Slots(n) = Slots(t)
  BY <1>6, <1>7 DEF SameRecords, Slots
<1> HIDE DEF n
<1>9. IsTable(u) /\ SameRecords(n, u) /\ u.head = n.head /\ u.slots = n.slots /\ u.tail = p
  BY <1>7, <1>8, SetEnds
<1> HIDE DEF u
<1>10. u.size = t.size
  BY <1>4, <1>5, <1>7, <1>9 DEF SameRecords
<1>11. ASSUME NEW q \in Slots(t)
       PROVE  /\ u.slots[q].state = l.slots[q].state
              /\ u.slots[q].key = l.slots[q].key
              /\ u.slots[q].value = l.slots[q].value
              /\ u.slots[q].next = IF q = p THEN Null
                                   ELSE IF q = t.tail THEN p ELSE t.slots[q].next
              /\ u.slots[q].prev = IF q = p THEN t.tail ELSE t.slots[q].prev
  BY <1>3, <1>4, <1>5, <1>7, <1>9 DEF SameRecords
<1> QED
  BY <1>1, <1>3, <1>4, <1>7, <1>9, <1>10, <1>11

-----------------------------------------------------------------------------
(* The list of a set A of slots, in the order R.                           *)

In(R, p, q) == <<p, q>> \in R

Ordered(A, R) ==
  /\ \A p \in A : ~ In(R, p, p)
  /\ \A p, q, m \in A : In(R, p, q) /\ In(R, q, m) => In(R, p, m)
  /\ \A p, q \in A : p = q \/ In(R, p, q) \/ In(R, q, p)

Adjacent(A, R, p, q) ==
  In(R, p, q) /\ \A m \in A : ~ (In(R, p, m) /\ In(R, m, q))

Linked(t, A, R) ==
  /\ \A p \in A :
       /\ t.slots[p].next \in A \union {Null}
       /\ t.slots[p].prev \in A \union {Null}
       /\ t.slots[p].next = Null <=> \A q \in A : ~ In(R, p, q)
       /\ t.slots[p].prev = Null <=> \A q \in A : ~ In(R, q, p)
       /\ \A q \in A : t.slots[p].next = q <=> Adjacent(A, R, p, q)
       /\ \A q \in A : t.slots[q].prev = p <=> Adjacent(A, R, p, q)
       /\ t.head = p <=> \A q \in A : ~ In(R, q, p)
       /\ t.tail = p <=> \A q \in A : ~ In(R, p, q)
  /\ t.head \in A \union {Null} /\ t.tail \in A \union {Null}
  /\ A = {} <=> t.head = Null
  /\ A = {} <=> t.tail = Null

(***************************************************************************)
(* A list without one of its records still is the order of the others.     *)
(***************************************************************************)
LEMMA RemoveLinked ==
  ASSUME NEW t, NEW u, NEW A \in SUBSET Nat, NEW R, Ordered(A, R), Linked(t, A, R), NEW p \in A,
         \A q \in A :
            /\ u.slots[q].next = IF q = t.slots[p].prev THEN t.slots[p].next ELSE t.slots[q].next
            /\ u.slots[q].prev = IF q = t.slots[p].next THEN t.slots[p].prev ELSE t.slots[q].prev,
         u.head = IF t.slots[p].prev = Null THEN t.slots[p].next ELSE t.head,
         u.tail = IF t.slots[p].next = Null THEN t.slots[p].prev ELSE t.tail
  PROVE  Linked(u, A \ {p}, R)
<1> DEFINE B == A \ {p}
           a == t.slots[p].prev
           b == t.slots[p].next
<1>0. Null \notin A /\ B \subseteq A /\ p \notin B
  OBVIOUS
<1>1. a \in B \union {Null} /\ b \in B \union {Null}
  BY DEF Linked, Adjacent, Ordered
<1>2. /\ a = Null <=> \A q \in A : ~ In(R, q, p)
      /\ b = Null <=> \A q \in A : ~ In(R, p, q)
      /\ \A q \in A : a = q <=> Adjacent(A, R, q, p)
      /\ \A q \in A : b = q <=> Adjacent(A, R, p, q)
  BY DEF Linked
<1>3. \A q \in B : /\ u.slots[q].next = IF q = a THEN b ELSE t.slots[q].next
                   /\ u.slots[q].prev = IF q = b THEN a ELSE t.slots[q].prev
  OBVIOUS
<1>4. u.head = (IF a = Null THEN b ELSE t.head) /\ u.tail = (IF b = Null THEN a ELSE t.tail)
  OBVIOUS
<1> HIDE DEF a, b
<1>5. \A q, s \in B : Adjacent(B, R, q, s) <=> IF q = a /\ b # Null THEN s = b ELSE Adjacent(A, R, q, s)
  BY <1>0, <1>1, <1>2 DEF Adjacent, Ordered
<1>6. ASSUME NEW q \in B
      PROVE  /\ u.slots[q].next \in B \union {Null}
             /\ u.slots[q].next = Null <=> \A s \in B : ~ In(R, q, s)
             /\ \A s \in B : u.slots[q].next = s <=> Adjacent(B, R, q, s)
  <2>1. CASE q = a
    BY <1>0, <1>1, <1>2, <1>3, <1>5, <2>1 DEF Linked, Adjacent, Ordered
  <2>2. CASE q # a
    <3>1. /\ t.slots[q].next \in A \union {Null}
          /\ t.slots[q].next = Null <=> \A s \in A : ~ In(R, q, s)
          /\ \A s \in A : t.slots[q].next = s <=> Adjacent(A, R, q, s)
      BY <1>0 DEF Linked
    <3>2. t.slots[q].next # p
      BY <1>0, <1>2, <2>2, <3>1
    <3>3. u.slots[q].next = t.slots[q].next
      BY <1>3, <2>2
    <3>4. \A s \in B : Adjacent(B, R, q, s) <=> Adjacent(A, R, q, s)
      BY <1>5, <2>2
    <3>5. (\A s \in B : ~ In(R, q, s)) => ~ In(R, q, p)
      BY <1>0, <1>2, <2>2 DEF Adjacent, Ordered
    <3> QED
      BY <1>0, <3>1, <3>2, <3>3, <3>4, <3>5
  <2> QED
    BY <2>1, <2>2
<1>7. ASSUME NEW q \in B
      PROVE  /\ u.slots[q].prev \in B \union {Null}
             /\ u.slots[q].prev = Null <=> \A s \in B : ~ In(R, s, q)
             /\ \A s \in B : u.slots[q].prev = s <=> Adjacent(B, R, s, q)
  <2>1. CASE q = b
    BY <1>0, <1>1, <1>2, <1>3, <1>5, <2>1 DEF Linked, Adjacent, Ordered
  <2>2. CASE q # b
    <3>1. /\ t.slots[q].prev \in A \union {Null}
          /\ t.slots[q].prev = Null <=> \A s \in A : ~ In(R, s, q)
          /\ \A s \in A : t.slots[q].prev = s <=> Adjacent(A, R, s, q)
      BY <1>0 DEF Linked
    <3>2. t.slots[q].prev # p
      BY <1>0, <1>2, <2>2, <3>1
    <3>3. u.slots[q].prev = t.slots[q].prev
      BY <1>3, <2>2
    <3>4. \A s \in B : Adjacent(B, R, s, q) <=> Adjacent(A, R, s, q)
      BY <1>2, <1>5, <2>2 DEF Adjacent
    <3>5. ASSUME In(R, p, q) PROVE \E s \in B : In(R, s, q)
      <4>1. b \in B /\ In(R, p, b) /\ ~ In(R, q, b)
        BY <1>0, <1>1, <1>2, <3>5 DEF Adjacent
      <4>2. In(R, b, q)
        BY <1>0, <2>2, <4>1 DEF Ordered
      <4> QED
        BY <4>1, <4>2
    <3> QED
      BY <1>0, <3>1, <3>2, <3>3, <3>4, <3>5
  <2> QED
    BY <2>1, <2>2
<1>8. /\ u.head \in B \union {Null}
      /\ B = {} <=> u.head = Null
      /\ \A q \in B : u.head = q <=> \A s \in B : ~ In(R, s, q)
  <2>1. /\ t.head \in A /\ \A q \in A : t.head = q <=> \A s \in A : ~ In(R, s, q)
    BY <1>0 DEF Linked
  <2>2. CASE a = Null
    BY <1>0, <1>1, <1>2, <1>4, <2>2 DEF Adjacent, Ordered
  <2>3. CASE a # Null
    BY <1>0, <1>1, <1>2, <1>4, <2>1, <2>3 DEF Adjacent, Ordered
  <2> QED
    BY <2>2, <2>3
<1>9. /\ u.tail \in B \union {Null}
      /\ B = {} <=> u.tail = Null
      /\ \A q \in B : u.tail = q <=> \A s \in B : ~ In(R, q, s)
  <2>1. /\ t.tail \in A /\ \A q \in A : t.tail = q <=> \A s \in A : ~ In(R, q, s)
    BY <1>0 DEF Linked
  <2>2. CASE b = Null
    BY <1>0, <1>1, <1>2, <1>4, <2>2 DEF Adjacent, Ordered
  <2>3. CASE b # Null
    BY <1>0, <1>1, <1>2, <1>4, <2>1, <2>3 DEF Adjacent, Ordered
  <2> QED
    BY <2>2, <2>3
<1> HIDE DEF B
<1>10. Linked(u, B, R)
  BY <1>6, <1>7, <1>8, <1>9 DEF Linked
<1> QED
  BY <1>10 DEF B

(***************************************************************************)
(* A record linked in before the head comes before all others.             *)
(***************************************************************************)
LEMMA FrontLinked ==
  ASSUME NEW t, NEW u, NEW A \in SUBSET Nat, NEW R, NEW Q, Ordered(A, R), Linked(t, A, R),
         NEW p \in Nat \ A,
         \A q \in A \union {p} :
            /\ u.slots[q].next = IF q = p THEN t.head ELSE t.slots[q].next
            /\ u.slots[q].prev = IF q = p THEN Null
                                 ELSE IF q = t.head THEN p ELSE t.slots[q].prev,
         u.head = p, u.tail = IF t.tail = Null THEN p ELSE t.tail,
         \A q, s \in A : In(Q, q, s) <=> In(R, q, s),
         ~ In(Q, p, p),
         \A q \in A : In(Q, p, q) /\ ~ In(Q, q, p)
  PROVE  Ordered(A \union {p}, Q) /\ Linked(u, A \union {p}, Q)
<1> DEFINE B == A \union {p}
<1>0. Null \notin A /\ A \subseteq B /\ p \notin A /\ p # Null
  OBVIOUS
<1>1. Ordered(B, Q)
  BY DEF Ordered
<1>2. /\ t.head \in A \union {Null} /\ t.tail \in A \union {Null}
      /\ A = {} <=> t.head = Null
      /\ A = {} <=> t.tail = Null
      /\ \A q \in A : t.head = q <=> \A s \in A : ~ In(R, s, q)
      /\ \A q \in A : t.tail = q <=> \A s \in A : ~ In(R, q, s)
  BY DEF Linked
<1>3. ASSUME NEW q \in A, NEW s \in A PROVE Adjacent(B, Q, q, s) <=> Adjacent(A, R, q, s)
  <2>1. ~ (In(Q, q, p) /\ In(Q, p, s))
    OBVIOUS
  <2>2. \A m \in A : In(Q, q, m) /\ In(Q, m, s) <=> In(R, q, m) /\ In(R, m, s)
    OBVIOUS
  <2> QED
    BY <2>1, <2>2 DEF Adjacent
<1>4. \A q \in A : /\ ~ Adjacent(B, Q, q, p)
                   /\ Adjacent(B, Q, p, q) <=> q = t.head
  BY <1>0, <1>2 DEF Adjacent, Ordered
<1>5. ASSUME NEW q \in B
      PROVE  /\ u.slots[q].next \in B \union {Null}
             /\ u.slots[q].next = Null <=> \A s \in B : ~ In(Q, q, s)
             /\ \A s \in B : u.slots[q].next = s <=> Adjacent(B, Q, q, s)
  <2>1. CASE q = p
    BY <1>0, <1>1, <1>2, <1>4, <2>1 DEF Adjacent, Ordered
  <2>2. CASE q # p
    <3>1. /\ q \in A /\ t.slots[q].next \in A \union {Null}
          /\ t.slots[q].next = Null <=> \A s \in A : ~ In(R, q, s)
          /\ \A s \in A : t.slots[q].next = s <=> Adjacent(A, R, q, s)
      BY <2>2 DEF Linked
    <3>2. u.slots[q].next = t.slots[q].next
      BY <2>2
    <3>3. \A s \in B : s \in A \/ s = p
      OBVIOUS
    <3>4. \A s \in A : s # p /\ s \in B
      OBVIOUS
    <3> HIDE DEF B
    <3>5. ASSUME NEW s \in B PROVE u.slots[q].next = s <=> Adjacent(B, Q, q, s)
      <4>1. CASE s \in A
        BY <1>3, <3>1, <3>2, <4>1
      <4>2. CASE s = p
        BY <1>0, <1>4, <3>1, <3>2, <4>2
      <4> QED
        BY <3>3, <4>1, <4>2
    <3>6. u.slots[q].next = Null <=> \A s \in B : ~ In(Q, q, s)
      <4>1. \A s \in A : In(Q, q, s) <=> In(R, q, s)
        BY <3>1
      <4>2. ~ In(Q, q, p)
        BY <3>1
      <4>3. (\A s \in B : ~ In(Q, q, s)) <=> \A s \in A : ~ In(R, q, s)
        BY <3>3, <3>4, <4>1, <4>2
      <4> QED
        BY <3>1, <3>2, <4>3
    <3> QED
      BY <3>1, <3>2, <3>4, <3>5, <3>6
  <2> QED
    BY <2>1, <2>2
<1>6. ASSUME NEW q \in B
      PROVE  /\ u.slots[q].prev \in B \union {Null}
             /\ u.slots[q].prev = Null <=> \A s \in B : ~ In(Q, s, q)
             /\ \A s \in B : u.slots[q].prev = s <=> Adjacent(B, Q, s, q)
  <2>1. CASE q = p
    BY <1>0, <1>1, <1>2, <1>4, <2>1 DEF Adjacent, Ordered
  <2>2. CASE q # p
    <3>0. /\ q \in A /\ t.slots[q].prev \in A \union {Null}
          /\ t.slots[q].prev = Null <=> \A s \in A : ~ In(R, s, q)
          /\ \A s \in A : t.slots[q].prev = s <=> Adjacent(A, R, s, q)
      BY <2>2 DEF Linked
    <3>1. CASE q = t.head
      <4>1. u.slots[q].prev = p
        BY <2>2, <3>1
      <4>2. \A s \in B : s \in A \/ s = p
        OBVIOUS
      <4>3. \A s \in A : s # p /\ s \in B
        OBVIOUS
      <4>4. p \in B /\ In(Q, p, q)
        BY <2>2
      <4> HIDE DEF B
      <4>5. \A s \in B : u.slots[q].prev = s <=> Adjacent(B, Q, s, q)
        <5>1. \A s \in A : ~ Adjacent(A, R, s, q)
          BY <1>2, <3>0, <3>1 DEF Adjacent
        <5>2. \A s \in A : ~ Adjacent(B, Q, s, q)
          BY <1>3, <3>0, <5>1
        <5>3. Adjacent(B, Q, p, q)
          BY <1>4, <3>0, <3>1
        <5> QED
          BY <4>1, <4>2, <4>3, <5>2, <5>3
      <4>6. u.slots[q].prev = Null <=> \A s \in B : ~ In(Q, s, q)
        BY <1>0, <4>1, <4>4
      <4> QED
        BY <4>1, <4>4, <4>5, <4>6
    <3>2. CASE q # t.head
      <4>1. u.slots[q].prev = t.slots[q].prev
        BY <2>2, <3>2
      <4>2. \A s \in B : s \in A \/ s = p
        OBVIOUS
      <4>3. \A s \in A : s # p /\ s \in B
        OBVIOUS
      <4> HIDE DEF B
      <4>5. ASSUME NEW s \in B PROVE u.slots[q].prev = s <=> Adjacent(B, Q, s, q)
        <5>1. CASE s \in A
          BY <1>3, <3>0, <4>1, <5>1
        <5>2. CASE s = p
          BY <1>0, <1>4, <3>0, <3>2, <4>1, <5>2
        <5> QED
          BY <4>2, <5>1, <5>2
      <4>6. u.slots[q].prev # Null /\ \E s \in B : In(Q, s, q)
        BY <1>0, <1>2, <3>0, <3>2, <4>1, <4>3
      <4> QED
        BY <3>0, <4>1, <4>3, <4>5, <4>6
    <3> QED
      BY <3>1, <3>2
  <2> QED
    BY <2>1, <2>2
<1>7. /\ \A q \in B : u.head = q <=> \A s \in B : ~ In(Q, s, q)
      /\ u.head \in B
  BY <1>0
<1>8. /\ \A q \in B : u.tail = q <=> \A s \in B : ~ In(Q, q, s)
      /\ u.tail \in B
  BY <1>0, <1>2
<1>9. p \in B
  OBVIOUS
<1> HIDE DEF B
<1>10. Linked(u, B, Q)
  BY <1>0, <1>5, <1>6, <1>7, <1>8, <1>9 DEF Linked
<1> QED
  BY <1>1, <1>10 DEF B

(***************************************************************************)
(* A record linked in behind the tail comes after all others.              *)
(***************************************************************************)
LEMMA AppendLinked ==
  ASSUME NEW t, NEW u, NEW A \in SUBSET Nat, NEW R, NEW Q, Ordered(A, R), Linked(t, A, R),
         NEW p \in Nat \ A,
         \A q \in A \union {p} :
            /\ u.slots[q].next = IF q = p THEN Null
                                 ELSE IF q = t.tail THEN p ELSE t.slots[q].next
            /\ u.slots[q].prev = IF q = p THEN t.tail ELSE t.slots[q].prev,
         u.head = IF t.head = Null THEN p ELSE t.head, u.tail = p,
         \A q, s \in A : In(Q, q, s) <=> In(R, q, s),
         ~ In(Q, p, p),
         \A q \in A : In(Q, q, p) /\ ~ In(Q, p, q)
  PROVE  Ordered(A \union {p}, Q) /\ Linked(u, A \union {p}, Q)
<1> DEFINE B == A \union {p}
<1>0. Null \notin A /\ A \subseteq B /\ p \notin A /\ p # Null
  OBVIOUS
<1>1. Ordered(B, Q)
  BY DEF Ordered
<1>2. /\ t.head \in A \union {Null} /\ t.tail \in A \union {Null}
      /\ A = {} <=> t.head = Null
      /\ A = {} <=> t.tail = Null
      /\ \A q \in A : t.head = q <=> \A s \in A : ~ In(R, s, q)
      /\ \A q \in A : t.tail = q <=> \A s \in A : ~ In(R, q, s)
  BY DEF Linked
<1>3. \A q, s \in A : Adjacent(B, Q, q, s) <=> Adjacent(A, R, q, s)
  BY DEF Adjacent
<1>4. \A q \in A : /\ ~ Adjacent(B, Q, p, q)
                   /\ Adjacent(B, Q, q, p) <=> q = t.tail
  BY <1>0, <1>2 DEF Adjacent, Ordered
<1>5. ASSUME NEW q \in B
      PROVE  /\ u.slots[q].prev \in B \union {Null}
             /\ u.slots[q].prev = Null <=> \A s \in B : ~ In(Q, s, q)
             /\ \A s \in B : u.slots[q].prev = s <=> Adjacent(B, Q, s, q)
  <2>1. CASE q = p
    BY <1>0, <1>1, <1>2, <1>4, <2>1 DEF Adjacent, Ordered
  <2>2. CASE q # p
    <3>1. /\ q \in A /\ t.slots[q].prev \in A \union {Null}
          /\ t.slots[q].prev = Null <=> \A s \in A : ~ In(R, s, q)
          /\ \A s \in A : t.slots[q].prev = s <=> Adjacent(A, R, s, q)
      BY <2>2 DEF Linked
    <3>2. u.slots[q].prev = t.slots[q].prev
      BY <2>2
    <3>3. \A s \in B : s \in A \/ s = p
      OBVIOUS
    <3>4. \A s \in A : s # p /\ s \in B
      OBVIOUS
    <3> HIDE DEF B
    <3>5. ASSUME NEW s \in B PROVE u.slots[q].prev = s <=> Adjacent(B, Q, s, q)
      <4>1. CASE s \in A
        BY <1>3, <3>1, <3>2, <4>1
      <4>2. CASE s = p
        BY <1>0, <1>4, <3>1, <3>2, <4>2
      <4> QED
        BY <3>3, <4>1, <4>2
    <3>6. u.slots[q].prev = Null <=> \A s \in B : ~ In(Q, s, q)
      BY <1>0, <3>1, <3>2, <3>3, <3>4
    <3> QED
      BY <3>1, <3>2, <3>4, <3>5, <3>6
  <2> QED
    BY <2>1, <2>2
<1>6. ASSUME NEW q \in B
      PROVE  /\ u.slots[q].next \in B \union {Null}
             /\ u.slots[q].next = Null <=> \A s \in B : ~ In(Q, q, s)
             /\ \A s \in B : u.slots[q].next = s <=> Adjacent(B, Q, q, s)
  <2>1. CASE q = p
    BY <1>0, <1>1, <1>2, <1>4, <2>1 DEF Adjacent, Ordered
  <2>2. CASE q # p
    <3>0. /\ q \in A /\ t.slots[q].next \in A \union {Null}
          /\ t.slots[q].next = Null <=> \A s \in A : ~ In(R, q, s)
          /\ \A s \in A : t.slots[q].next = s <=> Adjacent(A, R, q, s)
      BY <2>2 DEF Linked
    <3>1. CASE q = t.tail
      <4>1. u.slots[q].next = p
        BY <2>2, <3>1
      <4>2. \A s \in B : s \in A \/ s = p
        OBVIOUS
      <4>3. \A s \in A : s # p /\ s \in B
        OBVIOUS
      <4>4. p \in B /\ In(Q, q, p)
        BY <2>2
      <4> HIDE DEF B
      <4>5. \A s \in B : u.slots[q].next = s <=> Adjacent(B, Q, q, s)
        <5>1. \A s \in A : ~ Adjacent(A, R, q, s)
          BY <1>2, <3>0, <3>1 DEF Adjacent
        <5>2. \A s \in A : ~ Adjacent(B, Q, q, s)
          BY <1>3, <3>0, <5>1
        <5>3. Adjacent(B, Q, q, p)
          BY <1>4, <3>0, <3>1
        <5> QED
          BY <4>1, <4>2, <4>3, <5>2, <5>3
      <4>6. u.slots[q].next = Null <=> \A s \in B : ~ In(Q, q, s)
        BY <1>0, <4>1, <4>4
      <4> QED
        BY <4>1, <4>4, <4>5, <4>6
    <3>2. CASE q # t.tail
      <4>1. u.slots[q].next = t.slots[q].next
        BY <2>2, <3>2
      <4>2. \A s \in B : s \in A \/ s = p
        OBVIOUS
      <4>3. \A s \in A : s # p /\ s \in B
        OBVIOUS
      <4> HIDE DEF B
      <4>5. \A s \in B : u.slots[q].next = s <=> Adjacent(B, Q, q, s)
        BY <1>3, <1>4, <3>0, <3>2, <4>1, <4>2, <4>3
      <4>6. u.slots[q].next # Null /\ \E s \in B : In(Q, q, s)
        BY <1>0, <1>2, <3>0, <3>2, <4>1, <4>3
      <4> QED
        BY <3>0, <4>1, <4>3, <4>5, <4>6
    <3> QED
      BY <3>1, <3>2
  <2> QED
    BY <2>1, <2>2
<1>7. /\ \A q \in B : u.tail = q <=> \A s \in B : ~ In(Q, q, s)
      /\ u.tail \in B
  BY <1>0
<1>8. /\ \A q \in B : u.head = q <=> \A s \in B : ~ In(Q, s, q)
      /\ u.head \in B
  BY <1>0, <1>2
<1>9. p \in B
  OBVIOUS
<1> HIDE DEF B
<1>10. Linked(u, B, Q)
  BY <1>0, <1>5, <1>6, <1>7, <1>8, <1>9 DEF Linked
<1> QED
  BY <1>1, <1>10 DEF B

-----------------------------------------------------------------------------
(* Probing.                                                                *)

(***************************************************************************)
(* The home slot of a key, its hash reduced to the size of the table, is a *)
(* slot of the table.                                                      *)
(***************************************************************************)
LEMMA HomeIsSlot ==
  ASSUME NEW t, IsTable(t), NEW k \in Keys
  PROVE  /\ Home(t, k) \in Slots(t) /\ Home(t, k) \in Nat /\ t.size \in Nat
         /\ Slots(t) \subseteq Nat
<1>1. t.size \in Nat \ {0} /\ Hash[k] \in Nat
  BY StoreAssumption DEF IsTable
<1> QED
  BY <1>1 DEF Home, Slots

(***************************************************************************)
(* Probing meets any two slots in one order.                               *)
(***************************************************************************)
LEMMA BeforeTotal ==
  ASSUME NEW h \in Nat, NEW p \in Nat, NEW q \in Nat
  PROVE  ~ Before(h, p, p) /\ (p # q => Before(h, p, q) \/ Before(h, q, p))
BY DEF Before

(***************************************************************************)
(* A probe stops at one slot.                                              *)
(***************************************************************************)
LEMMA OnePosition ==
  ASSUME NEW t, IsTable(t), NEW k \in Keys, NEW p, NEW q,
         AtPosition(t, k, p), AtPosition(t, k, q)
  PROVE  p = q
<1> DEFINE h == Home(t, k)
<1>1. p \in Slots(t) /\ q \in Slots(t) /\ h \in Nat /\ p \in Nat /\ q \in Nat
  BY HomeIsSlot DEF AtPosition
<1> HIDE DEF h
<1>2. p # q => Before(h, p, q) \/ Before(h, q, p)
  BY <1>1, BeforeTotal
<1> QED
  BY <1>1, <1>2 DEF AtPosition, h

(***************************************************************************)
(* A probe stops when the table has an empty slot.                         *)
(***************************************************************************)
LEMMA PositionExists ==
  ASSUME NEW t, IsTable(t), NEW k \in Keys, NEW e \in Slots(t), t.slots[e].state = "EMPTY"
  PROVE  \E p \in Slots(t) : AtPosition(t, k, p)
<1> DEFINE h == Home(t, k)
           D(q) == IF h <= q THEN q - h ELSE q + t.size - h
           S == {q \in Slots(t) : Stops(t.slots[q], k)}
           T == {d \in Nat : \E q \in S : d = D(q)}
<1>1. h \in Slots(t) /\ h \in Nat /\ t.size \in Nat /\ Slots(t) \subseteq Nat
  BY HomeIsSlot
<1> HIDE DEF h
<1>2. \A q \in Slots(t) : D(q) \in Nat
  BY <1>1 DEF Slots
<1>3. \A p, q \in Slots(t) : Before(h, q, p) => ~ (D(p) <= D(q))
  BY <1>1 DEF Slots, Before
<1> HIDE DEF D
<1>4. e \in S
  BY DEF Stops
<1>5. D(e) \in T
  BY <1>2, <1>4
<1>6. PICK d \in T : \A f \in T : d <= f
  <2>1. T \in SUBSET Nat /\ T # {}
    BY <1>5
  <2> HIDE DEF T
  <2> QED
    BY <2>1, LeastNumber
<1>7. PICK p \in S : d = D(p)
  OBVIOUS
<1>8. \A q \in S : D(p) <= D(q)
  BY <1>2, <1>6, <1>7
<1>9. AtPosition(t, k, p)
  BY <1>3, <1>8 DEF AtPosition, h
<1> QED
  BY <1>9

(***************************************************************************)
(* Every live record is found by its key, in any table.                    *)
(***************************************************************************)
Found(t) == \A p \in Alive(t) : AtPosition(t, t.slots[p].key, p)

TypedRecords(t) == \A p \in Alive(t) : t.slots[p].key \in Keys /\ t.slots[p].value \in Values

RecordsBut(t, u, p) ==
  /\ u.size = t.size
  /\ \A q \in Slots(t) \ {p} : /\ u.slots[q].state = t.slots[q].state
                               /\ u.slots[q].key = t.slots[q].key
                               /\ u.slots[q].value = t.slots[q].value

(***************************************************************************)
(* No key is stored twice.                                                 *)
(***************************************************************************)
LEMMA KeysDistinct ==
  ASSUME NEW t, IsTable(t), TypedRecords(t), Found(t), NEW p \in Alive(t), NEW q \in Alive(t),
         t.slots[p].key = t.slots[q].key
  PROVE  p = q
BY OnePosition DEF TypedRecords, Found

(***************************************************************************)
(* A tombstone in place of a record leaves all other records where a probe *)
(* finds them.                                                             *)
(***************************************************************************)
LEMMA FoundAfterRemove ==
  ASSUME NEW t, NEW u, NEW p \in Slots(t), Found(t), RecordsBut(t, u, p),
         u.slots[p].state = "DEAD"
  PROVE  Found(u) /\ Alive(u) = Alive(t) \ {p} /\ Dead(u) = Dead(t) \union {p}
<1>1. Slots(u) = Slots(t) /\ \A k : Home(u, k) = Home(t, k)
  BY DEF RecordsBut, Slots, Home
<1>2. Alive(u) = Alive(t) \ {p} /\ Dead(u) = Dead(t) \union {p}
  BY <1>1 DEF Alive, Dead, RecordsBut
<1>3. ASSUME NEW q \in Slots(t), NEW k, Stops(u.slots[q], k) PROVE Stops(t.slots[q], k)
  BY <1>3 DEF Stops, RecordsBut
<1>4. ASSUME NEW q \in Alive(u) PROVE AtPosition(u, u.slots[q].key, q)
  <2>1. q \in Alive(t) /\ q \in Slots(t) /\ q # p /\ u.slots[q].key = t.slots[q].key
    BY <1>1, <1>2 DEF Alive, RecordsBut
  <2>2. AtPosition(t, t.slots[q].key, q)
    BY <2>1 DEF Found
  <2>3. u.slots[q].state = "ALIVE"
    BY DEF Alive
  <2>4. \A s \in Slots(t) : Before(Home(t, t.slots[q].key), s, q) => ~ Stops(u.slots[s], t.slots[q].key)
    BY <1>3, <2>2 DEF AtPosition
  <2> QED
    BY <1>1, <2>1, <2>3, <2>4 DEF AtPosition, Stops
<1> QED
  BY <1>2, <1>4 DEF Found

(***************************************************************************)
(* A new value, or new links, of a record change no probe.                 *)
(***************************************************************************)
LEMMA FoundAfterUpdate ==
  ASSUME NEW t, NEW u, NEW p \in Slots(t), Found(t), RecordsBut(t, u, p),
         u.slots[p].state = t.slots[p].state, u.slots[p].key = t.slots[p].key
  PROVE  Found(u) /\ Alive(u) = Alive(t) /\ Dead(u) = Dead(t)
<1>1. Slots(u) = Slots(t) /\ \A k : Home(u, k) = Home(t, k)
  BY DEF RecordsBut, Slots, Home
<1>2. \A q \in Slots(t) : u.slots[q].state = t.slots[q].state /\ u.slots[q].key = t.slots[q].key
  BY DEF RecordsBut
<1>3. Alive(u) = Alive(t) /\ Dead(u) = Dead(t)
  BY <1>1, <1>2 DEF Alive, Dead
<1> QED
  BY <1>1, <1>2, <1>3 DEF Found, AtPosition, Stops, Alive

(***************************************************************************)
(* A record put where the probe of its key stopped is found there, and     *)
(* lengthens the probe of no other record; its key was not in the table.   *)
(***************************************************************************)
LEMMA FoundAfterAdd ==
  ASSUME NEW t, IsTable(t), NEW u, NEW k \in Keys, NEW p, Found(t), RecordsBut(t, u, p),
         AtPosition(t, k, p), t.slots[p].state = "EMPTY",
         u.slots[p].state = "ALIVE", u.slots[p].key = k
  PROVE  /\ Found(u) /\ Alive(u) = Alive(t) \union {p} /\ Dead(u) = Dead(t)
         /\ \A q \in Alive(t) : t.slots[q].key # k
<1>0. p \in Slots(t) /\ Home(t, k) \in Nat /\ p \in Nat
  BY HomeIsSlot DEF AtPosition
<1>1. Slots(u) = Slots(t) /\ \A j : Home(u, j) = Home(t, j)
  BY DEF RecordsBut, Slots, Home
<1>2. Alive(u) = Alive(t) \union {p} /\ Dead(u) = Dead(t)
  BY <1>0, <1>1 DEF Alive, Dead, RecordsBut
<1>3. ASSUME NEW q \in Slots(t), q # p, NEW j PROVE Stops(u.slots[q], j) <=> Stops(t.slots[q], j)
  BY <1>3 DEF Stops, RecordsBut
<1>4. ASSUME NEW q \in Alive(t) PROVE AtPosition(u, u.slots[q].key, q)
  <2>1. q \in Slots(t) /\ q # p /\ u.slots[q].key = t.slots[q].key /\ u.slots[q].state = "ALIVE"
    BY DEF Alive, RecordsBut
  <2>2. AtPosition(t, t.slots[q].key, q)
    BY DEF Found
  <2>3. ~ Before(Home(t, t.slots[q].key), p, q)
    BY <1>0, <2>2 DEF AtPosition, Stops
  <2>4. \A s \in Slots(t) : Before(Home(t, t.slots[q].key), s, q) => ~ Stops(u.slots[s], t.slots[q].key)
    BY <1>3, <2>2, <2>3 DEF AtPosition
  <2> QED
    BY <1>1, <2>1, <2>4 DEF AtPosition, Stops
<1>5. AtPosition(u, k, p)
  <2>1. ~ Before(Home(t, k), p, p)
    BY <1>0, BeforeTotal
  <2>2. \A q \in Slots(t) : Before(Home(t, k), q, p) => ~ Stops(u.slots[q], k)
    BY <1>3, <2>1 DEF AtPosition
  <2> QED
    BY <1>0, <1>1, <2>2 DEF AtPosition, Stops
<1>6. \A q \in Alive(t) : t.slots[q].key # k
  BY OnePosition DEF Found, Alive
<1> QED
  BY <1>2, <1>4, <1>5, <1>6 DEF Found

-----------------------------------------------------------------------------
(* A well-formed table, whose list is in the order rec of its keys.        *)

SlotOrder(t, rec) ==
  {e \in Alive(t) \X Alive(t) : <<t.slots[e[1]].key, t.slots[e[2]].key>> \in rec}

ListOk(t, rec) ==
  Ordered(Alive(t), SlotOrder(t, rec)) /\ Linked(t, Alive(t), SlotOrder(t, rec))

GoodTable(t, rec) == IsTable(t) /\ TypedRecords(t) /\ Found(t) /\ ListOk(t, rec)

(***************************************************************************)
(* The order of the slots is the order of use of their keys.               *)
(***************************************************************************)
LEMMA OrderIn ==
  ASSUME NEW t, NEW rec, NEW p \in Alive(t), NEW q \in Alive(t)
  PROVE  In(SlotOrder(t, rec), p, q) <=> In(rec, t.slots[p].key, t.slots[q].key)
BY DEF In, SlotOrder

(***************************************************************************)
(* A list is a matter of the links and the order of its slots only.        *)
(***************************************************************************)
LEMMA SameList ==
  ASSUME NEW t, NEW u, NEW A, NEW R, NEW Q, Ordered(A, R), Linked(t, A, R),
         \A p \in A : u.slots[p].next = t.slots[p].next /\ u.slots[p].prev = t.slots[p].prev,
         u.head = t.head, u.tail = t.tail,
         \A p, q \in A : In(Q, p, q) <=> In(R, p, q)
  PROVE  Ordered(A, Q) /\ Linked(u, A, Q)
<1>1. Ordered(A, Q)
  BY DEF Ordered
<1>2. \A p, q \in A : Adjacent(A, Q, p, q) <=> Adjacent(A, R, p, q)
  BY DEF Adjacent
<1> QED
  BY <1>1, <1>2 DEF Linked

(***************************************************************************)
(* What is left of the order of use when a key is forgotten.               *)
(***************************************************************************)
LEMMA WithoutIn ==
  ASSUME NEW rec, NEW k, NEW a, NEW b
  PROVE  In(Without(rec, k), a, b) <=> In(rec, a, b) /\ a # k /\ b # k
BY DEF Without, In

(***************************************************************************)
(* The order of use after a key is used: the key comes first.              *)
(***************************************************************************)
LEMMA TouchIn ==
  ASSUME NEW rec, NEW k, NEW ks, NEW a, NEW b
  PROVE  In(Touch(rec, k, ks), a, b) <=>
            \/ In(rec, a, b) /\ a # k /\ b # k
            \/ a = k /\ b \in ks /\ b # k
BY WithoutIn DEF Touch, In

(***************************************************************************)
(* Live records are in slots of the table, and no slot is the null         *)
(* pointer.                                                                *)
(***************************************************************************)
LEMMA AliveSlots ==
  ASSUME NEW t, IsTable(t)
  PROVE  /\ Alive(t) \in SUBSET Nat /\ Alive(t) \subseteq Slots(t) /\ Null \notin Slots(t)
         /\ \A p \in Slots(t) : t.slots[p] \in RecordType
BY DEF IsTable, Alive, Slots

(***************************************************************************)
(* removeEntry.                                                            *)
(***************************************************************************)
LEMMA RemoveGood ==
  ASSUME NEW t, NEW rec, GoodTable(t, rec), NEW p \in Alive(t)
  PROVE  LET u == removeEntry(t, p)
             k == t.slots[p].key
         IN /\ GoodTable(u, Without(rec, k)) /\ RecordsBut(t, u, p)
            /\ Alive(u) = Alive(t) \ {p} /\ Dead(u) = Dead(t) \union {p}
            /\ u.slots[p].next = Null
<1> DEFINE k == t.slots[p].key
           A == Alive(t)
           R == SlotOrder(t, rec)
           d == Record("DEAD", NoKey, NoValue, Null, Null)
           v == removeFromList(t, p)
           u == WithSlot(v, p, d)
           Q == SlotOrder(u, Without(rec, k))
<1>0. removeEntry(t, p) = u
  BY DEF removeEntry, WithSlot
<1>1. /\ IsTable(t) /\ TypedRecords(t) /\ Found(t) /\ Ordered(A, R) /\ Linked(t, A, R)
      /\ A \in SUBSET Nat /\ A \subseteq Slots(t) /\ p \in Slots(t) /\ Null \notin Slots(t)
  BY AliveSlots DEF GoodTable, ListOk
<1>2. /\ IsTable(v) /\ SameRecords(t, v)
      /\ \A q \in Slots(t) :
           /\ v.slots[q].next = IF q = t.slots[p].prev THEN t.slots[p].next ELSE t.slots[q].next
           /\ v.slots[q].prev = IF q = t.slots[p].next THEN t.slots[p].prev ELSE t.slots[q].prev
      /\ v.head = IF t.slots[p].prev = Null THEN t.slots[p].next ELSE t.head
      /\ v.tail = IF t.slots[p].next = Null THEN t.slots[p].prev ELSE t.tail
  BY <1>1, RemoveShape
<1>3. Slots(v) = Slots(t)
  BY <1>2 DEF SameRecords, Slots
<1> HIDE DEF v
<1>4. Linked(v, A \ {p}, R)
  <2> HIDE DEF A, R
  <2> QED
    BY <1>1, <1>2, RemoveLinked DEF A
<1>5. d \in RecordType /\ d.prev = Null /\ d.next = Null /\ d.state = "DEAD"
  BY DEF Record, RecordType
<1> HIDE DEF d
<1>6. /\ IsTable(u) /\ u.size = v.size /\ u.head = v.head /\ u.tail = v.tail
      /\ Slots(u) = Slots(t)
      /\ \A q \in Slots(t) : u.slots[q] = IF q = p THEN d ELSE v.slots[q]
  BY <1>1, <1>2, <1>3, <1>5, SetSlot
<1> HIDE DEF u
<1>7. RecordsBut(t, u, p) /\ u.slots[p].state = "DEAD" /\ u.slots[p].next = Null
  BY <1>1, <1>2, <1>5, <1>6 DEF RecordsBut, SameRecords
<1>8. Found(u) /\ Alive(u) = A \ {p} /\ Dead(u) = Dead(t) \union {p}
  BY <1>1, <1>7, FoundAfterRemove
<1>9. \A q \in A \ {p} : u.slots[q].key = t.slots[q].key /\ u.slots[q].value = t.slots[q].value
  BY <1>1, <1>7 DEF RecordsBut
<1>10. TypedRecords(u)
  BY <1>1, <1>8, <1>9 DEF TypedRecords
<1>11. ASSUME NEW q \in A \ {p}, NEW s \in A \ {p} PROVE In(Q, q, s) <=> In(R, q, s)
  <2>1. t.slots[q].key # k /\ t.slots[s].key # k
    BY <1>1, KeysDistinct
  <2>2. In(R, q, s) <=> In(rec, t.slots[q].key, t.slots[s].key)
    BY OrderIn
  <2>3. In(Q, q, s) <=> In(Without(rec, k), u.slots[q].key, u.slots[s].key)
    BY <1>8, OrderIn
  <2> QED
    BY <1>9, <2>1, <2>2, <2>3, WithoutIn
<1>12. Ordered(A \ {p}, Q) /\ Linked(u, A \ {p}, Q)
  <2>1. Ordered(A \ {p}, R)
    BY <1>1 DEF Ordered
  <2>2. /\ \A q \in A \ {p} : u.slots[q].next = v.slots[q].next /\ u.slots[q].prev = v.slots[q].prev
        /\ u.head = v.head /\ u.tail = v.tail
    BY <1>1, <1>6
  <2> DEFINE B == A \ {p}
  <2> HIDE DEF A, R, Q, B
  <2> QED
    BY <1>4, <1>11, <2>1, <2>2, SameList DEF B
<1> QED
  BY <1>0, <1>6, <1>7, <1>8, <1>10, <1>12 DEF GoodTable, ListOk

(***************************************************************************)
(* accessEntry.                                                            *)
(***************************************************************************)
LEMMA AccessGood ==
  ASSUME NEW t, NEW rec, GoodTable(t, rec), NEW p \in Alive(t)
  PROVE  LET u == accessEntry(t, p)
         IN /\ GoodTable(u, Touch(rec, t.slots[p].key, KeysOf(t))) /\ SameRecords(t, u)
            /\ Alive(u) = Alive(t) /\ Dead(u) = Dead(t)
<1> DEFINE k == t.slots[p].key
           A == Alive(t)
           R == SlotOrder(t, rec)
           v == removeFromList(t, p)
           u == addToFront(v, p)
           Q == SlotOrder(u, Touch(rec, k, KeysOf(t)))
<1>0. accessEntry(t, p) = u
  BY DEF accessEntry
<1>1. /\ IsTable(t) /\ TypedRecords(t) /\ Found(t) /\ Ordered(A, R) /\ Linked(t, A, R)
      /\ A \in SUBSET Nat /\ A \subseteq Slots(t) /\ p \in Slots(t) /\ Null \notin Slots(t)
  BY AliveSlots DEF GoodTable, ListOk
<1>2. /\ IsTable(v) /\ SameRecords(t, v)
      /\ \A q \in Slots(t) :
           /\ v.slots[q].next = IF q = t.slots[p].prev THEN t.slots[p].next ELSE t.slots[q].next
           /\ v.slots[q].prev = IF q = t.slots[p].next THEN t.slots[p].prev ELSE t.slots[q].prev
      /\ v.head = IF t.slots[p].prev = Null THEN t.slots[p].next ELSE t.head
      /\ v.tail = IF t.slots[p].next = Null THEN t.slots[p].prev ELSE t.tail
  BY <1>1, RemoveShape
<1>3. Slots(v) = Slots(t)
  BY <1>2 DEF SameRecords, Slots
<1> HIDE DEF v
<1>4. Linked(v, A \ {p}, R)
  <2> HIDE DEF A, R
  <2> QED
    BY <1>1, <1>2, RemoveLinked DEF A
<1>5. v.head # p
  BY <1>1, <1>4 DEF Linked
<1>6. /\ IsTable(u) /\ SameRecords(v, u)
      /\ \A q \in Slots(t) :
           /\ u.slots[q].next = IF q = p THEN v.head ELSE v.slots[q].next
           /\ u.slots[q].prev = IF q = p THEN Null
                                ELSE IF q = v.head THEN p ELSE v.slots[q].prev
      /\ u.head = p
      /\ u.tail = IF v.tail = Null THEN p ELSE v.tail
  BY <1>1, <1>2, <1>3, <1>5, FrontShape
<1> HIDE DEF u
<1>7. SameRecords(t, u)
  BY <1>2, <1>3, <1>6 DEF SameRecords
<1>8. RecordsBut(t, u, p) /\ u.slots[p].state = t.slots[p].state /\ u.slots[p].key = t.slots[p].key
  BY <1>1, <1>7 DEF RecordsBut, SameRecords
<1>9. Found(u) /\ Alive(u) = A /\ Dead(u) = Dead(t)
  BY <1>1, <1>8, FoundAfterUpdate
<1>10. \A q \in A : u.slots[q].key = t.slots[q].key /\ u.slots[q].value = t.slots[q].value
  BY <1>1, <1>7 DEF SameRecords
<1>11. TypedRecords(u)
  BY <1>1, <1>9, <1>10 DEF TypedRecords
<1>12. \A q \in A \ {p} : t.slots[q].key # k /\ t.slots[q].key \in KeysOf(t)
  BY <1>1, KeysDistinct DEF KeysOf
<1>13. ASSUME NEW q \in A, NEW s \in A
       PROVE  /\ In(Q, q, s) <=> In(Touch(rec, k, KeysOf(t)), t.slots[q].key, t.slots[s].key)
              /\ In(R, q, s) <=> In(rec, t.slots[q].key, t.slots[s].key)
  <2>1. In(R, q, s) <=> In(rec, t.slots[q].key, t.slots[s].key)
    BY OrderIn
  <2>2. In(Q, q, s) <=> In(Touch(rec, k, KeysOf(t)), u.slots[q].key, u.slots[s].key)
    BY <1>9, OrderIn
  <2> QED
    BY <1>10, <2>1, <2>2
<1>14. /\ \A q, s \in A \ {p} : In(Q, q, s) <=> In(R, q, s)
       /\ ~ In(Q, p, p)
       /\ \A q \in A \ {p} : In(Q, p, q) /\ ~ In(Q, q, p)
  <2> DEFINE ks == KeysOf(t)
  <2>1. ASSUME NEW q \in A, NEW s \in A
        PROVE  In(Q, q, s) <=> \/ In(R, q, s) /\ t.slots[q].key # k /\ t.slots[s].key # k
                               \/ t.slots[q].key = k /\ t.slots[s].key \in ks /\ t.slots[s].key # k
    <3> HIDE DEF ks, k, Q, R, A
    <3> QED
      BY <1>13, TouchIn DEF ks
  <2> HIDE DEF ks, Q, R, A
  <2>2. p \in A
    BY DEF A
  <2> QED
    BY <1>12, <2>1, <2>2 DEF ks
<1>15. Ordered((A \ {p}) \union {p}, Q) /\ Linked(u, (A \ {p}) \union {p}, Q)
  <2>1. Ordered(A \ {p}, R)
    BY <1>1 DEF Ordered
  <2> DEFINE B == A \ {p}
  <2>2. /\ B \in SUBSET Nat /\ p \in Nat \ B
        /\ \A q \in B \union {p} :
            /\ u.slots[q].next = IF q = p THEN v.head ELSE v.slots[q].next
            /\ u.slots[q].prev = IF q = p THEN Null
                                 ELSE IF q = v.head THEN p ELSE v.slots[q].prev
    BY <1>1, <1>6
  <2>3. /\ Ordered(B, R) /\ Linked(v, B, R)
        /\ \A q, s \in B : In(Q, q, s) <=> In(R, q, s)
        /\ \A q \in B : In(Q, p, q) /\ ~ In(Q, q, p)
    BY <1>4, <1>14, <2>1
  <2> HIDE DEF A, R, Q, B
  <2>4. Ordered(B \union {p}, Q) /\ Linked(u, B \union {p}, Q)
    BY <1>6, <1>14, <2>2, <2>3, FrontLinked
  <2> QED
    BY <2>4 DEF B
<1>16. (A \ {p}) \union {p} = A
  OBVIOUS
<1> QED
  BY <1>0, <1>6, <1>7, <1>9, <1>11, <1>15, <1>16 DEF GoodTable, ListOk

(***************************************************************************)
(* A new value for a live record.                                          *)
(***************************************************************************)
WithValue(t, p, v) == [t EXCEPT !.slots[p].value = v]

(***************************************************************************)
(* A new value for a record keeps the table good.                          *)
(***************************************************************************)
LEMMA ValueGood ==
  ASSUME NEW t, NEW rec, GoodTable(t, rec), NEW p \in Alive(t), NEW x \in Values
  PROVE  LET u == WithValue(t, p, x)
         IN /\ GoodTable(u, rec) /\ RecordsBut(t, u, p)
            /\ Alive(u) = Alive(t) /\ Dead(u) = Dead(t)
            /\ u.slots[p].key = t.slots[p].key /\ u.slots[p].value = x
<1> DEFINE A == Alive(t)
           R == SlotOrder(t, rec)
           r == [t.slots[p] EXCEPT !.value = x]
           u == WithSlot(t, p, r)
           Q == SlotOrder(u, rec)
<1>0. WithValue(t, p, x) = u
  BY DEF WithValue, WithSlot
<1>1. /\ IsTable(t) /\ TypedRecords(t) /\ Found(t) /\ Ordered(A, R) /\ Linked(t, A, R)
      /\ A \in SUBSET Nat /\ A \subseteq Slots(t) /\ p \in Slots(t) /\ Null \notin Slots(t)
      /\ t.slots[p] \in RecordType
  BY AliveSlots DEF GoodTable, ListOk
<1>2. /\ r \in RecordType /\ r.prev = t.slots[p].prev /\ r.next = t.slots[p].next
      /\ r.state = t.slots[p].state /\ r.key = t.slots[p].key /\ r.value = x
  BY <1>1 DEF RecordType
<1>3. r.prev \in Slots(t) \union {Null} /\ r.next \in Slots(t) \union {Null}
  BY <1>1, <1>2 DEF IsTable
<1> HIDE DEF r
<1>4. /\ IsTable(u) /\ u.size = t.size /\ u.head = t.head /\ u.tail = t.tail
      /\ \A q \in Slots(t) : u.slots[q] = IF q = p THEN r ELSE t.slots[q]
  BY <1>1, <1>2, <1>3, SetSlot
<1> HIDE DEF u
<1>5. RecordsBut(t, u, p) /\ u.slots[p].state = t.slots[p].state /\ u.slots[p].key = t.slots[p].key
  BY <1>1, <1>2, <1>4 DEF RecordsBut
<1>6. Found(u) /\ Alive(u) = A /\ Dead(u) = Dead(t)
  BY <1>1, <1>5, FoundAfterUpdate
<1>7. \A q \in A : /\ u.slots[q].key = t.slots[q].key
                   /\ u.slots[q].next = t.slots[q].next /\ u.slots[q].prev = t.slots[q].prev
                   /\ u.slots[q].value = IF q = p THEN x ELSE t.slots[q].value
  BY <1>1, <1>2, <1>4
<1>8. TypedRecords(u)
  BY <1>1, <1>6, <1>7 DEF TypedRecords
<1>9. ASSUME NEW q \in A, NEW s \in A PROVE In(Q, q, s) <=> In(R, q, s)
  <2>1. In(R, q, s) <=> In(rec, t.slots[q].key, t.slots[s].key)
    BY OrderIn
  <2>2. In(Q, q, s) <=> In(rec, u.slots[q].key, u.slots[s].key)
    BY <1>6, OrderIn
  <2> QED
    BY <1>7, <2>1, <2>2
<1>10. Ordered(A, Q) /\ Linked(u, A, Q)
  <2> HIDE DEF A, R, Q
  <2>1. \A q \in A : u.slots[q].next = t.slots[q].next /\ u.slots[q].prev = t.slots[q].prev
    BY <1>7, Zenon
  <2>2. u.head = t.head /\ u.tail = t.tail
    BY <1>4, Zenon
  <2>3. \A q, s \in A : In(Q, q, s) <=> In(R, q, s)
    BY <1>9, Zenon
  <2> QED
    BY <1>1, <2>1, <2>2, <2>3, SameList, Zenon
<1> QED
  BY <1>0, <1>1, <1>4, <1>5, <1>6, <1>7, <1>8, <1>10 DEF GoodTable, ListOk

(***************************************************************************)
(* addEntry, at the slot where the probe for the key stops.                *)
(***************************************************************************)
LEMMA AddGood ==
  ASSUME NEW t, NEW rec, GoodTable(t, rec), NEW k \in Keys, NEW x \in Values, NEW p,
         AtPosition(t, k, p), t.slots[p].state = "EMPTY"
  PROVE  LET u == addEntry(t, p, k, x)
         IN /\ GoodTable(u, Touch(rec, k, KeysOf(t))) /\ RecordsBut(t, u, p)
            /\ Alive(u) = Alive(t) \union {p} /\ Dead(u) = Dead(t) /\ k \notin KeysOf(t)
            /\ u.slots[p].key = k /\ u.slots[p].value = x
<1> DEFINE A == Alive(t)
           R == SlotOrder(t, rec)
           r == Record("ALIVE", k, x, t.slots[p].prev, t.slots[p].next)
           v == WithSlot(t, p, r)
           u == addToFront(v, p)
           Q == SlotOrder(u, Touch(rec, k, KeysOf(t)))
<1>0. addEntry(t, p, k, x) = u
  BY DEF addEntry, WithSlot
<1>1. /\ IsTable(t) /\ TypedRecords(t) /\ Found(t) /\ Ordered(A, R) /\ Linked(t, A, R)
      /\ A \in SUBSET Nat /\ A \subseteq Slots(t) /\ p \in Slots(t) /\ Null \notin Slots(t)
      /\ t.slots[p] \in RecordType /\ p \notin A /\ p \in Nat
  BY AliveSlots, HomeIsSlot DEF GoodTable, ListOk, AtPosition, Alive
<1>2. /\ r \in RecordType /\ r.prev = t.slots[p].prev /\ r.next = t.slots[p].next
      /\ r.state = "ALIVE" /\ r.key = k /\ r.value = x
  BY <1>1 DEF RecordType, Record
<1>3. r.prev \in Slots(t) \union {Null} /\ r.next \in Slots(t) \union {Null}
  BY <1>1, <1>2 DEF IsTable
<1> HIDE DEF r
<1>4. /\ IsTable(v) /\ v.size = t.size /\ v.head = t.head /\ v.tail = t.tail /\ Slots(v) = Slots(t)
      /\ \A q \in Slots(t) : v.slots[q] = IF q = p THEN r ELSE t.slots[q]
  <2>1. IsTable(t) /\ p \in Slots(t) /\ r \in RecordType
    BY <1>1, <1>2
  <2> HIDE DEF A, R, Q, u
  <2> QED
    BY <1>3, <2>1, SetSlot
<1> HIDE DEF v
<1>5. v.head # p
  BY <1>1, <1>4 DEF Linked
<1>6. /\ IsTable(u) /\ SameRecords(v, u)
      /\ \A q \in Slots(t) :
           /\ u.slots[q].next = IF q = p THEN v.head ELSE v.slots[q].next
           /\ u.slots[q].prev = IF q = p THEN Null
                                ELSE IF q = v.head THEN p ELSE v.slots[q].prev
      /\ u.head = p
      /\ u.tail = IF v.tail = Null THEN p ELSE v.tail
  BY <1>1, <1>4, <1>5, FrontShape
<1> HIDE DEF u
<1>7. /\ RecordsBut(t, u, p) /\ u.slots[p].state = "ALIVE" /\ u.slots[p].key = k
      /\ u.slots[p].value = x
  BY <1>1, <1>2, <1>4, <1>6 DEF RecordsBut, SameRecords
<1>8. /\ Found(u) /\ Alive(u) = A \union {p} /\ Dead(u) = Dead(t)
      /\ \A q \in A : t.slots[q].key # k
  BY <1>1, <1>7, FoundAfterAdd
<1>9. \A q \in A : u.slots[q].key = t.slots[q].key /\ u.slots[q].value = t.slots[q].value
  BY <1>1, <1>7 DEF RecordsBut
<1>10. TypedRecords(u)
  BY <1>1, <1>7, <1>8, <1>9 DEF TypedRecords
<1>11. \A q \in A : t.slots[q].key \in KeysOf(t)
  BY DEF KeysOf
<1>12. k \notin KeysOf(t)
  BY <1>8 DEF KeysOf
<1>13. /\ \A q, s \in A : In(Q, q, s) <=> In(R, q, s)
       /\ ~ In(Q, p, p)
       /\ \A q \in A : In(Q, p, q) /\ ~ In(Q, q, p)
  <2> DEFINE ks == KeysOf(t)
  <2>1. ASSUME NEW q \in A, NEW s \in A PROVE In(R, q, s) <=> In(rec, t.slots[q].key, t.slots[s].key)
    BY OrderIn
  <2>2. ASSUME NEW q \in A \union {p}, NEW s \in A \union {p}
        PROVE  In(Q, q, s) <=> In(Touch(rec, k, ks), u.slots[q].key, u.slots[s].key)
    BY <1>8, OrderIn
  <2> HIDE DEF ks, Q, R, A
  <2>3. ASSUME NEW q \in A \union {p}, NEW s \in A \union {p}
        PROVE  In(Q, q, s) <=>
                 \/ In(rec, u.slots[q].key, u.slots[s].key) /\ u.slots[q].key # k /\ u.slots[s].key # k
                 \/ u.slots[q].key = k /\ u.slots[s].key \in ks /\ u.slots[s].key # k
    BY <2>2, TouchIn
  <2> QED
    BY <1>7, <1>8, <1>9, <1>11, <2>1, <2>3 DEF ks
<1>14. Ordered(A \union {p}, Q) /\ Linked(u, A \union {p}, Q)
  <2>1. /\ \A q \in A : v.slots[q].next = t.slots[q].next /\ v.slots[q].prev = t.slots[q].prev
        /\ \A q \in A \union {p} :
            /\ u.slots[q].next = IF q = p THEN v.head ELSE v.slots[q].next
            /\ u.slots[q].prev = IF q = p THEN Null
                                 ELSE IF q = v.head THEN p ELSE v.slots[q].prev
    BY <1>1, <1>4, <1>6
  <2> HIDE DEF A, R, Q
  <2>2. Linked(v, A, R)
    BY <1>1, <1>4, <2>1 DEF Linked
  <2> QED
    BY <1>1, <1>6, <1>13, <2>1, <2>2, FrontLinked
<1> QED
  BY <1>0, <1>6, <1>7, <1>8, <1>10, <1>12, <1>14 DEF GoodTable, ListOk

(***************************************************************************)
(* An iteration of rehash: the next key of the old list goes to the first  *)
(* free slot of a table that does not have it and has no tombstones.       *)
(***************************************************************************)
LEMMA AppendGood ==
  ASSUME NEW t, NEW rec, GoodTable(t, rec), NEW r \in RecordType, r.key \in Keys, r.value \in Values,
         NEW p, AtFree(t, r.key, p),
         \A q \in Alive(t) : /\ In(rec, t.slots[q].key, r.key) /\ ~ In(rec, r.key, t.slots[q].key)
                             /\ t.slots[q].key # r.key,
         ~ In(rec, r.key, r.key)
  PROVE  LET u == appendRecord(t, p, r)
         IN /\ GoodTable(u, rec) /\ RecordsBut(t, u, p)
            /\ Alive(u) = Alive(t) \union {p} /\ Dead(u) = Dead(t)
            /\ u.slots[p].key = r.key /\ u.slots[p].value = r.value
<1> DEFINE A == Alive(t)
           R == SlotOrder(t, rec)
           u == appendRecord(t, p, r)
           Q == SlotOrder(u, rec)
<1>1. /\ IsTable(t) /\ TypedRecords(t) /\ Found(t) /\ Ordered(A, R) /\ Linked(t, A, R)
      /\ A \in SUBSET Nat /\ A \subseteq Slots(t) /\ p \in Slots(t) /\ Null \notin Slots(t)
      /\ p \notin A /\ p \in Nat
  BY AliveSlots, HomeIsSlot DEF GoodTable, ListOk, AtFree, Alive
<1>2. t.tail # p
  BY <1>1 DEF Linked
<1>3. /\ IsTable(u) /\ u.size = t.size
      /\ \A q \in Slots(t) :
           /\ q # p => /\ u.slots[q].state = t.slots[q].state
                       /\ u.slots[q].key = t.slots[q].key
                       /\ u.slots[q].value = t.slots[q].value
           /\ u.slots[q].next = IF q = p THEN Null
                                ELSE IF q = t.tail THEN p ELSE t.slots[q].next
           /\ u.slots[q].prev = IF q = p THEN t.tail ELSE t.slots[q].prev
      /\ u.slots[p].state = "ALIVE" /\ u.slots[p].key = r.key /\ u.slots[p].value = r.value
      /\ u.head = IF t.head = Null THEN p ELSE t.head
      /\ u.tail = p
  BY <1>1, <1>2, AppendShape
<1> HIDE DEF u
<1>4. RecordsBut(t, u, p)
  BY <1>3 DEF RecordsBut
<1>5. AtPosition(t, r.key, p) /\ t.slots[p].state = "EMPTY"
  BY DEF AtFree, AtPosition, Stops, Alive
<1>6. Found(u) /\ Alive(u) = A \union {p} /\ Dead(u) = Dead(t)
  BY <1>1, <1>3, <1>4, <1>5, FoundAfterAdd
<1>7. \A q \in A : u.slots[q].key = t.slots[q].key /\ u.slots[q].value = t.slots[q].value
  BY <1>1, <1>4 DEF RecordsBut
<1>8. TypedRecords(u)
  BY <1>1, <1>3, <1>6, <1>7 DEF TypedRecords
<1>9. /\ \A q, s \in A : In(Q, q, s) <=> In(R, q, s)
      /\ ~ In(Q, p, p)
      /\ \A q \in A : In(Q, q, p) /\ ~ In(Q, p, q)
  <2>1. ASSUME NEW q \in A, NEW s \in A PROVE In(R, q, s) <=> In(rec, t.slots[q].key, t.slots[s].key)
    BY OrderIn
  <2>2. ASSUME NEW q \in A \union {p}, NEW s \in A \union {p}
        PROVE  In(Q, q, s) <=> In(rec, u.slots[q].key, u.slots[s].key)
    BY <1>6, OrderIn
  <2> HIDE DEF Q, R
  <2> QED
    BY <1>3, <1>7, <2>1, <2>2
<1>10. Ordered(A \union {p}, Q) /\ Linked(u, A \union {p}, Q)
  <2>1. \A q \in A \union {p} :
            /\ u.slots[q].next = IF q = p THEN Null
                                 ELSE IF q = t.tail THEN p ELSE t.slots[q].next
            /\ u.slots[q].prev = IF q = p THEN t.tail ELSE t.slots[q].prev
    BY <1>1, <1>3
  <2> HIDE DEF A, R, Q
  <2> QED
    BY <1>1, <1>3, <1>9, <2>1, AppendLinked
<1> QED
  BY <1>3, <1>4, <1>6, <1>8, <1>10 DEF GoodTable, ListOk, u

-----------------------------------------------------------------------------
(* The inductive invariant.                                                *)

MapOf(t) ==
  [k \in KeysOf(t) |-> t.slots[CHOOSE p \in Alive(t) : t.slots[p].key = k].value]

Normalizing == {"evict", "grow", "check", "compact", "apply"}
Rehashing == {"grow", "compact"}

(***************************************************************************)
(* The operation that runs, and the loop variable of a loop that runs.     *)
(***************************************************************************)
OpOk ==
  /\ pc \in {"idle", "clean"} \union Normalizing
  /\ pc = "idle" => op = NoOp
  /\ pc \in Normalizing =>
       /\ op.kind \in {"put", "propagate"} /\ op.key \in Keys /\ op.value \in Values
       /\ op = Op(op.kind, op.key, op.value, {})
  /\ pc = "clean" => op = Op("clean", NoKey, NoValue, op.owned)

(***************************************************************************)
(* cleanHash has passed only owned keys.                                   *)
(***************************************************************************)
CursorOk ==
  /\ pc \notin {"clean"} \union Rehashing => cursor = Null
  /\ cursor \in Alive(table) \union {Null}
  /\ pc = "clean" =>
       /\ cursor # Null
       /\ \A p \in Alive(table) :
            In(recency, table.slots[p].key, table.slots[cursor].key) =>
              table.slots[p].key \in op.owned

TableOk ==
  /\ GoodTable(table, recency)
  /\ recency \subseteq KeysOf(table) \X KeysOf(table)

CountsOk ==
  /\ numEntries = Cardinality(KeysOf(table))
  /\ numDeadEntries = Cardinality(Dead(table))
  /\ totalKeyValueSize = LRU!Footprint(MapOf(table))

(***************************************************************************)
(* At most a quarter of the slots is live and half of them in use, but for *)
(* the one insertion that follows normalizeTable.                          *)
(***************************************************************************)
LoadOk ==
  /\ 4 * numEntries <= table.size + 4
  /\ 2 * (numEntries + numDeadEntries) <= table.size + 2
  /\ pc \in {"check", "compact", "apply"} => 4 * numEntries <= table.size
  /\ pc = "apply" => 2 * (numEntries + numDeadEntries) <= table.size

MemoryOk ==
  /\ totalKeyValueSize <= MemoryLimit + MaxEntry
  /\ pc \in Normalizing \ {"evict"} => totalKeyValueSize <= MemoryLimit

(***************************************************************************)
(* The new table of rehash has the records that the loop has passed.       *)
(***************************************************************************)
Passed == {p \in Alive(table) :
             cursor = Null \/ In(recency, table.slots[p].key, table.slots[cursor].key)}

RehashOk ==
  /\ pc \notin Rehashing => newTable = NewTable(InitSize)
  /\ pc \in Rehashing =>
       /\ newTable.size = IF pc = "grow" THEN 2 * table.size ELSE table.size
       /\ GoodTable(newTable, recency)
       /\ Dead(newTable) = {}
       /\ KeysOf(newTable) = {table.slots[p].key : p \in Passed}
       /\ \A p \in Passed, q \in Alive(newTable) :
            newTable.slots[q].key = table.slots[p].key =>
              newTable.slots[q].value = table.slots[p].value

StoreInv ==
  /\ OpOk
  /\ CursorOk
  /\ TableOk
  /\ CountsOk
  /\ LoadOk
  /\ MemoryOk
  /\ RehashOk

-----------------------------------------------------------------------------
(* The map a table stands for, and its size.                               *)

(***************************************************************************)
(* The map of a good table: its keys, and at the key of a live record the  *)
(* value of that record.                                                   *)
(***************************************************************************)
LEMMA MapAt ==
  ASSUME NEW t, NEW rec, GoodTable(t, rec)
  PROVE  /\ KeysOf(t) \in SUBSET Keys /\ IsFiniteSet(KeysOf(t))
         /\ MapOf(t) \in [KeysOf(t) -> Values]
         /\ \A p \in Alive(t) : /\ t.slots[p].key \in KeysOf(t)
                                /\ MapOf(t)[t.slots[p].key] = t.slots[p].value
<1>1. IsTable(t) /\ TypedRecords(t) /\ Found(t)
  BY DEF GoodTable
<1>2. KeysOf(t) \in SUBSET Keys
  BY <1>1 DEF TypedRecords, KeysOf
<1>3. IsFiniteSet(KeysOf(t))
  BY <1>2, StoreAssumption, FS_Subset
<1>4. ASSUME NEW p \in Alive(t)
      PROVE  t.slots[p].key \in KeysOf(t) /\ MapOf(t)[t.slots[p].key] = t.slots[p].value
  <2> DEFINE c == CHOOSE q \in Alive(t) : t.slots[q].key = t.slots[p].key
  <2>1. c \in Alive(t) /\ t.slots[c].key = t.slots[p].key
    OBVIOUS
  <2>2. t.slots[p].key \in KeysOf(t)
    BY DEF KeysOf
  <2>3. MapOf(t)[t.slots[p].key] = t.slots[c].value
    BY <2>2 DEF MapOf
  <2> HIDE DEF c
  <2>4. c = p
    BY <1>1, <2>1, KeysDistinct
  <2> QED
    BY <2>2, <2>3, <2>4
<1>5. ASSUME NEW k \in KeysOf(t) PROVE MapOf(t)[k] \in Values
  <2>1. PICK p \in Alive(t) : t.slots[p].key = k
    BY DEF KeysOf
  <2> QED
    BY <1>1, <1>4, <2>1 DEF TypedRecords
<1>6. MapOf(t) = [k \in KeysOf(t) |-> MapOf(t)[k]]
  BY DEF MapOf
<1>7. MapOf(t) \in [KeysOf(t) -> Values]
  BY <1>5, <1>6
<1> QED
  BY <1>2, <1>3, <1>4, <1>7

(***************************************************************************)
(* A table stands for f if f has the value of every live record.           *)
(***************************************************************************)
LEMMA MapIs ==
  ASSUME NEW t, NEW rec, GoodTable(t, rec), NEW K, NEW f, f = [k \in K |-> f[k]], KeysOf(t) = K,
         \A p \in Alive(t) : f[t.slots[p].key] = t.slots[p].value
  PROVE  MapOf(t) = f
<1>1. \A k \in K : \E p \in Alive(t) : t.slots[p].key = k
  BY DEF KeysOf
<1>2. \A k \in K : MapOf(t)[k] = f[k]
  BY <1>1, MapAt
<1>3. MapOf(t) \in [K -> Values]
  BY MapAt
<1> QED
  BY <1>2, <1>3

(***************************************************************************)
(* The map loses the key of a record that is removed.                      *)
(***************************************************************************)
LEMMA RemoveMap ==
  ASSUME NEW t, NEW rec, GoodTable(t, rec), NEW u, NEW rec2, GoodTable(u, rec2),
         NEW p \in Alive(t), RecordsBut(t, u, p), Alive(u) = Alive(t) \ {p}
  PROVE  /\ KeysOf(u) = KeysOf(t) \ {t.slots[p].key}
         /\ MapOf(u) = [x \in KeysOf(t) \ {t.slots[p].key} |-> MapOf(t)[x]]
<1> DEFINE k == t.slots[p].key
           f == [x \in KeysOf(t) \ {k} |-> MapOf(t)[x]]
<1>1. \A q \in Alive(u) : /\ q \in Alive(t) /\ t.slots[q].key # k
                          /\ u.slots[q].key = t.slots[q].key /\ u.slots[q].value = t.slots[q].value
  <2>1. \A q \in Alive(t) : q \in Slots(t)
    BY DEF Alive
  <2> QED
    BY <2>1, KeysDistinct DEF GoodTable, RecordsBut
<1>2. KeysOf(u) = KeysOf(t) \ {k}
  <2>1. \A q \in Alive(t) : q \in Alive(u) \/ q = p
    OBVIOUS
  <2> QED
    BY <1>1, <2>1 DEF KeysOf
<1>3. \A q \in Alive(u) : f[u.slots[q].key] = u.slots[q].value
  <2>1. \A q \in Alive(t) : t.slots[q].key \in KeysOf(t) /\ MapOf(t)[t.slots[q].key] = t.slots[q].value
    BY MapAt
  <2> QED
    BY <1>1, <2>1
<1>4. f = [x \in KeysOf(u) |-> f[x]]
  BY <1>2
<1>5. MapOf(u) = f
  <2> HIDE DEF f
  <2> QED
    BY <1>3, <1>4, MapIs
<1> QED
  BY <1>2, <1>5

Stored(c, K, k, v) == [x \in K \union {k} |-> IF x = k THEN v ELSE c[x]]

(***************************************************************************)
(* The map gains, or changes at, the key of a record that is written.      *)
(***************************************************************************)
LEMMA StoreMap ==
  ASSUME NEW t, NEW rec, GoodTable(t, rec), NEW u, NEW rec2, GoodTable(u, rec2),
         NEW p, RecordsBut(t, u, p), Alive(u) = Alive(t) \union {p},
         p \in Alive(t) => t.slots[p].key = u.slots[p].key,
         p \notin Alive(t) => u.slots[p].key \notin KeysOf(t)
  PROVE  /\ KeysOf(u) = KeysOf(t) \union {u.slots[p].key}
         /\ MapOf(u) = Stored(MapOf(t), KeysOf(t), u.slots[p].key, u.slots[p].value)
<1> DEFINE k == u.slots[p].key
           f == [x \in KeysOf(t) \union {k} |-> IF x = k THEN u.slots[p].value ELSE MapOf(t)[x]]
<1>1. \A q \in Alive(t) : q = p \/ (/\ u.slots[q].key = t.slots[q].key
                                    /\ u.slots[q].value = t.slots[q].value)
  BY DEF Alive, RecordsBut
<1>2. KeysOf(u) = KeysOf(t) \union {k}
  BY <1>1 DEF KeysOf
<1>3. ASSUME NEW q \in Alive(u) PROVE f[u.slots[q].key] = u.slots[q].value
  <2>1. u.slots[q].key \in KeysOf(u)
    BY DEF KeysOf
  <2>2. CASE q = p
    BY <1>2, <2>1, <2>2
  <2>3. CASE q # p
    <3>1. q \in Alive(t) /\ u.slots[q].key = t.slots[q].key /\ u.slots[q].value = t.slots[q].value
      BY <1>1, <2>3
    <3>2. MapOf(t)[t.slots[q].key] = t.slots[q].value
      BY <3>1, MapAt
    <3>3. u.slots[q].key # k
      BY <2>3, KeysDistinct DEF GoodTable
    <3> QED
      BY <1>2, <2>1, <3>1, <3>2, <3>3
  <2> QED
    BY <2>2, <2>3
<1>4. f = [x \in KeysOf(u) |-> f[x]]
  BY <1>2
<1>5. MapOf(u) = f
  <2> HIDE DEF f
  <2> QED
    BY <1>3, <1>4, MapIs
<1> QED
  BY <1>2, <1>5 DEF Stored

(***************************************************************************)
(* The map depends on the records only, not on their links.                *)
(***************************************************************************)
LEMMA SameMap ==
  ASSUME NEW t, NEW rec, GoodTable(t, rec), NEW u, NEW rec2, GoodTable(u, rec2),
         SameRecords(t, u), Alive(u) = Alive(t)
  PROVE  KeysOf(u) = KeysOf(t) /\ MapOf(u) = MapOf(t)
<1>1. \A q \in Alive(t) : u.slots[q].key = t.slots[q].key /\ u.slots[q].value = t.slots[q].value
  BY DEF SameRecords, Alive
<1>2. KeysOf(u) = KeysOf(t)
  BY <1>1 DEF KeysOf
<1>3. \A q \in Alive(u) : MapOf(t)[u.slots[q].key] = u.slots[q].value
  BY <1>1, MapAt
<1>4. MapOf(t) = [k \in KeysOf(t) |-> MapOf(t)[k]]
  BY MapAt
<1>5. MapOf(u) = MapOf(t)
  BY <1>2, <1>3, <1>4, MapIs
<1> QED
  BY <1>2, <1>5

(***************************************************************************)
(* The sum that LRUCache takes is the sum of the library.                  *)
(***************************************************************************)
LEMMA SumInLRU ==
  ASSUME NEW f
  PROVE  LRU!SumFunction(f) = SumFunction(f)
BY DEF SumFunction, SumFunctionOnSet, FoldFunctionOnSet, MapThenFoldSet,
       LRU!SumFunction, LRU!SumFunctionOnSet, LRU!FoldFunctionOnSet, LRU!MapThenFoldSet

(***************************************************************************)
(* The memory in use without one of the keys.                              *)
(***************************************************************************)
LEMMA FootprintDrop ==
  ASSUME NEW K \in SUBSET Keys, NEW c \in [K -> Values], NEW k \in K
  PROVE  LET d == [x \in K \ {k} |-> c[x]]
         IN /\ LRU!Footprint(c) \in Nat /\ LRU!Footprint(d) \in Nat
            /\ LRU!Footprint(c) = KeySize[k] + ValueSize[c[k]] + LRU!Footprint(d)
<1> DEFINE d == [x \in K \ {k} |-> c[x]]
           f == [x \in K |-> KeySize[x] + ValueSize[c[x]]]
           g == [x \in K \ {k} |-> f[x]]
<1>1. IsFiniteSet(K) /\ IsFiniteSet(K \ {k})
  BY StoreAssumption, FS_Subset
<1>2. /\ f \in [K -> Nat] /\ g \in [K \ {k} -> Nat]
      /\ f[k] = KeySize[k] + ValueSize[c[k]]
  BY StoreAssumption
<1>3. LRU!Footprint(c) = SumFunction(f)
  BY SumInLRU DEF LRU!Footprint
<1>4. LRU!Footprint(d) = SumFunction(g)
  <2>1. g = [x \in DOMAIN d |-> KeySize[x] + ValueSize[d[x]]]
    OBVIOUS
  <2> HIDE DEF d, g
  <2> QED
    BY <2>1, SumInLRU DEF LRU!Footprint
<1>5. SumFunction(f) = f[k] + SumFunction(g)
  <2> HIDE DEF f
  <2> QED
    BY <1>1, <1>2, SumSplit
<1>6. SumFunction(f) \in Nat /\ SumFunction(g) \in Nat
  <2> HIDE DEF f, g
  <2> QED
    BY <1>1, <1>2, SumType
<1> QED
  BY <1>2, <1>3, <1>4, <1>5, <1>6

(***************************************************************************)
(* The memory in use with one key more, or with a new value for it.        *)
(***************************************************************************)
LEMMA FootprintStore ==
  ASSUME NEW K \in SUBSET Keys, NEW c \in [K -> Values], NEW k \in Keys, NEW v \in Values
  PROVE  LET d == [x \in K \union {k} |-> IF x = k THEN v ELSE c[x]]
             e == [x \in K \ {k} |-> c[x]]
         IN LRU!Footprint(d) = KeySize[k] + ValueSize[v] + LRU!Footprint(e)
<1> DEFINE L == K \union {k}
           d == [x \in L |-> IF x = k THEN v ELSE c[x]]
           e == [x \in K \ {k} |-> c[x]]
<1>1. L \in SUBSET Keys /\ d \in [L -> Values] /\ k \in L /\ d[k] = v
  OBVIOUS
<1>2. e = [x \in L \ {k} |-> d[x]]
  OBVIOUS
<1> HIDE DEF L, d, e
<1>3. LRU!Footprint(d) = KeySize[k] + ValueSize[d[k]] + LRU!Footprint([x \in L \ {k} |-> d[x]])
  BY <1>1, FootprintDrop
<1> QED
  BY <1>1, <1>2, <1>3 DEF L, d, e

(***************************************************************************)
(* The memory in use is a number of bytes, none for no keys.               *)
(***************************************************************************)
LEMMA FootprintType ==
  ASSUME NEW K \in SUBSET Keys, NEW c \in [K -> Values]
  PROVE  LRU!Footprint(c) \in Nat /\ (K = {} => LRU!Footprint(c) = 0)
<1> DEFINE f == [x \in K |-> KeySize[x] + ValueSize[c[x]]]
<1>1. IsFiniteSet(K) /\ f \in [K -> Nat]
  BY StoreAssumption, FS_Subset
<1>2. LRU!Footprint(c) = SumFunction(f)
  BY SumInLRU DEF LRU!Footprint
<1> HIDE DEF f
<1> QED
  BY <1>1, <1>2, SumType

-----------------------------------------------------------------------------
(* The operations on the table, with their bookkeeping.                    *)

(***************************************************************************)
(* Records can be counted.                                                 *)
(***************************************************************************)
LEMMA SlotsFinite ==
  ASSUME NEW t, IsTable(t)
  PROVE  /\ IsFiniteSet(Slots(t)) /\ Cardinality(Slots(t)) = t.size
         /\ IsFiniteSet(Alive(t)) /\ IsFiniteSet(Dead(t))
         /\ Cardinality(Alive(t)) \in Nat /\ Cardinality(Dead(t)) \in Nat
<1>1. t.size \in Nat \ {0} /\ t.size - 1 \in Int
  BY StoreAssumption DEF IsTable
<1>2. IsFiniteSet(Slots(t)) /\ Cardinality(Slots(t)) = t.size
  <2> DEFINE n == t.size - 1
  <2>1. Slots(t) = 0 .. n /\ n \in Int /\ ~ (0 > n) /\ n - 0 + 1 = t.size
    BY <1>1 DEF Slots
  <2> HIDE DEF n
  <2> QED
    BY <2>1, FS_Interval
<1>3. Alive(t) \in SUBSET Slots(t) /\ Dead(t) \in SUBSET Slots(t)
  BY DEF Alive, Dead
<1>4. IsFiniteSet(Alive(t)) /\ IsFiniteSet(Dead(t))
  BY <1>2, <1>3, FS_Subset
<1> QED
  BY <1>2, <1>4, FS_CardinalityType

(***************************************************************************)
(* The counters are natural numbers.                                       *)
(***************************************************************************)
LEMMA CountsNat ==
  ASSUME TableOk, CountsOk
  PROVE  /\ numEntries \in Nat /\ numDeadEntries \in Nat /\ totalKeyValueSize \in Nat
         /\ KeysOf(table) \in SUBSET Keys /\ IsFiniteSet(KeysOf(table)) /\ table.size \in Nat
<1>1. IsTable(table) /\ GoodTable(table, recency)
  BY DEF TableOk, GoodTable
<1>2. KeysOf(table) \in SUBSET Keys /\ IsFiniteSet(KeysOf(table)) /\ MapOf(table) \in [KeysOf(table) -> Values]
  BY <1>1, MapAt
<1>3. LRU!Footprint(MapOf(table)) \in Nat
  BY <1>2, FootprintType
<1>4. Cardinality(KeysOf(table)) \in Nat /\ Cardinality(Dead(table)) \in Nat
  BY <1>1, <1>2, SlotsFinite, FS_CardinalityType
<1> QED
  BY <1>1, <1>2, <1>3, <1>4 DEF CountsOk, IsTable

(***************************************************************************)
(* removeEntry, with its bookkeeping, keeps table and counters right, and  *)
(* drops the key from the abstract map.                                    *)
(***************************************************************************)
LEMMA RemoveStep ==
  ASSUME TableOk, CountsOk, NEW p \in Alive(table), RemoveAt(p)
  PROVE  /\ TableOk' /\ CountsOk' /\ LRU!Drop(table.slots[p].key)
         /\ KeysOf(table') = KeysOf(table) \ {table.slots[p].key}
         /\ Alive(table') = Alive(table) \ {p} /\ RecordsBut(table, table', p)
         /\ table'.size = table.size /\ table'.slots[p].next = Null
         /\ numEntries' = numEntries - 1 /\ numDeadEntries' = numDeadEntries + 1
         /\ totalKeyValueSize' \in Nat /\ totalKeyValueSize' <= totalKeyValueSize
<1> DEFINE k == table.slots[p].key
           x == table.slots[p].value
           K == KeysOf(table)
           c == MapOf(table)
           d == MapOf(table')
<1>1. /\ table' = removeEntry(table, p) /\ recency' = Without(recency, k)
      /\ totalKeyValueSize' = totalKeyValueSize - (KeySize[k] + ValueSize[x])
      /\ numEntries' = numEntries - 1 /\ numDeadEntries' = numDeadEntries + 1
  BY DEF RemoveAt, EntrySize
<1>2. GoodTable(table, recency) /\ IsTable(table)
  BY DEF TableOk, GoodTable
<1>3. /\ GoodTable(table', recency') /\ RecordsBut(table, table', p)
      /\ Alive(table') = Alive(table) \ {p} /\ Dead(table') = Dead(table) \union {p}
      /\ table'.slots[p].next = Null
  BY <1>1, <1>2, RemoveGood
<1>4. KeysOf(table') = K \ {k} /\ d = [y \in K \ {k} |-> c[y]]
  BY <1>2, <1>3, RemoveMap
<1>5. /\ K \in SUBSET Keys /\ IsFiniteSet(K) /\ c \in [K -> Values] /\ k \in K /\ c[k] = x
      /\ d \in [KeysOf(table') -> Values]
  BY <1>2, <1>3, MapAt
<1>6. TableOk'
  <2>1. recency' \subseteq KeysOf(table') \X KeysOf(table')
    BY <1>1, <1>4 DEF TableOk, Without
  <2> QED
    BY <1>3, <2>1 DEF TableOk
<1>7. /\ LRU!Footprint(c) = KeySize[k] + ValueSize[x] + LRU!Footprint(d)
      /\ LRU!Footprint(c) \in Nat /\ LRU!Footprint(d) \in Nat
  <2> DEFINE e == [y \in K \ {k} |-> c[y]]
  <2> HIDE DEF K, c, d, k, x
  <2>1. /\ LRU!Footprint(c) \in Nat /\ LRU!Footprint(e) \in Nat
        /\ LRU!Footprint(c) = KeySize[k] + ValueSize[c[k]] + LRU!Footprint(e)
    BY <1>5, FootprintDrop
  <2> QED
    BY <1>4, <1>5, <2>1, Zenon
<1>8. KeySize[k] \in Nat /\ ValueSize[x] \in Nat
  BY <1>5, StoreAssumption
<1>9. Cardinality(KeysOf(table')) = Cardinality(K) - 1
  <2> HIDE DEF K, k
  <2> QED
    BY <1>4, <1>5, FS_RemoveElement
<1>10. Cardinality(Dead(table')) = Cardinality(Dead(table)) + 1
  <2>1. p \notin Dead(table) /\ IsFiniteSet(Dead(table))
    BY <1>2, SlotsFinite DEF Alive, Dead
  <2> QED
    BY <1>3, <2>1, FS_AddElement
<1>11. /\ totalKeyValueSize' = LRU!Footprint(d) /\ totalKeyValueSize' <= totalKeyValueSize
       /\ totalKeyValueSize' \in Nat
  <2>1. totalKeyValueSize = LRU!Footprint(c)
    BY DEF CountsOk
  <2> HIDE DEF K, c, d, k, x
  <2> QED
    BY <1>1, <1>7, <1>8, <2>1
<1>12. CountsOk'
  BY <1>1, <1>9, <1>10, <1>11 DEF CountsOk
<1>13. LRU!Drop(k)
  <2>1. CacheMap = c /\ CacheMap' = d
    BY DEF CacheMap, MapOf
  <2>2. DOMAIN c = K
    BY <1>5
  <2>3. Without(recency, k) = LRU!Without(recency, k)
    BY DEF Without, LRU!Without
  <2> HIDE DEF c, d, K, k
  <2> QED
    BY <1>1, <1>4, <1>5, <2>1, <2>2, <2>3 DEF LRU!Drop
<1> QED
  BY <1>1, <1>3, <1>4, <1>6, <1>11, <1>12, <1>13 DEF RecordsBut

(***************************************************************************)
(* The largest entry is at least as large as every entry.                  *)
(***************************************************************************)
LEMMA MaxEntryBounds ==
  ASSUME NEW k \in Keys, NEW v \in Values
  PROVE  MaxEntry \in Nat /\ KeySize[k] + ValueSize[v] <= MaxEntry
<1> DEFINE P == Keys \X Values
           S == {KeySize[j] + ValueSize[w] : j \in Keys, w \in Values}
           f == [e \in P |-> KeySize[e[1]] + ValueSize[e[2]]]
<1>1. S \in SUBSET Nat /\ KeySize[k] + ValueSize[v] \in S
  BY StoreAssumption
<1>2. IsFiniteSet(S)
  <2>1. IsFiniteSet(P)
    BY StoreAssumption, FS_Product
  <2>2. f \in Surjection(P, S)
    <3>1. \A e \in P : f[e] \in S
      OBVIOUS
    <3>2. \A s \in S : \E e \in P : f[e] = s
      <4>1. ASSUME NEW j \in Keys, NEW w \in Values
            PROVE  <<j, w>> \in P /\ f[<<j, w>>] = KeySize[j] + ValueSize[w]
        OBVIOUS
      <4>2. ASSUME NEW s \in S PROVE \E e \in P : f[e] = s
        <5>1. PICK j \in Keys, w \in Values : s = KeySize[j] + ValueSize[w]
          OBVIOUS
        <5>2. <<j, w>> \in P /\ f[<<j, w>>] = s
          BY <4>1, <5>1
        <5> HIDE DEF f, P
        <5> QED
          BY <5>2
      <4> QED
        BY <4>2
    <3> QED
      BY <3>1, <3>2 DEF Surjection
  <2> HIDE DEF P, S, f
  <2> QED
    BY <2>1, <2>2, FS_Surjection
<1> HIDE DEF S
<1>3. PICK x \in S : \A y \in S : x >= y
  BY <1>1, <1>2, GreatestNumber
<1>4. MaxEntry = CHOOSE z \in S : \A y \in S : z >= y
  BY DEF MaxEntry, Max, S
<1>5. MaxEntry \in S /\ \A y \in S : MaxEntry >= y
  BY <1>3, <1>4
<1> QED
  BY <1>1, <1>5

(***************************************************************************)
(* addEntry, with its bookkeeping, keeps table and counters right, and     *)
(* stores the key in the abstract map.                                     *)
(***************************************************************************)
LEMMA AddStep ==
  ASSUME TableOk, CountsOk, NEW k \in Keys, NEW v \in Values, NEW p,
         AtPosition(table, k, p), AddAt(p, k, v)
  PROVE  /\ TableOk' /\ CountsOk' /\ LRU!Store(k, v)
         /\ table'.size = table.size
         /\ numEntries' = numEntries + 1 /\ numDeadEntries' = numDeadEntries
         /\ totalKeyValueSize' \in Nat /\ totalKeyValueSize' <= totalKeyValueSize + MaxEntry
<1> DEFINE K == KeysOf(table)
           c == MapOf(table)
           d == MapOf(table')
<1>1. /\ table' = addEntry(table, p, k, v) /\ recency' = Touch(recency, k, K)
      /\ totalKeyValueSize' = totalKeyValueSize + KeySize[k] + ValueSize[v]
      /\ numEntries' = numEntries + 1 /\ numDeadEntries' = numDeadEntries
      /\ table.slots[p].state = "EMPTY"
  BY DEF AddAt
<1>2. GoodTable(table, recency) /\ IsTable(table)
  BY DEF TableOk, GoodTable
<1>3. /\ GoodTable(table', recency') /\ RecordsBut(table, table', p)
      /\ Alive(table') = Alive(table) \union {p} /\ Dead(table') = Dead(table)
      /\ k \notin K /\ table'.slots[p].key = k /\ table'.slots[p].value = v
  BY <1>1, <1>2, AddGood
<1>4. p \notin Alive(table)
  BY <1>1 DEF Alive
<1>5. /\ KeysOf(table') = K \union {k}
      /\ d = [y \in K \union {k} |-> IF y = k THEN v ELSE c[y]]
  <2>1. /\ KeysOf(table') = K \union {table'.slots[p].key}
        /\ d = Stored(c, K, table'.slots[p].key, table'.slots[p].value)
    BY <1>2, <1>3, <1>4, StoreMap
  <2> QED
    BY <1>3, <2>1 DEF Stored
<1>6. /\ K \in SUBSET Keys /\ IsFiniteSet(K) /\ c \in [K -> Values]
      /\ d \in [KeysOf(table') -> Values]
  BY <1>2, <1>3, MapAt
<1>7. TableOk'
  <2>1. recency' \subseteq KeysOf(table') \X KeysOf(table')
    BY <1>1, <1>5 DEF TableOk, Touch, Without
  <2> QED
    BY <1>3, <2>1 DEF TableOk
<1>8. LRU!Footprint(d) = KeySize[k] + ValueSize[v] + LRU!Footprint(c)
  <2>1. [y \in K \ {k} |-> c[y]] = c
    <3>1. K \ {k} = K
      BY <1>3
    <3> QED
      BY <1>6, <3>1
  <2> HIDE DEF K, c, d
  <2> QED
    BY <1>5, <1>6, <2>1, FootprintStore
<1>9. LRU!Footprint(c) \in Nat /\ KeySize[k] \in Nat /\ ValueSize[v] \in Nat
  <2> HIDE DEF K, c
  <2> QED
    BY <1>6, FootprintType, StoreAssumption
<1>10. Cardinality(KeysOf(table')) = Cardinality(K) + 1
  <2> HIDE DEF K
  <2> QED
    BY <1>3, <1>5, <1>6, FS_AddElement
<1>11. /\ totalKeyValueSize' = LRU!Footprint(d) /\ totalKeyValueSize' \in Nat
       /\ totalKeyValueSize' <= totalKeyValueSize + MaxEntry
  BY <1>1, <1>8, <1>9, MaxEntryBounds DEF CountsOk
<1>12. CountsOk'
  BY <1>1, <1>3, <1>10, <1>11 DEF CountsOk
<1>13. LRU!Store(k, v)
  <2>1. CacheMap = c /\ CacheMap' = d
    BY DEF CacheMap, MapOf
  <2>2. DOMAIN c = K
    BY <1>6
  <2>3. Touch(recency, k, K) = LRU!Touch(recency, k, K)
    BY DEF Without, LRU!Without, Touch, LRU!Touch
  <2> HIDE DEF c, d, K
  <2> QED
    BY <1>1, <1>5, <2>1, <2>2, <2>3 DEF LRU!Store
<1> QED
  BY <1>1, <1>3, <1>7, <1>11, <1>12, <1>13 DEF RecordsBut

(***************************************************************************)
(* So does the update of a live record, which may be any record of the     *)
(* list.                                                                   *)
(***************************************************************************)
LEMMA UpdateStep ==
  ASSUME TableOk, CountsOk, NEW v \in Values, NEW p \in Alive(table), UpdateAt(p, v)
  PROVE  /\ TableOk' /\ CountsOk' /\ LRU!Store(table.slots[p].key, v)
         /\ table'.size = table.size
         /\ numEntries' = numEntries /\ numDeadEntries' = numDeadEntries
         /\ totalKeyValueSize' \in Nat /\ totalKeyValueSize' <= totalKeyValueSize + MaxEntry
<1> DEFINE K == KeysOf(table)
           k == table.slots[p].key
           x == table.slots[p].value
           t == WithValue(table, p, v)
           c == MapOf(table)
           d == MapOf(table')
<1>1. /\ table' = accessEntry(t, p) /\ recency' = Touch(recency, k, K)
      /\ totalKeyValueSize' = totalKeyValueSize - ValueSize[x] + ValueSize[v]
      /\ numEntries' = numEntries /\ numDeadEntries' = numDeadEntries
  BY DEF UpdateAt, WithValue
<1>2. GoodTable(table, recency) /\ IsTable(table)
  BY DEF TableOk, GoodTable
<1>3. /\ GoodTable(t, recency) /\ RecordsBut(table, t, p)
      /\ Alive(t) = Alive(table) /\ Dead(t) = Dead(table)
      /\ t.slots[p].key = k /\ t.slots[p].value = v
  BY <1>2, ValueGood
<1> HIDE DEF t
<1>4. /\ KeysOf(t) = K \union {k}
      /\ MapOf(t) = [y \in K \union {k} |-> IF y = k THEN v ELSE c[y]]
  <2>1. Alive(t) = Alive(table) \union {p}
    BY <1>3
  <2>2. p \in Alive(table) => table.slots[p].key = t.slots[p].key
    BY <1>3
  <2>3. /\ KeysOf(t) = K \union {t.slots[p].key}
        /\ MapOf(t) = Stored(c, K, t.slots[p].key, t.slots[p].value)
    BY <1>2, <1>3, <2>1, <2>2, StoreMap
  <2> QED
    BY <1>3, <2>3 DEF Stored
<1>5. k \in K /\ K \union {k} = K
  BY DEF KeysOf
<1>6. /\ GoodTable(table', Touch(recency, t.slots[p].key, KeysOf(t))) /\ SameRecords(t, table')
      /\ Alive(table') = Alive(t) /\ Dead(table') = Dead(t)
  BY <1>1, <1>3, AccessGood
<1>7. GoodTable(table', recency') /\ Alive(table') = Alive(table) /\ Dead(table') = Dead(table)
  BY <1>1, <1>3, <1>4, <1>5, <1>6
<1>8. KeysOf(table') = K /\ d = [y \in K \union {k} |-> IF y = k THEN v ELSE c[y]]
  BY <1>3, <1>4, <1>5, <1>6, <1>7, SameMap
<1>9. /\ K \in SUBSET Keys /\ IsFiniteSet(K) /\ c \in [K -> Values] /\ c[k] = x
      /\ d \in [KeysOf(table') -> Values]
  BY <1>2, <1>7, MapAt
<1>10. TableOk'
  <2>1. recency' \subseteq KeysOf(table') \X KeysOf(table')
    BY <1>1, <1>5, <1>8 DEF TableOk, Touch, Without
  <2> QED
    BY <1>7, <2>1 DEF TableOk
<1>11. PICK e \in Nat : /\ LRU!Footprint(d) = KeySize[k] + ValueSize[v] + e
                        /\ LRU!Footprint(c) = KeySize[k] + ValueSize[x] + e
  <2> DEFINE g == [y \in K \ {k} |-> c[y]]
  <2> HIDE DEF K, c, d, k, x
  <2>1. LRU!Footprint(d) = KeySize[k] + ValueSize[v] + LRU!Footprint(g)
    BY <1>5, <1>8, <1>9, FootprintStore
  <2>2. LRU!Footprint(c) = KeySize[k] + ValueSize[x] + LRU!Footprint(g) /\ LRU!Footprint(g) \in Nat
    BY <1>5, <1>9, FootprintDrop
  <2> QED
    BY <2>1, <2>2
<1>12. KeySize[k] \in Nat /\ ValueSize[v] \in Nat /\ ValueSize[x] \in Nat /\ k \in Keys
  BY <1>5, <1>9, StoreAssumption
<1>13. /\ totalKeyValueSize' = LRU!Footprint(d) /\ totalKeyValueSize' \in Nat
       /\ totalKeyValueSize' <= totalKeyValueSize + MaxEntry
  <2>1. KeySize[k] + ValueSize[v] <= MaxEntry /\ MaxEntry \in Nat
    BY <1>12, MaxEntryBounds
  <2>2. totalKeyValueSize = LRU!Footprint(c)
    BY DEF CountsOk
  <2> HIDE DEF K, c, d, k, x
  <2> QED
    BY <1>1, <1>11, <1>12, <2>1, <2>2
<1>14. CountsOk'
  BY <1>1, <1>7, <1>8, <1>13 DEF CountsOk
<1>15. LRU!Store(k, v)
  <2>1. CacheMap = c /\ CacheMap' = d
    BY DEF CacheMap, MapOf
  <2>2. DOMAIN c = K
    BY <1>9
  <2>3. Touch(recency, k, K) = LRU!Touch(recency, k, K)
    BY DEF Without, LRU!Without, Touch, LRU!Touch
  <2> HIDE DEF c, d, K, k
  <2> QED
    BY <1>1, <1>8, <2>1, <2>2, <2>3 DEF LRU!Store
<1> QED
  BY <1>1, <1>3, <1>6, <1>10, <1>13, <1>14, <1>15 DEF RecordsBut, SameRecords

(***************************************************************************)
(* An access moves the record to the front, and changes the order of use   *)
(* only.                                                                   *)
(***************************************************************************)
LEMMA HitStep ==
  ASSUME TableOk, CountsOk, NEW p \in Alive(table), table' = accessEntry(table, p),
         recency' = Touch(recency, table.slots[p].key, KeysOf(table)),
         UNCHANGED <<totalKeyValueSize, numEntries, numDeadEntries>>
  PROVE  /\ TableOk' /\ CountsOk' /\ CacheMap' = CacheMap /\ table'.size = table.size
         /\ DOMAIN CacheMap = KeysOf(table) /\ table.slots[p].key \in KeysOf(table)
         /\ recency' = LRU!Touch(recency, table.slots[p].key, KeysOf(table))
<1> DEFINE K == KeysOf(table)
           k == table.slots[p].key
<1>1. GoodTable(table, recency) /\ IsTable(table)
  BY DEF TableOk, GoodTable
<1>2. /\ GoodTable(table', recency') /\ SameRecords(table, table')
      /\ Alive(table') = Alive(table) /\ Dead(table') = Dead(table)
  BY <1>1, AccessGood
<1>3. KeysOf(table') = K /\ MapOf(table') = MapOf(table)
  BY <1>1, <1>2, SameMap
<1>4. k \in K
  BY DEF KeysOf
<1>5. TableOk'
  <2>1. recency' \subseteq KeysOf(table') \X KeysOf(table')
    BY <1>3, <1>4 DEF TableOk, Touch, Without
  <2> QED
    BY <1>2, <2>1 DEF TableOk
<1>6. CountsOk'
  BY <1>2, <1>3 DEF CountsOk
<1>7. CacheMap = MapOf(table) /\ CacheMap' = MapOf(table') /\ DOMAIN MapOf(table) = K
  BY DEF CacheMap, MapOf
<1>8. Touch(recency, k, K) = LRU!Touch(recency, k, K)
  BY DEF Without, LRU!Without, Touch, LRU!Touch
<1> QED
  BY <1>2, <1>3, <1>4, <1>5, <1>6, <1>7, <1>8 DEF SameRecords

-----------------------------------------------------------------------------
(* Every step keeps the invariant, and is a step of LRUCache or stutters.  *)

(***************************************************************************)
(* The list in terms of the order of use of the keys.                      *)
(***************************************************************************)
Later(t, rec, p, q) == In(rec, t.slots[p].key, t.slots[q].key)

(***************************************************************************)
(* The list of a good table, link by link.                                 *)
(***************************************************************************)
LEMMA ListFacts ==
  ASSUME NEW t, NEW rec, GoodTable(t, rec)
  PROVE  /\ \A p \in Alive(t) : ~ Later(t, rec, p, p)
         /\ \A p, q, m \in Alive(t) : Later(t, rec, p, q) /\ Later(t, rec, q, m) => Later(t, rec, p, m)
         /\ \A p, q \in Alive(t) : p = q \/ Later(t, rec, p, q) \/ Later(t, rec, q, p)
         /\ t.head \in Alive(t) \union {Null} /\ t.tail \in Alive(t) \union {Null}
         /\ Alive(t) = {} <=> t.head = Null
         /\ Alive(t) = {} <=> t.tail = Null
         /\ \A p \in Alive(t) :
              /\ p # Null
              /\ t.slots[p].next \in Alive(t) \union {Null}
              /\ t.slots[p].prev \in Alive(t) \union {Null}
              /\ t.slots[p].next = Null <=> \A q \in Alive(t) : ~ Later(t, rec, p, q)
              /\ t.head = p <=> \A q \in Alive(t) : ~ Later(t, rec, q, p)
              /\ t.tail = p <=> \A q \in Alive(t) : ~ Later(t, rec, p, q)
              /\ \A q \in Alive(t) : t.slots[p].next = q <=>
                   /\ Later(t, rec, p, q)
                   /\ \A m \in Alive(t) : ~ (Later(t, rec, p, m) /\ Later(t, rec, m, q))
              /\ \A q \in Alive(t) : t.slots[q].prev = p <=>
                   /\ Later(t, rec, p, q)
                   /\ \A m \in Alive(t) : ~ (Later(t, rec, p, m) /\ Later(t, rec, m, q))
<1> DEFINE A == Alive(t)
           R == SlotOrder(t, rec)
<1>1. \A p, q \in A : In(R, p, q) <=> Later(t, rec, p, q)
  BY OrderIn DEF Later
<1>2. Ordered(A, R) /\ Linked(t, A, R) /\ \A p \in A : p # Null
  BY AliveSlots DEF GoodTable, ListOk
<1> HIDE DEF A, R
<1>3. /\ \A p \in A : ~ Later(t, rec, p, p)
      /\ \A p, q, m \in A : Later(t, rec, p, q) /\ Later(t, rec, q, m) => Later(t, rec, p, m)
      /\ \A p, q \in A : p = q \/ Later(t, rec, p, q) \/ Later(t, rec, q, p)
  BY <1>1, <1>2 DEF Ordered
<1>4. /\ t.head \in A \union {Null} /\ t.tail \in A \union {Null}
      /\ A = {} <=> t.head = Null
      /\ A = {} <=> t.tail = Null
  BY <1>2 DEF Linked
<1>5. ASSUME NEW p \in A
      PROVE  /\ t.slots[p].next \in A \union {Null}
             /\ t.slots[p].prev \in A \union {Null}
             /\ t.slots[p].next = Null <=> \A q \in A : ~ Later(t, rec, p, q)
             /\ t.head = p <=> \A q \in A : ~ Later(t, rec, q, p)
             /\ t.tail = p <=> \A q \in A : ~ Later(t, rec, p, q)
  BY <1>1, <1>2 DEF Linked
<1>6. ASSUME NEW p \in A, NEW q \in A
      PROVE  Adjacent(A, R, p, q) <=>
               /\ Later(t, rec, p, q)
               /\ \A m \in A : ~ (Later(t, rec, p, m) /\ Later(t, rec, m, q))
  BY <1>1 DEF Adjacent
<1>7. ASSUME NEW p \in A, NEW q \in A
      PROVE  /\ t.slots[p].next = q <=> Adjacent(A, R, p, q)
             /\ t.slots[q].prev = p <=> Adjacent(A, R, p, q)
  BY <1>2 DEF Linked
<1>8. ASSUME NEW p \in A, NEW q \in A
      PROVE  /\ t.slots[p].next = q <=>
                  /\ Later(t, rec, p, q)
                  /\ \A m \in A : ~ (Later(t, rec, p, m) /\ Later(t, rec, m, q))
             /\ t.slots[q].prev = p <=>
                  /\ Later(t, rec, p, q)
                  /\ \A m \in A : ~ (Later(t, rec, p, m) /\ Later(t, rec, m, q))
  BY <1>6, <1>7
<1> QED
  BY <1>2, <1>3, <1>4, <1>5, <1>8 DEF A

(***************************************************************************)
(* A new table is good: nothing is stored.                                 *)
(***************************************************************************)
LEMMA EmptyGood ==
  ASSUME NEW n \in Nat, n >= InitSize, NEW rec
  PROVE  LET t == NewTable(n)
         IN /\ GoodTable(t, rec) /\ Alive(t) = {} /\ Dead(t) = {} /\ KeysOf(t) = {} /\ t.size = n
<1> DEFINE t == NewTable(n)
<1>1. /\ t.size = n /\ t.head = Null /\ t.tail = Null /\ Slots(t) = 0 .. n - 1
      /\ t.slots = [p \in Slots(t) |-> EmptyRecord]
      /\ t = [size |-> t.size, slots |-> t.slots, head |-> t.head, tail |-> t.tail]
  BY DEF NewTable, Slots
<1>2. /\ EmptyRecord \in RecordType /\ EmptyRecord.state = "EMPTY"
      /\ EmptyRecord.prev = Null /\ EmptyRecord.next = Null
  BY DEF EmptyRecord, Record, RecordType
<1> HIDE DEF t
<1>3. \A p \in Slots(t) : t.slots[p] = EmptyRecord
  BY <1>1
<1>4. IsTable(t)
  BY <1>1, <1>2, <1>3 DEF IsTable
<1>5. Alive(t) = {} /\ Dead(t) = {} /\ KeysOf(t) = {}
  BY <1>2, <1>3 DEF Alive, Dead, KeysOf
<1>6. TypedRecords(t) /\ Found(t)
  BY <1>5 DEF TypedRecords, Found
<1>7. ListOk(t, rec)
  BY <1>1, <1>5 DEF ListOk, Ordered, Linked
<1> QED
  BY <1>1, <1>4, <1>5, <1>6, <1>7 DEF GoodTable, t

(***************************************************************************)
(* The initial state satisfies the invariant and maps to the initial state *)
(* of LRUCache.                                                            *)
(***************************************************************************)
LEMMA InitInv ==
  ASSUME Init
  PROVE  StoreInv /\ LRU!LRUInit
<1>1. InitSize \in Nat /\ InitSize >= 3
  BY StoreAssumption
<1>2. /\ GoodTable(table, recency) /\ Alive(table) = {} /\ Dead(table) = {} /\ KeysOf(table) = {}
      /\ table.size = InitSize
  BY <1>1, EmptyGood DEF Init
<1>3. MapOf(table) \in [{} -> Values] /\ MapOf(table) = [k \in {} |-> NoValue]
  BY <1>2 DEF MapOf
<1>4. LRU!Footprint(MapOf(table)) = 0
  BY <1>3, FootprintType
<1>5. Cardinality(KeysOf(table)) = 0 /\ Cardinality(Dead(table)) = 0
  BY <1>2, FS_EmptySet
<1>6. CountsOk
  BY <1>4, <1>5 DEF CountsOk, Init
<1>7. TableOk
  BY <1>2 DEF TableOk, Init
<1>8. LoadOk
  BY <1>1, <1>2 DEF LoadOk, Init
<1>9. MemoryOk
  <2>1. MaxEntry \in Nat
    BY StoreAssumption, MaxEntryBounds
  <2> QED
    BY <2>1, StoreAssumption DEF MemoryOk, Init, Normalizing
<1>10. OpOk /\ CursorOk /\ RehashOk
  BY DEF Init, OpOk, CursorOk, RehashOk, Normalizing, Rehashing
<1>11. LRU!LRUInit
  <2>1. CacheMap = MapOf(table)
    BY DEF CacheMap, MapOf
  <2> QED
    BY <1>3, <2>1 DEF Init, LRU!LRUInit, LRU!NoJob, LRU!Job, NoOp, Op
<1> QED
  BY <1>6, <1>7, <1>8, <1>9, <1>10, <1>11 DEF StoreInv

Simulates == LRU!LRUNext \/ UNCHANGED LRU!lruVars

(***************************************************************************)
(* A step that leaves the store alone keeps what is said of it.            *)
(***************************************************************************)
LEMMA SameStore ==
  ASSUME TableOk, CountsOk, UNCHANGED storeVars
  PROVE  /\ TableOk' /\ CountsOk' /\ UNCHANGED <<CacheMap, recency>>
         /\ Alive(table') = Alive(table) /\ KeysOf(table') = KeysOf(table)
<1>1. /\ table' = table /\ recency' = recency /\ numEntries' = numEntries
      /\ numDeadEntries' = numDeadEntries /\ totalKeyValueSize' = totalKeyValueSize
  BY DEF storeVars
<1> QED
  BY <1>1 DEF TableOk, CountsOk, CacheMap, KeysOf, Alive, Slots

(***************************************************************************)
(* What the abstract specification sees of the store.                      *)
(***************************************************************************)
LEMMA Seen ==
  ASSUME TableOk, CountsOk
  PROVE  /\ CacheMap = MapOf(table) /\ DOMAIN CacheMap = KeysOf(table)
         /\ LRU!Footprint(CacheMap) = totalKeyValueSize
         /\ KeysOf(table) \subseteq Keys
         /\ \A p \in Alive(table) : /\ table.slots[p].key \in KeysOf(table)
                                    /\ CacheMap[table.slots[p].key] = table.slots[p].value
<1>1. CacheMap = MapOf(table)
  BY DEF CacheMap, MapOf
<1>2. GoodTable(table, recency)
  BY DEF TableOk
<1>3. /\ KeysOf(table) \in SUBSET Keys /\ MapOf(table) \in [KeysOf(table) -> Values]
      /\ \A p \in Alive(table) : /\ table.slots[p].key \in KeysOf(table)
                                 /\ MapOf(table)[table.slots[p].key] = table.slots[p].value
  BY <1>2, MapAt
<1> QED
  BY <1>1, <1>3 DEF CountsOk

(***************************************************************************)
(* A put or a propagate begins: an abstract job begins.                    *)
(***************************************************************************)
LEMMA BeginStep ==
  ASSUME StoreInv, NEW kind \in {"put", "propagate"}, NEW k \in Keys, NEW v \in Values,
         Begin(kind, k, v)
  PROVE  StoreInv' /\ Simulates
<1>1. /\ pc = "idle" /\ pc' = "evict" /\ op' = Op(kind, k, v, {}) /\ op = NoOp
      /\ UNCHANGED storeVars /\ cursor' = cursor /\ newTable' = newTable /\ cursor = Null
      /\ newTable = NewTable(InitSize)
  BY DEF StoreInv, OpOk, CursorOk, RehashOk, Begin, loopVars, Rehashing
<1>2. TableOk' /\ CountsOk' /\ UNCHANGED <<CacheMap, recency>>
  BY <1>1, SameStore DEF StoreInv
<1>3. OpOk'
  BY <1>1 DEF OpOk, Op, Normalizing
<1>4. CursorOk' /\ RehashOk'
  BY <1>1 DEF CursorOk, RehashOk, Rehashing
<1>5. LoadOk' /\ MemoryOk'
  BY <1>1 DEF StoreInv, LoadOk, MemoryOk, storeVars, Normalizing
<1>6. LRU!Begin
  BY <1>1, <1>2 DEF LRU!Begin, LRU!NoJob, LRU!Job, NoOp, Op
<1> QED
  BY <1>2, <1>3, <1>4, <1>5, <1>6 DEF StoreInv, Simulates, LRU!LRUNext

(***************************************************************************)
(* evictEntry removes the tail, the key used least recently.               *)
(***************************************************************************)
LEMMA EvictStep ==
  ASSUME StoreInv, EvictEntry
  PROVE  StoreInv' /\ Simulates
<1> DEFINE p == table.tail
           k == table.slots[p].key
<1>1. /\ pc = "evict" /\ totalKeyValueSize > MemoryLimit /\ p # Null /\ RemoveAt(p)
      /\ UNCHANGED <<pc, op, cursor, newTable>>
  BY DEF EvictEntry, loopVars
<1>2. TableOk /\ CountsOk /\ LoadOk /\ MemoryOk /\ GoodTable(table, recency)
  BY DEF StoreInv, TableOk
<1>3. p \in Alive(table) /\ \A q \in Alive(table) : q = p \/ Later(table, recency, q, p)
  BY <1>1, <1>2, ListFacts
<1>4. /\ numEntries \in Nat /\ numDeadEntries \in Nat /\ totalKeyValueSize \in Nat
      /\ table.size \in Nat
  BY <1>2, CountsNat
<1>5. /\ TableOk' /\ CountsOk' /\ LRU!Drop(k) /\ table'.size = table.size
      /\ numEntries' = numEntries - 1 /\ numDeadEntries' = numDeadEntries + 1
      /\ totalKeyValueSize' \in Nat /\ totalKeyValueSize' <= totalKeyValueSize
  BY <1>1, <1>2, <1>3, RemoveStep
<1>7. LoadOk' /\ MemoryOk'
  <2>1. MaxEntry \in Nat /\ MemoryLimit \in Nat
    BY StoreAssumption, MaxEntryBounds
  <2> QED
    BY <1>1, <1>2, <1>4, <1>5, <2>1 DEF LoadOk, MemoryOk, Normalizing
<1>8. OpOk' /\ CursorOk' /\ RehashOk'
  BY <1>1 DEF StoreInv, OpOk, CursorOk, RehashOk, Normalizing, Rehashing
<1>9. LRU!Evict(k) /\ k \in Keys
  <2>1. op.kind \in {"put", "propagate"}
    BY <1>1 DEF StoreInv, OpOk, Normalizing
  <2>2. LRU!Footprint(CacheMap) > MemoryLimit /\ DOMAIN CacheMap = KeysOf(table) /\ k \in Keys
    BY <1>1, <1>2, <1>3, Seen
  <2>3. \A o \in KeysOf(table) \ {k} : <<o, k>> \in recency
    BY <1>3 DEF KeysOf, Later, In
  <2> HIDE DEF k, p
  <2> QED
    BY <1>1, <1>5, <2>1, <2>2, <2>3 DEF LRU!Evict
<1> QED
  BY <1>5, <1>7, <1>8, <1>9 DEF StoreInv, Simulates, LRU!LRUNext

(***************************************************************************)
(* The start of rehash, with an empty table and at the head of the list.   *)
(***************************************************************************)
LEMMA StartStep ==
  ASSUME StoreInv, NEW n \in Nat, n >= table.size, StartRehash(n), UNCHANGED storeVars,
         pc' \in Rehashing, n = IF pc' = "grow" THEN 2 * table.size ELSE table.size
  PROVE  CursorOk' /\ RehashOk'
<1>1. /\ newTable' = NewTable(n) /\ cursor' = table.head /\ table' = table /\ recency' = recency
  BY DEF StartRehash, storeVars
<1>2. GoodTable(table, recency) /\ IsTable(table)
  BY DEF StoreInv, TableOk, GoodTable
<1>3. n >= InitSize
  BY <1>2, StoreAssumption DEF IsTable
<1>4. /\ GoodTable(newTable', recency') /\ Alive(newTable') = {} /\ Dead(newTable') = {}
      /\ KeysOf(newTable') = {} /\ newTable'.size = n
  BY <1>1, <1>3, EmptyGood
<1>5. /\ table.head \in Alive(table) \union {Null}
      /\ table.head = Null => Alive(table) = {}
      /\ table.head # Null => \A q \in Alive(table) : ~ Later(table, recency, q, table.head)
  BY <1>2, ListFacts
<1>6. Passed' = {}
  BY <1>1, <1>5 DEF Passed, Later
<1>7. {table.slots[p].key : p \in Passed}' = {}
  BY <1>6
<1>8. CursorOk'
  BY <1>1, <1>5 DEF CursorOk, Rehashing
<1> QED
  BY <1>1, <1>4, <1>6, <1>7, <1>8 DEF RehashOk, Rehashing

(***************************************************************************)
(* The two load checks of normalizeTable start a rehash or go on; neither  *)
(* is visible in the abstract map.                                         *)
(***************************************************************************)
LEMMA CheckStep ==
  ASSUME StoreInv, CheckGrow \/ CheckCompact
  PROVE  StoreInv' /\ Simulates
<1>1. UNCHANGED storeVars /\ op' = op
  BY DEF CheckGrow, CheckCompact
<1>2. TableOk' /\ CountsOk' /\ UNCHANGED <<CacheMap, recency>>
  BY <1>1, SameStore DEF StoreInv
<1>3. Simulates
  BY <1>1, <1>2 DEF Simulates, LRU!lruVars
<1>4. /\ pc \in Normalizing /\ pc' \in Normalizing \ {"evict"}
      /\ pc = "check" \/ totalKeyValueSize <= MemoryLimit
  BY DEF CheckGrow, CheckCompact, Normalizing
<1>5. OpOk'
  BY <1>1, <1>4 DEF StoreInv, OpOk, Normalizing
<1>6. MemoryOk'
  BY <1>1, <1>4 DEF StoreInv, MemoryOk, storeVars, Normalizing
<1>7. numEntries \in Nat /\ numDeadEntries \in Nat /\ table.size \in Nat
  BY CountsNat DEF StoreInv
<1>8. LoadOk'
  BY <1>1, <1>7 DEF StoreInv, LoadOk, storeVars, CheckGrow, CheckCompact
<1>9. CursorOk' /\ RehashOk'
  <2>1. CASE pc' \notin Rehashing
    <3>1. cursor' = cursor /\ newTable' = newTable /\ pc \notin Rehashing /\ pc' \notin Rehashing /\ pc' # "clean"
      BY <2>1 DEF CheckGrow, CheckCompact, loopVars, Rehashing
    <3> QED
      BY <1>4, <3>1 DEF StoreInv, CursorOk, RehashOk, Normalizing, Rehashing
  <2>2. CASE CheckGrow /\ pc' = "grow" /\ StartRehash(2 * table.size)
    <3>1. 2 * table.size \in Nat /\ 2 * table.size >= table.size
      BY <1>7
    <3> QED
      BY <1>1, <2>2, <3>1, StartStep DEF Rehashing
  <2>3. CASE CheckCompact /\ pc' = "compact" /\ StartRehash(table.size)
    <3>1. table.size >= table.size
      BY <1>7
    <3> QED
      BY <1>1, <1>7, <2>3, <3>1, StartStep DEF Rehashing
  <2> QED
    BY <2>1, <2>2, <2>3 DEF CheckGrow, CheckCompact, Rehashing
<1> QED
  BY <1>2, <1>3, <1>5, <1>6, <1>8, <1>9 DEF StoreInv

(***************************************************************************)
(* An iteration of rehash passes one more record.                          *)
(***************************************************************************)
LEMMA RehashIteration ==
  ASSUME StoreInv, RehashStep
  PROVE  StoreInv' /\ Simulates
<1> DEFINE r == table.slots[cursor]
           c == table.slots[cursor].next
<1>1. PICK p \in Slots(newTable) :
        /\ AtFree(newTable, r.key, p)
        /\ newTable' = appendRecord(newTable, p, r)
  BY DEF RehashStep
<1>2. /\ pc \in Rehashing /\ cursor # Null /\ cursor' = c
      /\ UNCHANGED storeVars /\ pc' = pc /\ op' = op /\ table' = table /\ recency' = recency
  BY DEF RehashStep, Rehashing, storeVars
<1>3. /\ GoodTable(table, recency) /\ GoodTable(newTable, recency) /\ Dead(newTable) = {}
      /\ newTable.size = (IF pc = "grow" THEN 2 * table.size ELSE table.size)
      /\ KeysOf(newTable) = {table.slots[q].key : q \in Passed}
      /\ \A q \in Passed, s \in Alive(newTable) :
           newTable.slots[s].key = table.slots[q].key =>
             newTable.slots[s].value = table.slots[q].value
      /\ cursor \in Alive(table)
  BY <1>2 DEF StoreInv, TableOk, RehashOk, CursorOk
<1>4. /\ r \in RecordType /\ r.key \in Keys /\ r.value \in Values
  BY <1>3, AliveSlots DEF GoodTable, TypedRecords
<1>5. Passed = {q \in Alive(table) : Later(table, recency, q, cursor)}
  BY <1>2 DEF Passed, Later
<1>6. /\ \A q \in Alive(table) : ~ Later(table, recency, q, q)
      /\ \A q, s, m \in Alive(table) :
           Later(table, recency, q, s) /\ Later(table, recency, s, m) => Later(table, recency, q, m)
      /\ \A q, s \in Alive(table) : q = s \/ Later(table, recency, q, s) \/ Later(table, recency, s, q)
      /\ c \in Alive(table) \union {Null}
      /\ \A q \in Alive(table) : q # Null
      /\ c = Null <=> \A q \in Alive(table) : ~ Later(table, recency, cursor, q)
      /\ \A q \in Alive(table) : c = q <=>
           /\ Later(table, recency, cursor, q)
           /\ \A m \in Alive(table) : ~ (Later(table, recency, cursor, m) /\ Later(table, recency, m, q))
  BY <1>3, ListFacts
<1>7. ASSUME NEW s \in Alive(newTable)
      PROVE  /\ In(recency, newTable.slots[s].key, r.key) /\ ~ In(recency, r.key, newTable.slots[s].key)
             /\ newTable.slots[s].key # r.key
  <2>1. PICK q \in Passed : newTable.slots[s].key = table.slots[q].key
    BY <1>3 DEF KeysOf
  <2>2. q \in Alive(table) /\ Later(table, recency, q, cursor) /\ ~ Later(table, recency, cursor, q)
    BY <1>3, <1>5, <1>6
  <2>3. table.slots[q].key # r.key
    BY <1>3, <1>6, <2>2 DEF Later
  <2> QED
    BY <2>1, <2>2, <2>3 DEF Later
<1>8. ~ In(recency, r.key, r.key)
  BY <1>3, <1>6 DEF Later
<1>9. /\ GoodTable(newTable', recency) /\ RecordsBut(newTable, newTable', p)
      /\ Alive(newTable') = Alive(newTable) \union {p} /\ Dead(newTable') = {}
      /\ newTable'.slots[p].key = r.key /\ newTable'.slots[p].value = r.value
  <2> HIDE DEF r
  <2> QED
    BY <1>1, <1>3, <1>4, <1>7, <1>8, AppendGood
<1>10. Passed' = Passed \union {cursor}
  <2>1. Passed' = {q \in Alive(table) : c = Null \/ Later(table, recency, q, c)}
    BY <1>2 DEF Passed, Later
  <2>2. \A q \in Alive(table) :
          (c = Null \/ Later(table, recency, q, c)) <=> (q = cursor \/ Later(table, recency, q, cursor))
    BY <1>3, <1>6
  <2> QED
    BY <1>3, <1>5, <2>1, <2>2
<1>11. \A s \in Alive(newTable) : s # p /\ newTable'.slots[s].key = newTable.slots[s].key
                                 /\ newTable'.slots[s].value = newTable.slots[s].value
  <2>1. \A s \in Alive(newTable) : s \in Slots(newTable) /\ s # p
    BY <1>1 DEF Alive, AtFree
  <2> QED
    BY <1>9, <2>1 DEF RecordsBut
<1>12. KeysOf(newTable') = {table.slots[q].key : q \in Passed'}
  <2>1. KeysOf(newTable') = KeysOf(newTable) \union {r.key}
    BY <1>9, <1>11 DEF KeysOf
  <2>2. {table.slots[q].key : q \in Passed'} = {table.slots[q].key : q \in Passed} \union {r.key}
    BY <1>10
  <2> QED
    BY <1>3, <2>1, <2>2
<1>13. ASSUME NEW q \in Passed', NEW s \in Alive(newTable'),
              newTable'.slots[s].key = table.slots[q].key
       PROVE  newTable'.slots[s].value = table.slots[q].value
  <2>1. q \in Alive(table)
    BY <1>3, <1>5, <1>10
  <2>2. CASE q = cursor
    <3>1. s = p
      BY <1>7, <1>9, <1>11, <1>13, <2>2
    <3> QED
      BY <1>9, <2>2, <3>1
  <2>3. CASE q # cursor
    <3>1. q \in Passed
      BY <1>10, <2>3
    <3>2. table.slots[q].key # r.key
      BY <1>3, <2>1, <2>3, KeysDistinct DEF GoodTable
    <3>3. s \in Alive(newTable)
      BY <1>9, <1>13, <3>2
    <3> QED
      BY <1>3, <1>11, <1>13, <3>1, <3>3
  <2> QED
    BY <2>2, <2>3
<1>14. newTable'.size = newTable.size
  BY <1>9 DEF RecordsBut
<1>15. RehashOk'
  BY <1>2, <1>3, <1>9, <1>12, <1>13, <1>14 DEF RehashOk
<1>16. CursorOk'
  BY <1>2, <1>6 DEF CursorOk, Rehashing
<1>17. TableOk' /\ CountsOk' /\ UNCHANGED <<CacheMap, recency>>
  BY <1>2, SameStore DEF StoreInv
<1>18. OpOk' /\ LoadOk' /\ MemoryOk'
  BY <1>2 DEF StoreInv, OpOk, LoadOk, MemoryOk, storeVars
<1>19. Simulates
  BY <1>2, <1>17 DEF Simulates, LRU!lruVars
<1> QED
  BY <1>15, <1>16, <1>17, <1>18, <1>19 DEF StoreInv

(***************************************************************************)
(* The new table has all the records, so it stands for the same map.       *)
(***************************************************************************)
LEMMA RehashEnd ==
  ASSUME StoreInv, RehashDone
  PROVE  StoreInv' /\ Simulates
<1>1. /\ pc \in Rehashing /\ cursor = Null /\ table' = newTable /\ newTable' = NewTable(InitSize)
      /\ numDeadEntries' = 0 /\ pc' = (IF pc = "grow" THEN "check" ELSE "apply")
      /\ UNCHANGED <<totalKeyValueSize, numEntries, recency, op, cursor>>
  BY DEF RehashDone, Rehashing
<1>2. /\ GoodTable(table, recency) /\ GoodTable(newTable, recency) /\ Dead(newTable) = {}
      /\ newTable.size = (IF pc = "grow" THEN 2 * table.size ELSE table.size)
      /\ KeysOf(newTable) = {table.slots[q].key : q \in Passed}
      /\ \A q \in Passed, s \in Alive(newTable) :
           newTable.slots[s].key = table.slots[q].key =>
             newTable.slots[s].value = table.slots[q].value
  BY <1>1 DEF StoreInv, TableOk, RehashOk
<1>3. Passed = Alive(table)
  BY <1>1 DEF Passed
<1>4. KeysOf(newTable) = KeysOf(table)
  BY <1>2, <1>3 DEF KeysOf
<1>5. MapOf(newTable) = MapOf(table)
  <2>1. MapOf(table) = [k \in KeysOf(table) |-> MapOf(table)[k]]
    BY DEF MapOf
  <2>2. ASSUME NEW s \in Alive(newTable) PROVE MapOf(table)[newTable.slots[s].key] = newTable.slots[s].value
    <3>1. newTable.slots[s].key \in KeysOf(table)
      BY <1>4 DEF KeysOf
    <3>2. PICK q \in Alive(table) : newTable.slots[s].key = table.slots[q].key
      BY <3>1 DEF KeysOf
    <3>3. MapOf(table)[table.slots[q].key] = table.slots[q].value
      BY <1>2, MapAt
    <3> QED
      BY <1>2, <1>3, <3>2, <3>3
  <2> QED
    BY <1>2, <1>4, <2>1, <2>2, MapIs
<1>6. TableOk'
  BY <1>1, <1>2, <1>4 DEF StoreInv, TableOk
<1>7. CountsOk'
  <2>1. Cardinality(Dead(newTable)) = 0
    BY <1>2, FS_EmptySet
  <2> QED
    BY <1>1, <1>4, <1>5, <2>1 DEF StoreInv, CountsOk
<1>8. CacheMap' = CacheMap
  <2>1. CacheMap = MapOf(table) /\ CacheMap' = MapOf(table')
    BY DEF CacheMap, MapOf
  <2> QED
    BY <1>1, <1>5, <2>1
<1>9. Simulates
  BY <1>1, <1>8 DEF Simulates, LRU!lruVars
<1>10. LoadOk'
  <2>1. numEntries \in Nat /\ numDeadEntries \in Nat /\ table.size \in Nat
    BY CountsNat DEF StoreInv
  <2>2. table.size >= 3
    BY <1>2, StoreAssumption, <2>1 DEF GoodTable, IsTable
  <2>3. /\ 4 * numEntries <= table.size + 4
        /\ pc = "compact" => 4 * numEntries <= table.size
    BY DEF StoreInv, LoadOk
  <2>4. CASE pc = "grow"
    <3>1. numEntries' = numEntries /\ numDeadEntries' = 0 /\ table'.size = 2 * table.size /\ pc' = "check"
      BY <1>1, <1>2, <2>4
    <3>2. 4 * numEntries <= 2 * table.size /\ 2 * (numEntries + 0) <= 2 * table.size + 2
      BY <2>1, <2>2, <2>3
    <3> QED
      BY <2>1, <3>1, <3>2 DEF LoadOk
  <2>5. CASE pc = "compact"
    <3>1. numEntries' = numEntries /\ numDeadEntries' = 0 /\ table'.size = table.size /\ pc' = "apply"
      BY <1>1, <1>2, <2>5
    <3> QED
      BY <2>1, <2>3, <2>5, <3>1 DEF LoadOk
  <2> QED
    BY <1>1, <2>4, <2>5 DEF Rehashing
<1>11. OpOk' /\ CursorOk' /\ RehashOk' /\ MemoryOk'
  BY <1>1 DEF StoreInv, OpOk, CursorOk, RehashOk, MemoryOk, Normalizing, Rehashing
<1> QED
  BY <1>6, <1>7, <1>9, <1>10, <1>11 DEF StoreInv

(***************************************************************************)
(* An operation that ends leaves the loop variables as rehash found them.  *)
(***************************************************************************)
LEMMA IdleAgain ==
  ASSUME cursor' = Null, newTable' = NewTable(InitSize), pc' = "idle", op' = NoOp
  PROVE  OpOk' /\ CursorOk' /\ RehashOk'
BY DEF OpOk, CursorOk, RehashOk, Normalizing, Rehashing

(***************************************************************************)
(* The load and the memory in use after an operation: a record more is     *)
(* allowed only just after normalizeTable.                                 *)
(***************************************************************************)
LEMMA IdleLoad ==
  ASSUME StoreInv, pc' = "idle", table'.size = table.size, totalKeyValueSize' \in Nat,
         \/ numEntries' = numEntries /\ numDeadEntries' = numDeadEntries
         \/ numEntries' = numEntries - 1 /\ numDeadEntries' = numDeadEntries + 1
         \/ pc = "apply" /\ numEntries' = numEntries + 1 /\ numDeadEntries' = numDeadEntries,
         \/ totalKeyValueSize' <= totalKeyValueSize
         \/ pc = "apply" /\ totalKeyValueSize' <= totalKeyValueSize + MaxEntry
  PROVE  LoadOk' /\ MemoryOk'
<1>1. /\ numEntries \in Nat /\ numDeadEntries \in Nat /\ totalKeyValueSize \in Nat
      /\ table.size \in Nat
  BY CountsNat DEF StoreInv
<1>2. MaxEntry \in Nat /\ MemoryLimit \in Nat
  BY StoreAssumption, MaxEntryBounds
<1>3. LoadOk'
  BY <1>1 DEF StoreInv, LoadOk
<1>4. MemoryOk'
  BY <1>1, <1>2 DEF StoreInv, MemoryOk, Normalizing
<1> QED
  BY <1>3, <1>4

(***************************************************************************)
(* What put and propagate find once the table is normalized.               *)
(***************************************************************************)
LEMMA ApplyFacts ==
  ASSUME StoreInv, pc = "apply", Finish, UNCHANGED loopVars
  PROVE  /\ op.kind \in {"put", "propagate"} /\ op.key \in Keys /\ op.value \in Values
         /\ LRU!Footprint(CacheMap) <= MemoryLimit
         /\ op' = LRU!NoJob /\ OpOk' /\ CursorOk' /\ RehashOk' /\ pc' = "idle"
<1>1. /\ op.kind \in {"put", "propagate"} /\ op.key \in Keys /\ op.value \in Values
      /\ cursor = Null /\ newTable = NewTable(InitSize) /\ totalKeyValueSize <= MemoryLimit
  BY DEF StoreInv, OpOk, CursorOk, RehashOk, MemoryOk, Normalizing, Rehashing
<1>2. LRU!Footprint(CacheMap) <= MemoryLimit
  BY <1>1, Seen DEF StoreInv
<1>3. /\ cursor' = Null /\ newTable' = NewTable(InitSize) /\ pc' = "idle" /\ op' = NoOp
  BY <1>1 DEF Finish, loopVars
<1>4. OpOk' /\ CursorOk' /\ RehashOk'
  BY <1>3, IdleAgain
<1> QED
  BY <1>1, <1>2, <1>3, <1>4 DEF LRU!NoJob, LRU!Job, NoOp, Op

(***************************************************************************)
(* put stores the value, in the record of the key or in a new one.         *)
(***************************************************************************)
LEMMA StoreStep ==
  ASSUME StoreInv, pc = "apply", Finish, UNCHANGED loopVars, NEW p, AtPosition(table, op.key, p),
         \/ table.slots[p].state = "ALIVE" /\ UpdateAt(p, op.value)
         \/ table.slots[p].state # "ALIVE" /\ AddAt(p, op.key, op.value)
  PROVE  StoreInv' /\ Simulates
<1>1. /\ op.kind \in {"put", "propagate"} /\ op.key \in Keys /\ op.value \in Values
      /\ LRU!Footprint(CacheMap) <= MemoryLimit
      /\ op' = LRU!NoJob /\ OpOk' /\ CursorOk' /\ RehashOk' /\ pc' = "idle"
  BY ApplyFacts
<1>2. TableOk /\ CountsOk
  BY DEF StoreInv
<1>3. /\ TableOk' /\ CountsOk' /\ LRU!Store(op.key, op.value) /\ table'.size = table.size
      /\ \/ numEntries' = numEntries
         \/ numEntries' = numEntries + 1
      /\ numDeadEntries' = numDeadEntries
      /\ totalKeyValueSize' \in Nat /\ totalKeyValueSize' <= totalKeyValueSize + MaxEntry
  <2>1. CASE table.slots[p].state = "ALIVE" /\ UpdateAt(p, op.value)
    <3>1. p \in Alive(table) /\ table.slots[p].key = op.key
      BY <2>1 DEF AtPosition, Stops, Alive
    <3> QED
      BY <1>1, <1>2, <2>1, <3>1, UpdateStep
  <2>2. CASE table.slots[p].state # "ALIVE" /\ AddAt(p, op.key, op.value)
    BY <1>1, <1>2, <2>2, AddStep
  <2> QED
    BY <2>1, <2>2
<1>4. LoadOk' /\ MemoryOk'
  BY <1>1, <1>3, IdleLoad
<1>5. LRU!Perform
  BY <1>1, <1>3 DEF LRU!Perform
<1> QED
  BY <1>1, <1>2, <1>3, <1>4, <1>5 DEF StoreInv, Simulates, LRU!LRUNext

(***************************************************************************)
(* put, once the table is normalized.                                      *)
(***************************************************************************)
LEMMA PutStep ==
  ASSUME StoreInv, ApplyPut
  PROVE  StoreInv' /\ Simulates
<1>1. PICK p \in Slots(table) :
        /\ AtPosition(table, op.key, p)
        /\ \/ table.slots[p].state = "ALIVE" /\ UpdateAt(p, op.value)
           \/ table.slots[p].state # "ALIVE" /\ AddAt(p, op.key, op.value)
  BY DEF ApplyPut
<1>2. pc = "apply" /\ Finish /\ UNCHANGED loopVars
  BY DEF ApplyPut
<1> QED
  BY <1>1, <1>2, StoreStep

(***************************************************************************)
(* propagate stores the entry, keeps the record, or drops it.              *)
(***************************************************************************)
LEMMA PropagateStep ==
  ASSUME StoreInv, ApplyPropagate
  PROVE  StoreInv' /\ Simulates
<1>1. pc = "apply" /\ op.kind = "propagate" /\ Finish /\ UNCHANGED loopVars
  BY DEF ApplyPropagate
<1>2. PICK p \in Slots(table) :
        /\ AtPosition(table, op.key, p)
        /\ \/ table.slots[p].state # "ALIVE" /\ AddAt(p, op.key, op.value)
           \/ table.slots[p].state = "ALIVE" /\ UNCHANGED storeVars
           \/ table.slots[p].state = "ALIVE" /\ UpdateAt(p, op.value)
           \/ /\ table.slots[p].state = "ALIVE"
              /\ op.value # table.slots[p].value
              /\ RemoveAt(p)
  BY DEF ApplyPropagate
<1>3. /\ LRU!Footprint(CacheMap) <= MemoryLimit
      /\ op' = LRU!NoJob /\ OpOk' /\ CursorOk' /\ RehashOk' /\ pc' = "idle"
  BY <1>1, ApplyFacts
<1>4. TableOk /\ CountsOk
  BY DEF StoreInv
<1>5. ASSUME table.slots[p].state = "ALIVE"
      PROVE  /\ p \in Alive(table) /\ table.slots[p].key = op.key
             /\ op.key \in DOMAIN CacheMap /\ CacheMap[op.key] = table.slots[p].value
  <2>1. p \in Alive(table) /\ table.slots[p].key = op.key
    BY <1>2, <1>5 DEF AtPosition, Stops, Alive
  <2> QED
    BY <1>4, <2>1, Seen
<1>6. CASE \/ table.slots[p].state # "ALIVE" /\ AddAt(p, op.key, op.value)
           \/ table.slots[p].state = "ALIVE" /\ UpdateAt(p, op.value)
  BY <1>1, <1>2, <1>6, StoreStep
<1>7. CASE table.slots[p].state = "ALIVE" /\ UNCHANGED storeVars
  <2>1. /\ TableOk' /\ CountsOk' /\ UNCHANGED <<CacheMap, recency>>
        /\ table' = table /\ numEntries' = numEntries /\ numDeadEntries' = numDeadEntries
        /\ totalKeyValueSize' = totalKeyValueSize
    BY <1>4, <1>7, SameStore DEF storeVars
  <2>2. totalKeyValueSize \in Nat
    BY <1>4, CountsNat
  <2>3. totalKeyValueSize' \in Nat /\ totalKeyValueSize' <= totalKeyValueSize /\ table'.size = table.size
    BY <2>1, <2>2
  <2>4. LoadOk' /\ MemoryOk'
    BY <1>3, <2>1, <2>3, IdleLoad
  <2>5. LRU!Perform
    BY <1>1, <1>3, <1>5, <1>7, <2>1 DEF LRU!Perform
  <2> QED
    BY <1>3, <2>1, <2>4, <2>5 DEF StoreInv, Simulates, LRU!LRUNext
<1>8. CASE table.slots[p].state = "ALIVE" /\ op.value # table.slots[p].value /\ RemoveAt(p)
  <2>1. /\ TableOk' /\ CountsOk' /\ LRU!Drop(op.key) /\ table'.size = table.size
        /\ numEntries' = numEntries - 1 /\ numDeadEntries' = numDeadEntries + 1
        /\ totalKeyValueSize' \in Nat /\ totalKeyValueSize' <= totalKeyValueSize
    BY <1>4, <1>5, <1>8, RemoveStep
  <2>2. LoadOk' /\ MemoryOk'
    BY <1>3, <2>1, IdleLoad
  <2>3. LRU!Perform
    BY <1>1, <1>3, <1>5, <1>8, <2>1 DEF LRU!Perform
  <2> QED
    BY <1>3, <2>1, <2>2, <2>3 DEF StoreInv, Simulates, LRU!LRUNext
<1> QED
  BY <1>2, <1>6, <1>7, <1>8

(***************************************************************************)
(* get uses the record it finds; an invalidation removes it.               *)
(***************************************************************************)
LEMMA GetStep ==
  ASSUME StoreInv, NEW k \in Keys, Get(k)
  PROVE  StoreInv' /\ Simulates
<1>1. PICK p \in Slots(table) :
        /\ AtPosition(table, k, p) /\ table.slots[p].state = "ALIVE" /\ table' = accessEntry(table, p)
  BY DEF Get
<1>2. /\ pc = "idle" /\ recency' = Touch(recency, k, KeysOf(table))
      /\ UNCHANGED <<totalKeyValueSize, numEntries, numDeadEntries>>
      /\ pc' = pc /\ op' = op /\ cursor' = cursor /\ newTable' = newTable
  BY DEF Get, loopVars
<1>3. /\ TableOk /\ CountsOk /\ op = NoOp /\ cursor = Null /\ newTable = NewTable(InitSize)
  BY <1>2 DEF StoreInv, OpOk, CursorOk, RehashOk, Rehashing
<1>4. p \in Alive(table) /\ table.slots[p].key = k
  BY <1>1 DEF AtPosition, Stops, Alive
<1>5. /\ TableOk' /\ CountsOk' /\ CacheMap' = CacheMap /\ table'.size = table.size
      /\ DOMAIN CacheMap = KeysOf(table) /\ k \in KeysOf(table)
      /\ recency' = LRU!Touch(recency, k, KeysOf(table))
  BY <1>1, <1>2, <1>3, <1>4, HitStep
<1>6. OpOk' /\ CursorOk' /\ RehashOk'
  BY <1>2, <1>3, IdleAgain
<1>7. totalKeyValueSize \in Nat
  BY <1>3, CountsNat
<1>8. LoadOk' /\ MemoryOk'
  BY <1>2, <1>5, <1>7, IdleLoad
<1>9. LRU!Hit(k)
  BY <1>2, <1>3, <1>5 DEF LRU!Hit, LRU!NoJob, LRU!Job, NoOp, Op
<1> QED
  BY <1>5, <1>6, <1>8, <1>9 DEF StoreInv, Simulates, LRU!LRUNext

(***************************************************************************)
(* The removal of an invalidated key by antiEntropyHandler.                *)
(***************************************************************************)
LEMMA InvalidateStep ==
  ASSUME StoreInv, NEW k \in Keys, Invalidate(k)
  PROVE  StoreInv' /\ Simulates
<1>1. PICK p \in Slots(table) :
        /\ AtPosition(table, k, p) /\ table.slots[p].state = "ALIVE" /\ RemoveAt(p)
  BY DEF Invalidate
<1>2. pc = "idle" /\ pc' = pc /\ op' = op /\ cursor' = cursor /\ newTable' = newTable
  BY DEF Invalidate, loopVars
<1>3. /\ TableOk /\ CountsOk /\ op = NoOp /\ cursor = Null /\ newTable = NewTable(InitSize)
  BY <1>2 DEF StoreInv, OpOk, CursorOk, RehashOk, Rehashing
<1>4. p \in Alive(table) /\ table.slots[p].key = k
  BY <1>1 DEF AtPosition, Stops, Alive
<1>5. /\ TableOk' /\ CountsOk' /\ LRU!Drop(k) /\ table'.size = table.size
      /\ numEntries' = numEntries - 1 /\ numDeadEntries' = numDeadEntries + 1
      /\ totalKeyValueSize' \in Nat /\ totalKeyValueSize' <= totalKeyValueSize
  BY <1>1, <1>3, <1>4, RemoveStep
<1>6. OpOk' /\ CursorOk' /\ RehashOk'
  BY <1>2, <1>3, IdleAgain
<1>7. LoadOk' /\ MemoryOk'
  BY <1>2, <1>5, IdleLoad
<1>8. LRU!Invalidate(k)
  BY <1>2, <1>3, <1>5 DEF LRU!Invalidate, LRU!NoJob, LRU!Job, NoOp, Op
<1> QED
  BY <1>5, <1>6, <1>7, <1>8 DEF StoreInv, Simulates, LRU!LRUNext

(***************************************************************************)
(* cleanHash starts at the record used last.                               *)
(***************************************************************************)
LEMMA BeginCleanStep ==
  ASSUME StoreInv, NEW owned \in SUBSET Keys, BeginClean(owned)
  PROVE  StoreInv' /\ Simulates
<1>1. /\ pc = "idle" /\ table.head # Null /\ pc' = "clean"
      /\ op' = Op("clean", NoKey, NoValue, owned) /\ cursor' = table.head
      /\ UNCHANGED storeVars /\ newTable' = newTable
  BY DEF BeginClean
<1>2. TableOk /\ CountsOk /\ GoodTable(table, recency)
  BY DEF StoreInv, TableOk
<1>3. TableOk' /\ CountsOk' /\ UNCHANGED <<CacheMap, recency>> /\ table' = table
  BY <1>1, <1>2, SameStore DEF storeVars
<1>4. /\ op = NoOp /\ newTable = NewTable(InitSize)
  BY <1>1 DEF StoreInv, OpOk, RehashOk, Rehashing
<1>5. OpOk'
  BY <1>1 DEF OpOk, Op, Normalizing
<1>6. CursorOk'
  <2>1. /\ table.head \in Alive(table)
        /\ \A q \in Alive(table) : ~ Later(table, recency, q, table.head)
    BY <1>1, <1>2, ListFacts
  <2> QED
    BY <1>1, <1>3, <2>1 DEF CursorOk, Later
<1>7. RehashOk' /\ LoadOk' /\ MemoryOk'
  BY <1>1, <1>4 DEF StoreInv, RehashOk, LoadOk, MemoryOk, Normalizing, Rehashing, storeVars
<1>8. LRU!Begin
  BY <1>1, <1>3, <1>4 DEF LRU!Begin, LRU!NoJob, LRU!Job, NoOp, Op
<1> QED
  BY <1>3, <1>5, <1>6, <1>7, <1>8 DEF StoreInv, Simulates, LRU!LRUNext

(***************************************************************************)
(* cleanHash goes on to the next older record as long as it keeps records, *)
(* and ends with the first one it removes: that one's next is reset.       *)
(***************************************************************************)
LEMMA CleanHashStep ==
  ASSUME StoreInv, CleanStep
  PROVE  StoreInv' /\ Simulates
<1> DEFINE c == cursor
           k == table.slots[c].key
           n == table.slots[c].next
<1>1. pc = "clean" /\ newTable' = newTable
  BY DEF CleanStep
<1>2. TableOk /\ CountsOk /\ GoodTable(table, recency)
  BY DEF StoreInv, TableOk
<1>3. /\ op = Op("clean", NoKey, NoValue, op.owned) /\ newTable = NewTable(InitSize)
      /\ c \in Alive(table)
      /\ \A q \in Alive(table) : Later(table, recency, q, c) => table.slots[q].key \in op.owned
  BY <1>1 DEF StoreInv, OpOk, CursorOk, RehashOk, Rehashing, Normalizing, Later
<1>4. op.kind = "clean" /\ NoOp = LRU!NoJob
  BY <1>3 DEF Op, LRU!NoJob, LRU!Job, NoOp
<1>5. /\ \A q \in Alive(table) : q = c \/ Later(table, recency, q, c) \/ Later(table, recency, c, q)
      /\ n \in Alive(table) \union {Null}
      /\ n = Null => \A q \in Alive(table) : ~ Later(table, recency, c, q)
      /\ n # Null => \A m \in Alive(table) : ~ (Later(table, recency, c, m) /\ Later(table, recency, m, n))
  BY <1>2, <1>3, ListFacts
<1>6. /\ k \in KeysOf(table) /\ DOMAIN CacheMap = KeysOf(table) /\ KeysOf(table) \subseteq Keys
  BY <1>2, <1>3, Seen
<1>7. CASE k \in op.owned
  <2>1. /\ UNCHANGED storeVars /\ table' = table /\ recency' = recency /\ cursor' = n
        /\ IF n = Null THEN Finish ELSE UNCHANGED <<pc, op>>
    BY <1>7 DEF CleanStep, storeVars
  <2>2. TableOk' /\ CountsOk' /\ UNCHANGED <<CacheMap, recency>>
    BY <1>2, <2>1, SameStore
  <2>3. LoadOk' /\ MemoryOk'
    BY <1>1, <2>1 DEF StoreInv, LoadOk, MemoryOk, Normalizing, storeVars, Finish
  <2>4. CASE n = Null
    <3>1. cursor' = Null /\ pc' = "idle" /\ op' = NoOp /\ newTable' = NewTable(InitSize)
      BY <1>1, <1>3, <2>1, <2>4 DEF Finish
    <3>2. OpOk' /\ CursorOk' /\ RehashOk'
      BY <3>1, IdleAgain
    <3>3. \A q \in Alive(table) : table.slots[q].key \in op.owned
      BY <1>3, <1>5, <1>7, <2>4
    <3>4. KeysOf(table) \subseteq op.owned
      BY <3>3 DEF KeysOf
    <3>5. LRU!KeepAll
      BY <1>4, <1>6, <2>2, <3>1, <3>4 DEF LRU!KeepAll
    <3> QED
      BY <2>2, <2>3, <3>2, <3>5 DEF StoreInv, Simulates, LRU!LRUNext
  <2>5. CASE n # Null
    <3>1. pc' = pc /\ op' = op /\ cursor' = n /\ n \in Alive(table)
      BY <1>5, <2>1, <2>5
    <3>2. ASSUME NEW q \in Alive(table), Later(table, recency, q, n)
          PROVE  table.slots[q].key \in op.owned
      BY <1>3, <1>5, <1>7, <2>5, <3>2
    <3>3. CursorOk'
      <4> HIDE DEF n
      <4> QED
        BY <1>1, <2>1, <2>5, <3>1, <3>2 DEF CursorOk, Rehashing, Later
    <3>4. OpOk' /\ RehashOk'
      BY <1>1, <1>3, <3>1 DEF OpOk, RehashOk, Rehashing, Normalizing
    <3>5. Simulates
      BY <2>2, <3>1 DEF Simulates, LRU!lruVars
    <3> QED
      BY <2>2, <2>3, <3>3, <3>4, <3>5 DEF StoreInv
  <2> QED
    BY <2>4, <2>5
<1>8. CASE k \notin op.owned
  <2>1. /\ RemoveAt(c) /\ cursor' = table'.slots[c].next
        /\ IF cursor' = Null THEN Finish ELSE UNCHANGED <<pc, op>>
    BY <1>8 DEF CleanStep
  <2>2. /\ TableOk' /\ CountsOk' /\ LRU!Drop(k) /\ table'.size = table.size
        /\ table'.slots[c].next = Null
        /\ numEntries' = numEntries - 1 /\ numDeadEntries' = numDeadEntries + 1
        /\ totalKeyValueSize' \in Nat /\ totalKeyValueSize' <= totalKeyValueSize
    BY <1>2, <1>3, <2>1, RemoveStep
  <2>3. cursor' = Null /\ pc' = "idle" /\ op' = NoOp /\ newTable' = NewTable(InitSize)
    BY <1>1, <1>3, <2>1, <2>2 DEF Finish
  <2>4. OpOk' /\ CursorOk' /\ RehashOk'
    BY <2>3, IdleAgain
  <2>5. LoadOk' /\ MemoryOk'
    BY <2>2, <2>3, IdleLoad
  <2>6. \A o \in KeysOf(table) : <<o, k>> \in recency => o \in op.owned
    BY <1>3 DEF KeysOf, Later, In
  <2>7. LRU!Purge(k) /\ k \in Keys
    <3> HIDE DEF k
    <3> QED
      BY <1>4, <1>6, <1>8, <2>2, <2>3, <2>6 DEF LRU!Purge
  <2> QED
    BY <2>2, <2>4, <2>5, <2>7 DEF StoreInv, Simulates, LRU!LRUNext
<1> QED
  BY <1>7, <1>8

(***************************************************************************)
(* The invariant is inductive, and every step maps to a step of LRUCache.  *)
(***************************************************************************)
LEMMA StepLemma ==
  ASSUME StoreInv, [Next]_vars
  PROVE  StoreInv' /\ [LRU!LRUNext]_(LRU!lruVars)
<1>1. StoreInv' /\ Simulates
  <2>1. CASE UNCHANGED vars
    <3>1. UNCHANGED storeVars /\ pc' = pc /\ op' = op /\ cursor' = cursor /\ newTable' = newTable
      BY <2>1 DEF vars, loopVars
    <3>2. TableOk' /\ CountsOk' /\ UNCHANGED <<CacheMap, recency>>
      BY <3>1, SameStore DEF StoreInv
    <3>3. OpOk' /\ LoadOk' /\ MemoryOk'
      BY <3>1 DEF StoreInv, OpOk, LoadOk, MemoryOk, storeVars
    <3>4. CursorOk'
      BY <3>1 DEF StoreInv, CursorOk, storeVars
    <3>5. RehashOk'
      <4>1. Passed' = Passed
        BY <3>1 DEF Passed, storeVars
      <4> QED
        BY <3>1, <4>1 DEF StoreInv, RehashOk, storeVars
    <3> QED
      BY <3>1, <3>2, <3>3, <3>4, <3>5 DEF StoreInv, Simulates, LRU!lruVars
  <2>2. CASE Request
    BY <2>2, BeginStep, GetStep, InvalidateStep, BeginCleanStep DEF Request
  <2>3. CASE Step
    BY <2>3, EvictStep, CheckStep, RehashIteration, RehashEnd, PutStep, PropagateStep,
       CleanHashStep DEF Step
  <2> QED
    BY <2>1, <2>2, <2>3 DEF Next
<1> QED
  BY <1>1 DEF Simulates

-----------------------------------------------------------------------------
(* What the invariant says of the properties.                              *)

(***************************************************************************)
(* The live records and the keys they hold correspond one to one, so the   *)
(* counts over keys are counts over records.                               *)
(***************************************************************************)
LEMMA AccountingFollows ==
  ASSUME StoreInv
  PROVE  Accounting
<1> DEFINE A == Alive(table)
           K == KeysOf(table)
           c == MapOf(table)
           b == [p \in A |-> table.slots[p].key]
           f == [k \in K |-> KeySize[k] + ValueSize[c[k]]]
<1>1. TableOk /\ CountsOk /\ GoodTable(table, recency) /\ IsTable(table)
  BY DEF StoreInv, TableOk, GoodTable
<1>2. IsFiniteSet(A)
  BY <1>1, SlotsFinite
<1>3. /\ K \in SUBSET Keys /\ IsFiniteSet(K) /\ c \in [K -> Values]
      /\ \A p \in A : table.slots[p].key \in K /\ c[table.slots[p].key] = table.slots[p].value
  BY <1>1, MapAt
<1>4. \A p, q \in A : table.slots[p].key = table.slots[q].key => p = q
  BY <1>1, KeysDistinct DEF GoodTable
<1>5. \A k \in K : \E p \in A : table.slots[p].key = k
  BY DEF KeysOf
<1>6. b \in Bijection(A, K)
  <2>1. b \in [A -> K] /\ \A p \in A : b[p] = table.slots[p].key
    BY <1>3
  <2> HIDE DEF b, A, K
  <2> QED
    BY <1>4, <1>5, <2>1 DEF Bijection, Injection, Surjection, IsInjective
<1>7. f \in [K -> Nat]
  BY <1>3, StoreAssumption
<1>8. [p \in A |-> f[b[p]]] = [p \in A |-> EntrySize(table.slots[p])]
  BY <1>3 DEF EntrySize
<1>9. LRU!Footprint(c) = SumFunction(f)
  <2>1. DOMAIN c = K
    BY <1>3
  <2> HIDE DEF c, K
  <2> QED
    BY <2>1, SumInLRU DEF LRU!Footprint
<1> HIDE DEF A, K, b, f, c
<1>10. Cardinality(K) = Cardinality(A)
  <2>1. ExistsBijection(A, K)
    BY <1>6 DEF ExistsBijection
  <2> QED
    BY <1>2, <2>1, FS_Bijection
<1>11. SumFunction([p \in A |-> f[b[p]]]) = SumFunction(f)
  BY <1>2, <1>6, <1>7, SumBijection
<1> QED
  BY <1>1, <1>8, <1>9, <1>10, <1>11 DEF Accounting, CountsOk, A, K, c

(***************************************************************************)
(* The load bound leaves an empty slot, where every probe stops.           *)
(***************************************************************************)
LEMMA ProbesStop ==
  ASSUME StoreInv
  PROVE  ProbeTerminates
<1> DEFINE A == Alive(table)
           D == Dead(table)
           S == Slots(table)
<1>1. IsTable(table) /\ TableOk /\ CountsOk
  BY DEF StoreInv, TableOk, GoodTable
<1>2. /\ IsFiniteSet(S) /\ Cardinality(S) = table.size /\ IsFiniteSet(A) /\ IsFiniteSet(D)
      /\ Cardinality(A) \in Nat /\ Cardinality(D) \in Nat
  BY <1>1, SlotsFinite
<1>3. numEntries = Cardinality(A) /\ numDeadEntries = Cardinality(D)
  BY AccountingFollows DEF Accounting
<1>4. table.size \in Nat /\ table.size >= 3
  BY <1>1, StoreAssumption DEF IsTable
<1>5. Cardinality(A) + Cardinality(D) < table.size
  BY <1>2, <1>3, <1>4 DEF StoreInv, LoadOk
<1>6. A \union D \in SUBSET S /\ A \cap D = {}
  BY DEF Alive, Dead
<1>7. A \union D # S
  <2> HIDE DEF A, D, S
  <2>1. Cardinality(A \union D) = Cardinality(A) + Cardinality(D) - Cardinality({})
    BY <1>2, <1>6, FS_Union
  <2>2. Cardinality({}) = 0
    BY FS_EmptySet
  <2>3. ASSUME A \union D = S PROVE FALSE
    <3>1. Cardinality(S) = Cardinality(A) + Cardinality(D) - 0
      BY <2>1, <2>2, <2>3
    <3> QED
      BY <1>2, <1>4, <1>5, <3>1
  <2> QED
    BY <2>3
<1>8. PICK e \in S : e \notin A \union D
  BY <1>6, <1>7
<1>9. table.slots[e].state = "EMPTY"
  BY <1>1, <1>8 DEF IsTable, Alive, Dead, RecordType
<1> QED
  BY <1>1, <1>9, PositionExists DEF ProbeTerminates

(***************************************************************************)
(* The list of the invariant is the list of the property.                  *)
(***************************************************************************)
LEMMA ListFollows ==
  ASSUME StoreInv
  PROVE  ListIsRecency
<1>1. GoodTable(table, recency)
  BY DEF StoreInv, TableOk
<1>2. \A p, q : Newer(table, p, q) <=> Later(table, recency, p, q)
  BY DEF Newer, Later, In
<1>3. /\ \A p \in Alive(table) :
           /\ table.slots[p].next \in Alive(table) \union {Null}
           /\ table.slots[p].prev \in Alive(table) \union {Null}
           /\ table.head = p <=> \A q \in Alive(table) : ~ Newer(table, q, p)
           /\ table.tail = p <=> \A q \in Alive(table) : ~ Newer(table, p, q)
      /\ Alive(table) = {} <=> table.head = Null
      /\ Alive(table) = {} <=> table.tail = Null
  BY <1>1, <1>2, ListFacts
<1>4. \A p, q \in Alive(table) :
        /\ table.slots[p].next = q <=> Successor(table, p, q)
        /\ table.slots[q].prev = p <=> Successor(table, p, q)
  BY <1>1, <1>2, ListFacts DEF Successor
<1> QED
  BY <1>3, <1>4 DEF ListIsRecency, ListInOrder

(***************************************************************************)
(* The invariant implies the types.                                        *)
(***************************************************************************)
LEMMA TypesFollow ==
  ASSUME StoreInv
  PROVE  TypeOK
<1>1. GoodTable(table, recency) /\ TableOk /\ CountsOk
  BY DEF StoreInv, TableOk
<1>2. numEntries \in Nat /\ numDeadEntries \in Nat /\ totalKeyValueSize \in Nat /\ KeysOf(table) \in SUBSET Keys
  BY <1>1, CountsNat
<1>3. recency \subseteq Keys \X Keys
  BY <1>1, <1>2 DEF TableOk
<1>4. IsTable(newTable)
  <2>1. InitSize \in Nat /\ InitSize >= InitSize
    BY StoreAssumption
  <2>2. GoodTable(NewTable(InitSize), recency)
    BY <2>1, EmptyGood
  <2>3. GoodTable(newTable, recency)
    BY <2>2 DEF StoreInv, RehashOk
  <2> QED
    BY <2>3 DEF GoodTable
<1>5. pc \in {"idle", "evict", "grow", "check", "compact", "apply", "clean"}
  BY DEF StoreInv, OpOk, Normalizing
<1>6. cursor \in Slots(table) \union {Null}
  BY DEF StoreInv, CursorOk, Alive
<1> QED
  BY <1>1, <1>2, <1>3, <1>4, <1>5, <1>6 DEF TypeOK, GoodTable

(***************************************************************************)
(* Over the memory limit there is a key to evict.                          *)
(***************************************************************************)
LEMMA AssertionsFollow ==
  ASSUME StoreInv
  PROVE  AssertionsHold
<1>1. GoodTable(table, recency) /\ TableOk /\ CountsOk
  BY DEF StoreInv, TableOk
<1>2. ASSUME totalKeyValueSize > MemoryLimit
      PROVE  table.tail # Null /\ table.slots[table.tail].state = "ALIVE"
  <2>1. KeysOf(table) \in SUBSET Keys /\ MapOf(table) \in [KeysOf(table) -> Values]
    BY <1>1, MapAt
  <2>2. KeysOf(table) # {}
    <3>1. SUFFICES ASSUME KeysOf(table) = {} PROVE FALSE
      OBVIOUS
    <3>2. totalKeyValueSize = 0
      BY <1>1, <2>1, <3>1, FootprintType DEF CountsOk
    <3> QED
      BY <1>2, <3>2, StoreAssumption
  <2>3. Alive(table) # {}
    BY <2>2 DEF KeysOf
  <2>4. table.tail \in Alive(table) /\ table.tail # Null
    BY <1>1, <2>3, ListFacts
  <2> QED
    BY <2>4 DEF Alive
<1>3. \A p \in Slots(table) :
        AtPosition(table, op.key, p) => table.slots[p].state \in {"EMPTY", "ALIVE"}
  BY DEF AtPosition, Stops
<1>4. cursor # Null => table.slots[cursor].state = "ALIVE"
  BY DEF StoreInv, CursorOk, Alive
<1> QED
  BY <1>2, <1>3, <1>4 DEF AssertionsHold

-----------------------------------------------------------------------------
(* The theorems.                                                           *)

(***************************************************************************)
(* The invariant of the storage engine holds throughout.                   *)
(***************************************************************************)
THEOREM StoreCorrect == Spec => []StoreInv
<1>1. Init => StoreInv
  BY InitInv
<1>2. StoreInv /\ [Next]_vars => StoreInv'
  BY StepLemma
<1> QED
  BY <1>1, <1>2, PTL DEF Spec

(***************************************************************************)
(* The engine's variables keep their types: prev, next, listHead, listTail *)
(* and the loop variables of rehash and cleanHash never leave the table    *)
(* they index, in the middle of a rehash too.                              *)
(***************************************************************************)
THEOREM TypesCorrect == Spec => []TypeOK
<1>1. StoreInv => TypeOK
  BY TypesFollow
<1> QED
  BY <1>1, StoreCorrect, PTL

(***************************************************************************)
(* getPosition stops for every key, whatever the sequence of insertions,   *)
(* removals, evictions and rehashes: normalizeTable before put and         *)
(* propagate is enough for the callers that do not check the load.         *)
(***************************************************************************)
THEOREM ProbeCorrect == Spec => []ProbeTerminates
<1>1. StoreInv => ProbeTerminates
  BY ProbesStop
<1> QED
  BY <1>1, StoreCorrect, PTL

(***************************************************************************)
(* getPosition finds every live record by its key: tombstones keep the     *)
(* probe sequences of linear probing whole, and no key is stored twice.    *)
(***************************************************************************)
THEOREM FindableCorrect == Spec => []Findable
<1>1. StoreInv => Findable
  BY DEF StoreInv, TableOk, GoodTable, Found, Findable
<1> QED
  BY <1>1, StoreCorrect, PTL

(***************************************************************************)
(* The list that removeFromList, addToFront and rehash maintain is the     *)
(* order of use of the live records, doubly linked and with both ends.     *)
(***************************************************************************)
THEOREM ListCorrect == Spec => []ListIsRecency
<1>1. StoreInv => ListIsRecency
  BY ListFollows
<1> QED
  BY <1>1, StoreCorrect, PTL

(***************************************************************************)
(* numEntries, numDeadEntries and totalKeyValueSize are exact.             *)
(***************************************************************************)
THEOREM AccountingCorrect == Spec => []Accounting
<1>1. StoreInv => Accounting
  BY AccountingFollows
<1> QED
  BY <1>1, StoreCorrect, PTL

(***************************************************************************)
(* The assertions of evictEntry, addEntry and removeFromList never fail.   *)
(***************************************************************************)
THEOREM AssertionsCorrect == Spec => []AssertionsHold
<1>1. StoreInv => AssertionsHold
  BY AssertionsFollow
<1> QED
  BY <1>1, StoreCorrect, PTL

(***************************************************************************)
(* Memory in use stays within one entry of MEMORY_LIMIT, although          *)
(* normalizeTable evicts before an insertion and not after it.             *)
(***************************************************************************)
THEOREM MemoryCorrect == Spec => []MemoryBound
<1>1. StoreInv => MemoryBound
  BY DEF StoreInv, MemoryOk, MemoryBound
<1> QED
  BY <1>1, StoreCorrect, PTL

(***************************************************************************)
(* The hash table with its list and its loops implements the map with its  *)
(* order of use (LRUCache): evictions take the key used least recently,    *)
(* and only over the memory limit; rehashes and probes are invisible.      *)
(***************************************************************************)
THEOREM Refinement == Spec => ImplementsLRU
<1>1. Init => LRU!LRUInit
  BY InitInv
<1>2. StoreInv /\ [Next]_vars => [LRU!LRUNext]_(LRU!lruVars)
  BY StepLemma
<1> QED
  BY <1>1, <1>2, StoreCorrect, PTL DEF Spec, ImplementsLRU, LRU!LRUSpec
=============================================================================
