---------------------------- MODULE QueueProofs ----------------------------
(***************************************************************************)
(* Theorems about the queues of freed block numbers, for every number of   *)
(* memory cells and block numbers: the linked list is well formed, that of *)
(* queue_desc.c is descending, and both implement a set of numbers.        *)
(***************************************************************************)
EXTENDS Queue, TLAPS, WellFoundedInduction, SequenceTheorems, FiniteSetTheorems

(* Every set of natural numbers that is not empty has a least element.     *)
LEMMA LeastNumber ==
  ASSUME NEW S, S \subseteq Nat, S # {}
  PROVE  \E m \in S : \A x \in S : m <= x
<1>1. IsWellFoundedOn(OpToRel(<, Nat), Nat)
  BY NatLessThanWellFounded
<1>2. PICK m \in S : \A x \in S : ~(<<x, m>> \in OpToRel(<, Nat))
  BY <1>1, WFMin
<1>3. \A x \in S : ~(x < m)
  <2> TAKE x \in S
  <2>1. x \in Nat /\ m \in Nat
    OBVIOUS
  <2>2. x < m => <<x, m>> \in OpToRel(<, Nat)
    BY <2>1, Zenon DEF OpToRel
  <2> QED
    BY <1>2, <2>2
<1> QED
  BY <1>3

(* Induction without an operator parameter: a set of natural numbers that  *)
(* has 0, and the successor of each of its numbers, has them all.          *)
LEMMA InductiveSet ==
  ASSUME NEW S, 0 \in S, \A i \in Nat : i \in S => i + 1 \in S
  PROVE  Nat \subseteq S
<1> DEFINE T == Nat \ S
<1>1. SUFFICES ASSUME T # {} PROVE FALSE
  OBVIOUS
<1>2. PICK m \in T : \A x \in T : m <= x
  BY <1>1, LeastNumber
<1>3. m # 0 /\ m - 1 \in Nat /\ m - 1 \notin T
  BY <1>2
<1> QED
  BY <1>3

-----------------------------------------------------------------------------
Heap == [q    : [size : Nat, head : Pointers, tail : Pointers],
         mem  : [Cells -> [data : Numbers \cup {0}, next : Pointers]],
         used : SUBSET Cells]

(* C is the list of the cells from pointer p on. *)
At(C, i) == IF i <= Len(C) THEN C[i] ELSE NULL
Linked(m, p, C) ==
  /\ C \in Seq(Cells)
  /\ \A i, j \in 1..Len(C) : C[i] = C[j] => i = j
  /\ p = At(C, 1)
  /\ \A i \in 1..Len(C) : m[C[i]].next = At(C, i + 1)

(* The numbers in the allocated cells. *)
Stored(h) == {h.mem[c].data : c \in h.used}

(* A queue in good order: its cells C are the allocated ones and their     *)
(* numbers differ.                                                         *)
Good(h, C) ==
  /\ Linked(h.mem, h.q.head, C)
  /\ h.q.size = Len(C)
  /\ h.used = {C[i] : i \in 1..Len(C)}
  /\ \A c \in h.used : h.mem[c].data \in Numbers
  /\ \A c, d \in h.used : h.mem[c].data = h.mem[d].data => c = d
  /\ QUETYPE = 1 => \A i, j \in 1..Len(C) : i < j => h.mem[C[i]].data > h.mem[C[j]].data
  /\ QUETYPE = 0 /\ Len(C) # 0 => h.q.tail \notin h.used \/ h.q.tail = C[Len(C)]

(* A list of different cells is no longer than there are cells. *)
LEMMA Short ==
  ASSUME NEW C \in Seq(Cells), \A i, j \in 1..Len(C) : C[i] = C[j] => i = j
  PROVE  Len(C) <= Cardinality(Cells) /\ Cardinality(Cells) \in Nat
<1>1. Len(C) \in Nat /\ C \in [1..Len(C) -> Cells]
  BY LenProperties
<1>2. IsFiniteSet(1..Len(C)) /\ Cardinality(1..Len(C)) = Len(C)
  <2>1. 1 \in Int /\ Len(C) \in Int
    BY <1>1
  <2>2. /\ IsFiniteSet(1..Len(C))
        /\ Cardinality(1..Len(C)) = IF 1 > Len(C) THEN 0 ELSE Len(C) - 1 + 1
    BY <2>1, FS_Interval, Zenon
  <2> QED
    BY <1>1, <2>2
<1>3. IsFiniteSet(Cells) /\ Cardinality(Cells) \in Nat
  BY QueueAssumption, FS_CardinalityType
<1> SUFFICES ASSUME ~(Len(C) <= Cardinality(Cells)) PROVE FALSE
  BY <1>3
<1>4. Cardinality(Cells) < Cardinality(1..Len(C))
  BY <1>1, <1>2, <1>3
<1>5. \E x, y \in 1..Len(C) : x # y /\ C[x] = C[y]
  BY <1>1, <1>2, <1>3, <1>4, FS_PigeonHole
<1> QED
  BY <1>5

(* Walking from p finds the list. *)
LEMMA ListIs ==
  ASSUME NEW m, NEW p, NEW C, Linked(m, p, C)
  PROVE  ListFrom(m, p) = C
<1> DEFINE n == Len(C)
           K == Cardinality(Cells)
           step(f) == [k \in 0..K |-> IF k = 0 THEN p ELSE Follow(m, f[k - 1])]
           node == CHOOSE f : f = step(f)
           w == [k \in 0..K |-> At(C, k + 1)]
           alive == {k \in 0..K : node[k] # NULL}
<1>1. /\ n \in Nat /\ n <= K /\ K \in Nat
      /\ \A i \in 1..n : C[i] \in Cells /\ C[i] # NULL
      /\ \A i \in 1..n : m[C[i]].next = At(C, i + 1)
      /\ p = At(C, 1)
  BY Short, LenProperties, ElementOfSeq, QueueAssumption DEF Linked
<1>2. \A k \in 0..K : k # 0 => Follow(m, At(C, k)) = At(C, k + 1)
  <2> TAKE k \in 0..K
  <2> HAVE k # 0
  <2>1. CASE k <= n
    <3>1. k \in 1..n /\ At(C, k) = C[k]
      BY <1>1, <2>1 DEF At
    <3> QED
      BY <1>1, <3>1 DEF Follow
  <2>2. CASE ~(k <= n)
    <3>1. At(C, k) = NULL /\ At(C, k + 1) = NULL
      BY <1>1, <2>2 DEF At
    <3> QED
      BY <3>1 DEF Follow
  <2> QED
    BY <2>1, <2>2
<1>3. w = step(w)
  <2>1. \A k \in 0..K : w[k] = IF k = 0 THEN p ELSE Follow(m, w[k - 1])
    <3> TAKE k \in 0..K
    <3>1. CASE k = 0
      BY <1>1, <3>1
    <3>2. CASE k # 0
      <4>1. k - 1 \in 0..K /\ (k - 1) + 1 = k
        BY <1>1, <3>2
      <4> QED
        BY <1>2, <3>2, <4>1
    <3> QED
      BY <3>1, <3>2
  <2> QED
    BY <2>1
<1>4. node = step(node)
  <2> HIDE DEF w, step
  <2> QED
    BY <1>3
<1>5. \A k \in Nat : k <= K => node[k] = At(C, k + 1)
  <2> HIDE DEF node
  <2> DEFINE T == {k \in Nat : k <= K => node[k] = At(C, k + 1)}
  <2>1. 0 \in T
    BY <1>1, <1>4
  <2>2. ASSUME NEW k \in Nat, k \in T PROVE k + 1 \in T
    <3> SUFFICES ASSUME k + 1 <= K PROVE node[k + 1] = At(C, (k + 1) + 1)
      OBVIOUS
    <3>1. k + 1 \in 0..K /\ k + 1 # 0 /\ (k + 1) - 1 = k /\ k <= K
      BY <1>1
    <3>2. node[k + 1] = Follow(m, node[k])
      BY <1>4, <3>1
    <3> QED
      BY <1>2, <2>2, <3>1, <3>2
  <2>3. Nat \subseteq T
    <3> HIDE DEF T
    <3> QED
      BY <2>1, <2>2, InductiveSet
  <2> QED
    BY <2>3
<1> HIDE DEF node
<1>6. alive = 0..(n - 1)
  <2>1. ASSUME NEW k \in 0..K PROVE node[k] # NULL <=> k < n
    <3>1. node[k] = At(C, k + 1)
      BY <1>1, <1>5
    <3>2. k < n => k + 1 \in 1..n
      BY <1>1
    <3> QED
      BY <1>1, <3>1, <3>2 DEF At
  <2> QED
    BY <1>1, <2>1
<1>7. Cardinality(alive) = n
  <2>1. 0 \in Int /\ n - 1 \in Int
    BY <1>1
  <2>2. Cardinality(0..(n - 1)) = IF 0 > n - 1 THEN 0 ELSE (n - 1) - 0 + 1
    BY <2>1, FS_Interval, Zenon
  <2> HIDE DEF alive
  <2> QED
    BY <1>1, <1>6, <2>2
<1>8. [k \in 1..n |-> node[k - 1]] = C
  <2>1. \A k \in 1..n : node[k - 1] = C[k]
    <3> TAKE k \in 1..n
    <3>1. k - 1 \in Nat /\ k - 1 <= K /\ (k - 1) + 1 = k
      BY <1>1
    <3> QED
      BY <1>5, <3>1 DEF At
  <2> QED
    BY <2>1, LenProperties DEF Linked
<1> QED
  BY <1>7, <1>8 DEF ListFrom, alive, node, step

-----------------------------------------------------------------------------
(* How the list of cells changes: x is put behind the first k cells, or    *)
(* cell k is taken out.                                                    *)
Ins(C, k, x) ==
  [i \in 1..(Len(C) + 1) |-> IF i <= k THEN C[i] ELSE IF i = k + 1 THEN x ELSE C[i - 1]]
Del(C, k) == [i \in 1..(Len(C) - 1) |-> IF i < k THEN C[i] ELSE C[i + 1]]

Placed(C, k, x, D) ==
  /\ D \in Seq(Cells) /\ Len(D) = Len(C) + 1 /\ Len(C) \in Nat
  /\ D[k + 1] = x
  /\ \A i \in 1..k : i \in 1..Len(C) /\ D[i] = C[i]
  /\ \A i \in (k + 1)..Len(C) : i \in 1..Len(C) /\ D[i + 1] = C[i]
  /\ \A j \in 1..Len(D) : \/ j = k + 1
                          \/ j \in 1..k
                          \/ \E i \in (k + 1)..Len(C) : j = i + 1
  /\ \A j \in 1..Len(D) :
       \/ j = k + 1
       \/ \E i \in 1..Len(C) : D[j] = C[i] /\ j = IF i <= k THEN i ELSE i + 1

Taken(C, k, D) ==
  /\ D \in Seq(Cells) /\ Len(D) = Len(C) - 1 /\ Len(C) \in Nat
  /\ \A i \in 1..(k - 1) : i \in 1..Len(C) /\ D[i] = C[i]
  /\ \A i \in (k + 1)..Len(C) : i \in 1..Len(C) /\ D[i - 1] = C[i]
  /\ \A j \in 1..Len(D) : \/ j \in 1..(k - 1)
                          \/ \E i \in (k + 1)..Len(C) : j = i - 1

LEMMA InsIs ==
  ASSUME NEW C \in Seq(Cells), NEW k \in 0..Len(C), NEW x \in Cells, NEW D, D = Ins(C, k, x)
  PROVE  Placed(C, k, x, D)
<1>1. Len(C) \in Nat /\ \A i \in 1..Len(C) : C[i] \in Cells
  BY LenProperties, ElementOfSeq
<1>2. DOMAIN D = 1..(Len(C) + 1) /\ \A i \in 1..(Len(C) + 1) :
        D[i] = IF i <= k THEN C[i] ELSE IF i = k + 1 THEN x ELSE C[i - 1]
  BY DEF Ins
<1>3. \A i \in 1..(Len(C) + 1) : D[i] \in Cells
  BY <1>1, <1>2
<1>4. D \in [1..(Len(C) + 1) -> Cells]
  BY <1>2, <1>3 DEF Ins
<1>5. D \in Seq(Cells) /\ Len(D) = Len(C) + 1
  BY <1>1, <1>4, IsASeq
<1>6. \A i \in 1..k : i \in 1..Len(C) /\ D[i] = C[i]
  BY <1>1, <1>2
<1>7. \A i \in (k + 1)..Len(C) : i \in 1..Len(C) /\ D[i + 1] = C[i]
  <2> TAKE i \in (k + 1)..Len(C)
  <2>1. i \in 1..Len(C) /\ i + 1 \in 1..(Len(C) + 1) /\ ~(i + 1 <= k) /\ i + 1 # k + 1 /\ (i + 1) - 1 = i
    BY <1>1
  <2> QED
    BY <1>2, <2>1
<1>8. \A j \in 1..Len(D) : \/ j = k + 1
                           \/ j \in 1..k
                           \/ \E i \in (k + 1)..Len(C) : j = i + 1
  <2> TAKE j \in 1..Len(D)
  <2>1. CASE j > k + 1
    <3>1. j - 1 \in (k + 1)..Len(C) /\ j = (j - 1) + 1
      BY <1>1, <1>5, <2>1
    <3> QED
      BY <3>1
  <2>2. CASE ~(j > k + 1)
    BY <1>1, <1>5, <2>2
  <2> QED
    BY <2>1, <2>2
<1>9. D[k + 1] = x
  BY <1>1, <1>2
<1>10. \A j \in 1..Len(D) :
         \/ j = k + 1
         \/ \E i \in 1..Len(C) : D[j] = C[i] /\ j = IF i <= k THEN i ELSE i + 1
  <2> TAKE j \in 1..Len(D)
  <2>1. CASE j \in 1..k
    <3>1. j \in 1..Len(C) /\ D[j] = C[j] /\ j <= k
      BY <1>1, <1>6, <2>1
    <3> QED
      BY <3>1
  <2>2. ASSUME NEW i \in (k + 1)..Len(C), j = i + 1
        PROVE  \E a \in 1..Len(C) : D[j] = C[a] /\ j = IF a <= k THEN a ELSE a + 1
    <3>1. i \in 1..Len(C) /\ D[j] = C[i] /\ ~(i <= k)
      BY <1>1, <1>7, <2>2
    <3> QED
      BY <2>2, <3>1
  <2> QED
    BY <1>8, <2>1, <2>2
<1> QED
  BY <1>1, <1>5, <1>6, <1>7, <1>8, <1>9, <1>10 DEF Placed

LEMMA DelIs ==
  ASSUME NEW C \in Seq(Cells), NEW k \in 1..Len(C), NEW D, D = Del(C, k)
  PROVE  Taken(C, k, D)
<1>1. Len(C) \in Nat /\ Len(C) - 1 \in Nat /\ \A i \in 1..Len(C) : C[i] \in Cells
  BY LenProperties, ElementOfSeq
<1>2. DOMAIN D = 1..(Len(C) - 1) /\ \A i \in 1..(Len(C) - 1) :
        D[i] = IF i < k THEN C[i] ELSE C[i + 1]
  BY DEF Del
<1>3. \A i \in 1..(Len(C) - 1) : D[i] \in Cells
  BY <1>1, <1>2
<1>4. D \in [1..(Len(C) - 1) -> Cells]
  BY <1>2, <1>3 DEF Del
<1>5. D \in Seq(Cells) /\ Len(D) = Len(C) - 1
  BY <1>1, <1>4, IsASeq
<1>6. \A i \in 1..(k - 1) : i \in 1..Len(C) /\ D[i] = C[i]
  BY <1>1, <1>2
<1>7. \A i \in (k + 1)..Len(C) : i \in 1..Len(C) /\ D[i - 1] = C[i]
  <2> TAKE i \in (k + 1)..Len(C)
  <2>1. i \in 1..Len(C) /\ i - 1 \in 1..(Len(C) - 1) /\ ~(i - 1 < k) /\ (i - 1) + 1 = i
    BY <1>1
  <2> QED
    BY <1>2, <2>1
<1>8. \A j \in 1..Len(D) : \/ j \in 1..(k - 1)
                           \/ \E i \in (k + 1)..Len(C) : j = i - 1
  <2> TAKE j \in 1..Len(D)
  <2>1. CASE j >= k
    <3>1. j + 1 \in (k + 1)..Len(C) /\ j = (j + 1) - 1
      BY <1>1, <1>5, <2>1
    <3> QED
      BY <3>1
  <2>2. CASE ~(j >= k)
    BY <1>1, <1>5, <2>2
  <2> QED
    BY <2>1, <2>2
<1> QED
  BY <1>1, <1>5, <1>6, <1>7, <1>8 DEF Taken

(* In g cell x, holding n, is linked in behind the first k cells of h. *)
Behind(h, C, k, x, n, g) ==
  /\ g.used = h.used \cup {x} /\ g.q.size = h.q.size + 1
  /\ g.q.head = IF k = 0 THEN x ELSE h.q.head
  /\ g.mem[x].data = n /\ g.mem[x].next = At(C, k + 1)
  /\ \A c \in h.used : g.mem[c].data = h.mem[c].data
  /\ \A i \in 1..Len(C) : g.mem[C[i]].next = IF i = k THEN x ELSE h.mem[C[i]].next
  /\ QUETYPE = 1 => /\ \A i \in 1..k : h.mem[C[i]].data > n
                    /\ \A i \in (k + 1)..Len(C) : h.mem[C[i]].data < n
  /\ QUETYPE = 0 => k = Len(C) /\ g.q.tail = x

(* A new cell x with a number that was not queued, linked in behind k      *)
(* cells, leaves a queue in good order.                                    *)
LEMMA Insertion ==
  ASSUME QUETYPE \in 0..1,
         NEW h, NEW C, Good(h, C), NEW k \in 0..Len(C),
         NEW x \in Cells, x \notin h.used, NEW n \in Numbers, n \notin Stored(h),
         NEW g, Behind(h, C, k, x, n, g)
  PROVE  Good(g, Ins(C, k, x)) /\ Stored(g) = Stored(h) \cup {n}
<1> SUFFICES
      ASSUME g.used = h.used \cup {x}, g.q.size = h.q.size + 1,
             g.q.head = IF k = 0 THEN x ELSE h.q.head,
             g.mem[x].data = n, g.mem[x].next = At(C, k + 1),
             \A c \in h.used : g.mem[c].data = h.mem[c].data,
             \A i \in 1..Len(C) : g.mem[C[i]].next = IF i = k THEN x ELSE h.mem[C[i]].next,
             QUETYPE = 1 => /\ \A i \in 1..k : h.mem[C[i]].data > n
                            /\ \A i \in (k + 1)..Len(C) : h.mem[C[i]].data < n,
             QUETYPE = 0 => k = Len(C) /\ g.q.tail = x
      PROVE  Good(g, Ins(C, k, x)) /\ Stored(g) = Stored(h) \cup {n}
  BY DEF Behind
<1>1. PICK D : D = Ins(C, k, x)
  OBVIOUS
<1>2. /\ D \in Seq(Cells) /\ Len(D) = Len(C) + 1 /\ Len(C) \in Nat
      /\ D[k + 1] = x
      /\ \A i \in 1..k : i \in 1..Len(C) /\ D[i] = C[i]
      /\ \A i \in (k + 1)..Len(C) : i \in 1..Len(C) /\ D[i + 1] = C[i]
      /\ \A j \in 1..Len(D) : \/ j = k + 1
                              \/ j \in 1..k
                              \/ \E i \in (k + 1)..Len(C) : j = i + 1
      /\ \A j \in 1..Len(D) :
           \/ j = k + 1
           \/ \E i \in 1..Len(C) : D[j] = C[i] /\ j = IF i <= k THEN i ELSE i + 1
  <2>1. C \in Seq(Cells)
    BY DEF Good, Linked
  <2>2. Placed(C, k, x, D)
    BY <1>1, <2>1, InsIs
  <2> QED
    BY <2>2 DEF Placed
<1>3. h.used = {C[i] : i \in 1..Len(C)}
  BY DEF Good
<1>4. \A i \in 1..Len(C) : C[i] # x
  BY <1>3
<1>5. \A i, j \in 1..Len(C) : C[i] = C[j] => i = j
  BY DEF Good, Linked
<1>6. \A i, j \in 1..Len(D) : D[i] = D[j] => i = j
  <2> TAKE i, j \in 1..Len(D)
  <2> HAVE D[i] = D[j]
  <2>1. \A l \in 1..Len(D) : D[l] = x => l = k + 1
    <3>1. \A l \in 1..Len(D) : l = k + 1 \/ \E a \in 1..Len(C) : D[l] = C[a]
      BY <1>2
    <3> QED
      BY <1>4, <3>1
  <2>2. CASE i = k + 1 \/ j = k + 1
    BY <1>2, <2>1, <2>2
  <2>3. CASE i # k + 1 /\ j # k + 1
    <3>1. PICK a \in 1..Len(C) : D[i] = C[a] /\ i = IF a <= k THEN a ELSE a + 1
      BY <1>2, <2>3
    <3>2. PICK b \in 1..Len(C) : D[j] = C[b] /\ j = IF b <= k THEN b ELSE b + 1
      BY <1>2, <2>3
    <3>3. C[a] = C[b]
      BY <3>1, <3>2
    <3>4. a = b
      BY <1>5, <3>3
    <3> QED
      BY <3>1, <3>2, <3>4
  <2> QED
    BY <2>2, <2>3
<1>7. g.q.head = At(D, 1)
  <2>1. h.q.head = At(C, 1)
    BY DEF Good, Linked
  <2>2. CASE k = 0
    BY <1>2, <2>2 DEF At
  <2>3. CASE k # 0
    BY <1>2, <2>1, <2>3 DEF At
  <2> QED
    BY <2>2, <2>3
<1>8. \A j \in 1..Len(D) : g.mem[D[j]].next = At(D, j + 1)
  <2>1. \A i \in 1..Len(C) : h.mem[C[i]].next = At(C, i + 1)
    BY DEF Good, Linked
  <2> TAKE j \in 1..Len(D)
  <2>2. CASE j = k + 1
    <3>1. At(D, j + 1) = At(C, k + 1)
      <4>1. CASE k < Len(C)
        <5>1. k + 1 \in (k + 1)..Len(C)
          BY <1>2, <4>1
        <5>2. D[(k + 1) + 1] = C[k + 1]
          BY <1>2, <5>1
        <5> QED
          BY <1>2, <2>2, <4>1, <5>2 DEF At
      <4>2. CASE k = Len(C)
        BY <1>2, <2>2, <4>2 DEF At
      <4> QED
        BY <1>2, <4>1, <4>2
    <3> QED
      BY <1>2, <2>2, <3>1
  <2>3. CASE j \in 1..k
    <3>1. j \in 1..Len(C) /\ D[j] = C[j]
      BY <1>2, <2>3
    <3>2. CASE j = k
      <4>1. g.mem[C[j]].next = x
        BY <3>1, <3>2
      <4> QED
        BY <1>2, <3>1, <3>2, <4>1 DEF At
    <3>3. CASE j # k
      <4>1. g.mem[C[j]].next = At(C, j + 1)
        BY <2>1, <3>1, <3>3
      <4>2. j + 1 \in 1..k
        BY <1>2, <2>3, <3>3
      <4>3. D[j + 1] = C[j + 1] /\ j + 1 \in 1..Len(C)
        BY <1>2, <4>2
      <4> QED
        BY <1>2, <3>1, <4>1, <4>3 DEF At
    <3> QED
      BY <3>2, <3>3
  <2>4. ASSUME NEW i \in (k + 1)..Len(C), j = i + 1 PROVE g.mem[D[j]].next = At(D, j + 1)
    <3>1. D[j] = C[i] /\ i \in 1..Len(C) /\ i # k
      BY <1>2, <2>4
    <3>2. g.mem[C[i]].next = At(C, i + 1)
      BY <2>1, <3>1
    <3>3. CASE i < Len(C)
      <4>1. i + 1 \in (k + 1)..Len(C)
        BY <1>2, <3>3
      <4>2. D[(i + 1) + 1] = C[i + 1]
        BY <1>2, <4>1
      <4> QED
        BY <1>2, <2>4, <3>1, <3>2, <3>3, <4>2 DEF At
    <3>4. CASE i = Len(C)
      BY <1>2, <2>4, <3>1, <3>2, <3>4 DEF At
    <3> QED
      BY <1>2, <3>3, <3>4
  <2> QED
    BY <1>2, <2>2, <2>3, <2>4
<1>9. Linked(g.mem, g.q.head, D)
  BY <1>2, <1>6, <1>7, <1>8 DEF Linked
<1>10. g.used = {D[i] : i \in 1..Len(D)}
  <2>1. \A c \in g.used : \E i \in 1..Len(D) : c = D[i]
    <3> TAKE c \in g.used
    <3>1. CASE c = x
      BY <1>2, <3>1
    <3>2. CASE c # x
      <4>1. PICK i \in 1..Len(C) : c = C[i]
        BY <1>3, <3>2
      <4>2. CASE i <= k
        <5>1. i \in 1..k /\ i \in 1..Len(D)
          BY <1>2, <4>2
        <5> QED
          BY <1>2, <4>1, <5>1
      <4>3. CASE ~(i <= k)
        <5>1. i \in (k + 1)..Len(C) /\ i + 1 \in 1..Len(D)
          BY <1>2, <4>3
        <5> QED
          BY <1>2, <4>1, <5>1
      <4> QED
        BY <4>2, <4>3
    <3> QED
      BY <3>1, <3>2
  <2>2. \A i \in 1..Len(D) : D[i] \in g.used
    BY <1>2, <1>3
  <2> QED
    BY <2>1, <2>2
<1>11. \A c \in h.used : h.mem[c].data \in Numbers /\ h.mem[c].data # n /\ g.mem[c].data = h.mem[c].data
  BY DEF Good, Stored
<1>12. \A c, d \in h.used : h.mem[c].data = h.mem[d].data => c = d
  BY DEF Good
<1>13. /\ \A c \in g.used : g.mem[c].data \in Numbers
       /\ \A c, d \in g.used : g.mem[c].data = g.mem[d].data => c = d
  BY <1>11, <1>12
<1>14. QUETYPE = 1 => \A i, j \in 1..Len(D) : i < j => g.mem[D[i]].data > g.mem[D[j]].data
  <2> HAVE QUETYPE = 1
  <2>1. \A i \in 1..Len(C) : C[i] \in h.used
    BY <1>3
  <2>2. \A i, j \in 1..Len(C) : i < j => h.mem[C[i]].data > h.mem[C[j]].data
    BY DEF Good
  <2>3. \A i \in 1..Len(C) : h.mem[C[i]].data \in Nat /\ n \in Nat
    BY <1>11, <2>1, QueueAssumption
  <2>4. PICK N : N = [i \in 1..Len(C) |-> h.mem[C[i]].data]
    OBVIOUS
  <2>5. /\ \A i \in 1..Len(C) : N[i] \in Nat /\ g.mem[C[i]].data = N[i]
        /\ \A i, j \in 1..Len(C) : i < j => N[i] > N[j]
    BY <1>11, <2>1, <2>2, <2>3, <2>4
  <2>6. /\ \A i \in 1..k : N[i] > n
        /\ \A i \in (k + 1)..Len(C) : N[i] < n
    BY <1>2, <2>4
  <2>7. /\ \A i \in 1..k : i \in 1..Len(C) /\ g.mem[D[i]].data = N[i]
        /\ \A i \in (k + 1)..Len(C) : i \in 1..Len(C) /\ g.mem[D[i + 1]].data = N[i]
        /\ g.mem[D[k + 1]].data = n
    BY <1>2, <2>5
  <2>8. \A j \in 1..Len(D) :
          \/ j = k + 1 /\ g.mem[D[j]].data = n
          \/ j \in 1..k /\ g.mem[D[j]].data = N[j] /\ j \in 1..Len(C) /\ N[j] > n
          \/ j > k + 1 /\ g.mem[D[j]].data = N[j - 1] /\ j - 1 \in 1..Len(C) /\ N[j - 1] < n
    <3> TAKE j \in 1..Len(D)
    <3>1. CASE j = k + 1
      BY <2>7, <3>1
    <3>2. CASE j \in 1..k
      BY <2>6, <2>7, <3>2
    <3>3. ASSUME NEW i \in (k + 1)..Len(C), j = i + 1
          PROVE  j > k + 1 /\ g.mem[D[j]].data = N[j - 1] /\ j - 1 \in 1..Len(C) /\ N[j - 1] < n
      <4>1. j - 1 = i /\ j > k + 1
        BY <1>2, <3>3
      <4> QED
        BY <2>6, <2>7, <3>3, <4>1
    <3> QED
      BY <1>2, <3>1, <3>2, <3>3
  <2> TAKE i, j \in 1..Len(D)
  <2> HAVE i < j
  <2>9. PICK y, z : y = g.mem[D[i]].data /\ z = g.mem[D[j]].data
    OBVIOUS
  <2>10. /\ \/ i = k + 1 /\ y = n
            \/ i \in 1..k /\ y = N[i] /\ i \in 1..Len(C) /\ N[i] > n
            \/ i > k + 1 /\ y = N[i - 1] /\ i - 1 \in 1..Len(C) /\ N[i - 1] < n
         /\ \/ j = k + 1 /\ z = n
            \/ j \in 1..k /\ z = N[j] /\ j \in 1..Len(C) /\ N[j] > n
            \/ j > k + 1 /\ z = N[j - 1] /\ j - 1 \in 1..Len(C) /\ N[j - 1] < n
    BY <2>8, <2>9
  <2>11. y > z
    <3>1. k \in Nat /\ n \in Nat /\ i \in Nat /\ j \in Nat
      BY <1>2, <2>10, QueueAssumption
    <3>2. CASE i = k + 1
      BY <2>10, <3>1, <3>2
    <3>3. CASE i \in 1..k
      <4>1. y = N[i] /\ i \in 1..Len(C) /\ N[i] > n /\ N[i] \in Nat
        BY <2>5, <2>10, <3>1, <3>3
      <4>2. CASE j \in 1..k
        BY <2>5, <2>10, <3>1, <4>1, <4>2
      <4>3. CASE j = k + 1
        BY <2>10, <3>1, <4>1, <4>3
      <4>4. CASE j > k + 1
        <5>1. z = N[j - 1] /\ N[j - 1] < n /\ N[j - 1] \in Nat
          BY <2>5, <2>10, <3>1, <4>4
        <5> QED
          BY <3>1, <4>1, <5>1
      <4> QED
        BY <3>1, <4>2, <4>3, <4>4
    <3>4. CASE i > k + 1
      <4>1. i - 1 \in 1..Len(C) /\ j - 1 \in 1..Len(C) /\ i - 1 < j - 1
        BY <2>10, <3>1, <3>4
      <4>2. y = N[i - 1] /\ z = N[j - 1]
        BY <2>10, <3>1, <3>4
      <4> QED
        BY <2>5, <4>1, <4>2
    <3> QED
      BY <3>1, <3>2, <3>3, <3>4
  <2> QED
    BY <2>9, <2>11
<1>15. QUETYPE = 0 /\ Len(D) # 0 => g.q.tail \notin g.used \/ g.q.tail = D[Len(D)]
  BY <1>2
<1>16. g.q.size = Len(D)
  BY <1>2 DEF Good
<1>17. Good(g, D)
  BY <1>9, <1>10, <1>13, <1>14, <1>15, <1>16 DEF Good
<1>18. Stored(g) = Stored(h) \cup {n}
  BY <1>11 DEF Stored
<1> QED
  BY <1>1, <1>17, <1>18

(* Cell k taken out, its predecessor linked to its successor, leaves a     *)
(* queue in good order without its number.                                 *)
LEMMA Removal ==
  ASSUME QUETYPE \in 0..1,
         NEW h, NEW C, Good(h, C), NEW k \in 1..Len(C),
         NEW g, g.used = h.used \ {C[k]}, g.q.size = h.q.size - 1,
         g.q.head = IF k = 1 THEN At(C, 2) ELSE h.q.head,
         \A c \in g.used : g.mem[c].data = h.mem[c].data,
         \A i \in 1..Len(C) : i # k =>
           g.mem[C[i]].next = IF i = k - 1 THEN At(C, k + 1) ELSE h.mem[C[i]].next,
         QUETYPE = 0 /\ Len(C) > 1 => g.q.tail = h.q.tail
  PROVE  Good(g, Del(C, k)) /\ Stored(g) = Stored(h) \ {h.mem[C[k]].data}
<1>1. PICK D : D = Del(C, k)
  OBVIOUS
<1>2. /\ D \in Seq(Cells) /\ Len(D) = Len(C) - 1 /\ Len(C) \in Nat
      /\ \A i \in 1..(k - 1) : i \in 1..Len(C) /\ D[i] = C[i]
      /\ \A i \in (k + 1)..Len(C) : i \in 1..Len(C) /\ D[i - 1] = C[i]
      /\ \A j \in 1..Len(D) : \/ j \in 1..(k - 1)
                              \/ \E i \in (k + 1)..Len(C) : j = i - 1
  <2>1. C \in Seq(Cells)
    BY DEF Good, Linked
  <2>2. Taken(C, k, D)
    BY <1>1, <2>1, DelIs
  <2> QED
    BY <2>2 DEF Taken
<1>3. \A j \in 1..Len(D) :
        \E i \in 1..Len(C) : i # k /\ D[j] = C[i] /\ j = IF i < k THEN i ELSE i - 1
  <2> TAKE j \in 1..Len(D)
  <2>1. CASE j \in 1..(k - 1)
    <3>1. j \in 1..Len(C) /\ D[j] = C[j] /\ j < k
      BY <1>2, <2>1
    <3> QED
      BY <3>1
  <2>2. ASSUME NEW i \in (k + 1)..Len(C), j = i - 1
        PROVE  \E a \in 1..Len(C) : a # k /\ D[j] = C[a] /\ j = IF a < k THEN a ELSE a - 1
    <3>1. i \in 1..Len(C) /\ D[j] = C[i] /\ ~(i < k) /\ i # k
      BY <1>2, <2>2
    <3> QED
      BY <2>2, <3>1
  <2> QED
    BY <1>2, <2>1, <2>2
<1>4. /\ h.used = {C[i] : i \in 1..Len(C)}
      /\ \A i, j \in 1..Len(C) : C[i] = C[j] => i = j
      /\ \A i \in 1..Len(C) : h.mem[C[i]].next = At(C, i + 1)
      /\ h.q.head = At(C, 1)
  BY DEF Good, Linked
<1>5. \A i, j \in 1..Len(D) : D[i] = D[j] => i = j
  <2> TAKE i, j \in 1..Len(D)
  <2> HAVE D[i] = D[j]
  <2>1. PICK a \in 1..Len(C) : a # k /\ D[i] = C[a] /\ i = IF a < k THEN a ELSE a - 1
    BY <1>3
  <2>2. PICK b \in 1..Len(C) : b # k /\ D[j] = C[b] /\ j = IF b < k THEN b ELSE b - 1
    BY <1>3
  <2>3. C[a] = C[b]
    BY <2>1, <2>2
  <2>4. a = b
    BY <1>4, <2>3
  <2> QED
    BY <2>1, <2>2, <2>4
<1>6. g.q.head = At(D, 1)
  <2>1. CASE k = 1 /\ Len(C) > 1
    <3>1. 2 \in (k + 1)..Len(C)
      BY <1>2, <2>1
    <3>2. D[2 - 1] = C[2]
      BY <1>2, <3>1
    <3> QED
      BY <1>2, <2>1, <3>2 DEF At
  <2>2. CASE k = 1 /\ Len(C) = 1
    BY <1>2, <2>2 DEF At
  <2>3. CASE k # 1
    <3>1. 1 \in 1..(k - 1)
      BY <1>2, <2>3
    <3>2. D[1] = C[1]
      BY <1>2, <3>1
    <3> QED
      BY <1>2, <1>4, <2>3, <3>2 DEF At
  <2> QED
    BY <1>2, <2>1, <2>2, <2>3
<1>7. \A j \in 1..Len(D) : g.mem[D[j]].next = At(D, j + 1)
  <2> TAKE j \in 1..Len(D)
  <2>1. PICK i \in 1..Len(C) : i # k /\ D[j] = C[i] /\ j = IF i < k THEN i ELSE i - 1
    BY <1>3
  <2>2. \A a \in (k + 1)..Len(C) : At(D, a - 1) = C[a]
    BY <1>2 DEF At
  <2>3. \A a \in 1..(k - 1) : At(D, a) = C[a]
    BY <1>2 DEF At
  <2>4. CASE i = k - 1
    <3>1. g.mem[D[j]].next = At(C, k + 1) /\ j = k - 1
      BY <2>1, <2>4
    <3>2. At(D, k) = At(C, k + 1)
      <4>1. CASE k = Len(C)
        BY <1>2, <4>1 DEF At
      <4>2. CASE k < Len(C)
        <5>1. k + 1 \in (k + 1)..Len(C) /\ (k + 1) - 1 = k
          BY <1>2, <4>2
        <5>2. At(D, k) = C[k + 1]
          BY <2>2, <5>1
        <5> QED
          BY <1>2, <4>2, <5>2 DEF At
      <4> QED
        BY <1>2, <4>1, <4>2
    <3> QED
      BY <3>1, <3>2
  <2>5. CASE i < k - 1
    <3>1. g.mem[D[j]].next = At(C, i + 1) /\ j = i
      BY <1>4, <2>1, <2>5
    <3>2. i + 1 \in 1..(k - 1) /\ i + 1 <= Len(C)
      BY <1>2, <2>5
    <3>3. At(D, i + 1) = C[i + 1]
      BY <2>3, <3>2
    <3> QED
      BY <3>1, <3>2, <3>3 DEF At
  <2>6. CASE i > k
    <3>1. g.mem[D[j]].next = At(C, i + 1) /\ j + 1 = i
      BY <1>4, <2>1, <2>6
    <3>2. CASE i = Len(C)
      BY <1>2, <3>1, <3>2 DEF At
    <3>3. CASE i < Len(C)
      <4>1. i + 1 \in (k + 1)..Len(C) /\ (i + 1) - 1 = i
        BY <1>2, <2>6, <3>3
      <4>2. At(D, i) = C[i + 1]
        BY <2>2, <4>1
      <4> QED
        BY <1>2, <3>1, <3>3, <4>2 DEF At
    <3>4. i = Len(C) \/ i < Len(C)
      BY <1>2
    <3> QED
      BY <3>2, <3>3, <3>4
  <2> QED
    BY <1>2, <2>1, <2>4, <2>5, <2>6
<1>8. Linked(g.mem, g.q.head, D)
  BY <1>2, <1>5, <1>6, <1>7 DEF Linked
<1>9. g.used = {D[i] : i \in 1..Len(D)}
  <2>1. \A c \in g.used : \E j \in 1..Len(D) : c = D[j]
    <3> TAKE c \in g.used
    <3>1. PICK i \in 1..Len(C) : c = C[i] /\ i # k
      BY <1>4
    <3>2. CASE i < k
      <4>1. i \in 1..(k - 1) /\ i \in 1..Len(D)
        BY <1>2, <3>2
      <4> QED
        BY <1>2, <3>1, <4>1
    <3>3. CASE i > k
      <4>1. i \in (k + 1)..Len(C) /\ i - 1 \in 1..Len(D)
        BY <1>2, <3>3
      <4> QED
        BY <1>2, <3>1, <4>1
    <3> QED
      BY <1>2, <3>1, <3>2, <3>3
  <2>2. \A j \in 1..Len(D) : D[j] \in g.used
    <3> TAKE j \in 1..Len(D)
    <3>1. PICK i \in 1..Len(C) : i # k /\ D[j] = C[i]
      BY <1>3
    <3> QED
      BY <1>4, <3>1
  <2> QED
    BY <2>1, <2>2
<1>10. \A c \in g.used : c \in h.used /\ g.mem[c].data = h.mem[c].data
  OBVIOUS
<1>11. /\ \A c \in h.used : h.mem[c].data \in Numbers
       /\ \A c, d \in h.used : h.mem[c].data = h.mem[d].data => c = d
  BY DEF Good
<1>12. /\ \A c \in g.used : g.mem[c].data \in Numbers
       /\ \A c, d \in g.used : g.mem[c].data = g.mem[d].data => c = d
  BY <1>10, <1>11
<1>13. QUETYPE = 1 => \A i, j \in 1..Len(D) : i < j => g.mem[D[i]].data > g.mem[D[j]].data
  <2> HAVE QUETYPE = 1
  <2>1. \A i, j \in 1..Len(C) : i < j => h.mem[C[i]].data > h.mem[C[j]].data
    BY DEF Good
  <2> TAKE i, j \in 1..Len(D)
  <2> HAVE i < j
  <2>2. PICK a \in 1..Len(C) : a # k /\ D[i] = C[a] /\ i = IF a < k THEN a ELSE a - 1
    BY <1>3
  <2>3. PICK b \in 1..Len(C) : b # k /\ D[j] = C[b] /\ j = IF b < k THEN b ELSE b - 1
    BY <1>3
  <2>4. a < b
    BY <1>2, <2>2, <2>3
  <2>5. D[i] \in g.used /\ D[j] \in g.used
    BY <1>9
  <2> QED
    BY <1>10, <2>1, <2>2, <2>3, <2>4, <2>5
<1>14. QUETYPE = 0 /\ Len(D) # 0 => g.q.tail \notin g.used \/ g.q.tail = D[Len(D)]
  <2> HAVE QUETYPE = 0 /\ Len(D) # 0
  <2>1. Len(C) > 1 /\ g.q.tail = h.q.tail
    BY <1>2
  <2>2. h.q.tail \notin h.used \/ h.q.tail = C[Len(C)]
    BY <2>1 DEF Good
  <2>3. CASE h.q.tail \notin h.used
    BY <2>1, <2>3
  <2>4. CASE h.q.tail = C[Len(C)]
    <3>1. CASE k = Len(C)
      BY <2>1, <2>4, <3>1
    <3>2. CASE k < Len(C)
      <4>1. Len(C) \in (k + 1)..Len(C)
        BY <1>2, <3>2
      <4>2. D[Len(C) - 1] = C[Len(C)]
        BY <1>2, <4>1
      <4> QED
        BY <1>2, <2>1, <2>4, <4>2
    <3> QED
      BY <1>2, <3>1, <3>2
  <2> QED
    BY <2>2, <2>3, <2>4
<1>15. g.q.size = Len(D)
  BY <1>2 DEF Good
<1>16. Good(g, D)
  BY <1>8, <1>9, <1>12, <1>13, <1>14, <1>15 DEF Good
<1>17. Stored(g) = Stored(h) \ {h.mem[C[k]].data}
  <2>1. C[k] \in h.used
    BY <1>4
  <2> QED
    BY <1>10, <1>11, <2>1 DEF Stored
<1> QED
  BY <1>1, <1>16, <1>17

-----------------------------------------------------------------------------
(* What the calls do to a queue in good order. *)
LEMMA PopIs ==
  ASSUME QUETYPE \in 0..1, NEW h \in Heap, NEW C, Good(h, C), Len(C) # 0
  PROVE  /\ Popped(h) \in Heap
         /\ Good(Popped(h), Del(C, 1))
         /\ h.q.head = C[1] /\ h.q.head \in Cells
         /\ Stored(Popped(h)) = Stored(h) \ {h.mem[C[1]].data}
<1>1. /\ C \in Seq(Cells) /\ Len(C) \in Nat /\ 1 \in 1..Len(C)
      /\ \A i \in 1..Len(C) : C[i] \in Cells
      /\ h.q.size = Len(C) /\ h.q.head = C[1]
  BY LenProperties, ElementOfSeq DEF Good, Linked, At
<1>2. h.mem[C[1]].next = At(C, 2)
  BY <1>1 DEF Good, Linked
<1>3. PICK g : g = Popped(h)
  OBVIOUS
<1>4. /\ h.q \in [size : Nat, head : Pointers, tail : Pointers]
      /\ h.mem \in [Cells -> [data : Numbers \cup {0}, next : Pointers]]
      /\ h.used \in SUBSET Cells
  BY DEF Heap
<1>5. /\ g.used = h.used \ {C[1]}
      /\ g.mem = [h.mem EXCEPT ![C[1]] = Blank]
      /\ g.q = IF Len(C) = 1 THEN new_queue ELSE [size |-> h.q.size - 1, head |-> At(C, 2), tail |-> h.q.tail]
      /\ g = [q |-> g.q, mem |-> g.mem, used |-> g.used]
  <2>1. h = [q |-> h.q, mem |-> h.mem, used |-> h.used]
    BY DEF Heap
  <2>2. PICK c, m : c = C[1] /\ m = At(C, 2)
    OBVIOUS
  <2>3. h.q.head = c /\ h.mem[c].next = m /\ h.q.size = Len(C)
    BY <1>1, <1>2, <2>2
  <2>4. g = [q |-> IF Len(C) = 1 THEN new_queue
                   ELSE [size |-> h.q.size - 1, head |-> m, tail |-> h.q.tail],
             mem |-> [h.mem EXCEPT ![c] = Blank],
             used |-> h.used \ {c}]
    <3>1. Popped(h) =
            [q |-> IF h.q.size = 1 THEN new_queue
                   ELSE [size |-> h.q.size - 1, head |-> h.mem[h.q.head].next, tail |-> h.q.tail],
             mem |-> [h.mem EXCEPT ![h.q.head] = Blank],
             used |-> h.used \ {h.q.head}]
      <4>1. PICK z : z = IF h.q.size = 1 THEN new_queue
                         ELSE [size |-> h.q.size - 1, head |-> h.mem[h.q.head].next,
                               tail |-> h.q.tail]
        OBVIOUS
      <4>2. Popped(h) = [h EXCEPT !.used = @ \ {h.q.head}, !.mem[h.q.head] = Blank, !.q = z]
        BY <4>1 DEF Popped
      <4>3. Popped(h) = [q |-> z, mem |-> [h.mem EXCEPT ![h.q.head] = Blank],
                         used |-> h.used \ {h.q.head}]
        BY <4>2 DEF Heap
      <4> QED
        BY <4>1, <4>3
    <3> QED
      BY <1>3, <2>3, <3>1
  <2> QED
    BY <2>2, <2>4
<1>6. Blank \in [data : Numbers \cup {0}, next : Pointers]
  BY DEF Blank, Pointers
<1>7. g.mem \in [Cells -> [data : Numbers \cup {0}, next : Pointers]]
  BY <1>4, <1>5, <1>6
<1>8. At(C, 2) \in Pointers
  BY <1>1 DEF At, Pointers
<1>9. g.q \in [size : Nat, head : Pointers, tail : Pointers]
  <2>1. CASE Len(C) = 1
    BY <1>5, <2>1 DEF new_queue, Pointers
  <2>2. CASE Len(C) # 1
    <3>1. h.q.size - 1 \in Nat
      BY <1>1, <2>2
    <3> QED
      BY <1>4, <1>5, <1>8, <2>2, <3>1
  <2> QED
    BY <2>1, <2>2
<1>10. g \in Heap
  BY <1>4, <1>5, <1>7, <1>9 DEF Heap
<1>11. /\ g.q.size = h.q.size - 1
       /\ g.q.head = At(C, 2)
       /\ Len(C) > 1 => g.q.tail = h.q.tail
  <2>1. CASE Len(C) = 1
    BY <1>1, <1>5, <2>1 DEF new_queue, At
  <2>2. CASE Len(C) # 1
    BY <1>1, <1>4, <1>5, <2>2
  <2> QED
    BY <2>1, <2>2
<1>12. \A c \in Cells : c # C[1] => g.mem[c] = h.mem[c]
  BY <1>4, <1>5
<1>13. \A i \in 1..Len(C) : i # 1 => C[i] # C[1]
  BY <1>1 DEF Good, Linked
<1>14. \A i \in 1..Len(C) : i # 1 => i # 1 - 1 /\ g.mem[C[i]].next = h.mem[C[i]].next
  BY <1>1, <1>12, <1>13
<1>15. \A c \in g.used : g.mem[c].data = h.mem[c].data
  BY <1>4, <1>5, <1>12
<1>16. Good(g, Del(C, 1)) /\ Stored(g) = Stored(h) \ {h.mem[C[1]].data}
  <2>1. PICK k \in 1..Len(C) : k = 1
    BY <1>1
  <2>2. /\ g.used = h.used \ {C[k]} /\ g.q.size = h.q.size - 1
        /\ g.q.head = IF k = 1 THEN At(C, 2) ELSE h.q.head
        /\ \A c \in g.used : g.mem[c].data = h.mem[c].data
        /\ \A i \in 1..Len(C) : i # k =>
             g.mem[C[i]].next = IF i = k - 1 THEN At(C, k + 1) ELSE h.mem[C[i]].next
        /\ QUETYPE = 0 /\ Len(C) > 1 => g.q.tail = h.q.tail
    BY <1>5, <1>11, <1>14, <1>15, <2>1
  <2>3. Good(g, Del(C, k)) /\ Stored(g) = Stored(h) \ {h.mem[C[k]].data}
    BY <2>2, Removal
  <2> QED
    BY <2>1, <2>3
<1> QED
  BY <1>1, <1>3, <1>10, <1>16

LEMMA UnlinkIs ==
  ASSUME QUETYPE \in 0..1, NEW h \in Heap, NEW C, Good(h, C), NEW k \in 2..Len(C)
  PROVE  /\ Unlinked(h, C[k - 1], C[k]) \in Heap
         /\ Good(Unlinked(h, C[k - 1], C[k]), Del(C, k))
         /\ Stored(Unlinked(h, C[k - 1], C[k])) = Stored(h) \ {h.mem[C[k]].data}
<1>1. /\ C \in Seq(Cells) /\ Len(C) \in Nat /\ k \in 1..Len(C) /\ k - 1 \in 1..Len(C)
      /\ \A i \in 1..Len(C) : C[i] \in Cells
      /\ h.q.size = Len(C)
  BY LenProperties, ElementOfSeq DEF Good, Linked
<1>2. /\ h.mem[C[k]].next = At(C, k + 1)
      /\ \A i, j \in 1..Len(C) : C[i] = C[j] => i = j
  BY <1>1 DEF Good, Linked
<1>3. PICK g : g = Unlinked(h, C[k - 1], C[k])
  OBVIOUS
<1>4. PICK a, b \in Cells : a = C[k - 1] /\ b = C[k] /\ a # b
  BY <1>1, <1>2
<1>5. /\ h.q \in [size : Nat, head : Pointers, tail : Pointers]
      /\ h.mem \in [Cells -> [data : Numbers \cup {0}, next : Pointers]]
      /\ h.used \in SUBSET Cells
  BY DEF Heap
<1>6. /\ g.used = h.used \ {b}
      /\ g.mem = [h.mem EXCEPT ![a].next = At(C, k + 1), ![b] = Blank]
      /\ g.q = [h.q EXCEPT !.size = @ - 1]
      /\ g = [q |-> g.q, mem |-> g.mem, used |-> g.used]
  BY <1>2, <1>3, <1>4 DEF Heap, Unlinked
<1>7. Blank \in [data : Numbers \cup {0}, next : Pointers]
  BY DEF Blank, Pointers
<1>8. At(C, k + 1) \in Pointers
  BY <1>1 DEF At, Pointers
<1>9. /\ g.mem \in [Cells -> [data : Numbers \cup {0}, next : Pointers]]
      /\ g.mem[a].next = At(C, k + 1) /\ g.mem[a].data = h.mem[a].data
      /\ \A c \in Cells : c \notin {a, b} => g.mem[c] = h.mem[c]
  <2>1. PICK R : R = [data : Numbers \cup {0}, next : Pointers]
    OBVIOUS
  <2>2. PICK r : r = [h.mem[a] EXCEPT !.next = At(C, k + 1)]
    OBVIOUS
  <2>3. h.mem[a] \in [data : Numbers \cup {0}, next : Pointers]
    BY <1>5
  <2>4. r \in R /\ Blank \in R /\ r.next = At(C, k + 1) /\ r.data = h.mem[a].data
    BY <1>7, <1>8, <2>1, <2>2, <2>3
  <2>5. g.mem = [h.mem EXCEPT ![a] = r, ![b] = Blank] /\ h.mem \in [Cells -> R]
    BY <1>5, <1>6, <2>1, <2>2
  <2>6. /\ g.mem \in [Cells -> R] /\ g.mem[a] = r
        /\ \A c \in Cells : c \notin {a, b} => g.mem[c] = h.mem[c]
    BY <1>4, <2>4, <2>5
  <2> QED
    BY <2>1, <2>4, <2>6
<1>10. /\ g.q \in [size : Nat, head : Pointers, tail : Pointers]
       /\ g.q.size = h.q.size - 1 /\ g.q.head = h.q.head /\ g.q.tail = h.q.tail
  <2>1. h.q.size - 1 \in Nat
    BY <1>1
  <2> QED
    BY <1>5, <1>6, <2>1
<1>11. g \in Heap
  BY <1>5, <1>6, <1>9, <1>10 DEF Heap
<1>12. \A c \in g.used : g.mem[c].data = h.mem[c].data
  BY <1>5, <1>6, <1>9
<1>13. \A i \in 1..Len(C) : i # k =>
         g.mem[C[i]].next = IF i = k - 1 THEN At(C, k + 1) ELSE h.mem[C[i]].next
  <2> TAKE i \in 1..Len(C)
  <2> HAVE i # k
  <2>1. CASE i = k - 1
    BY <1>4, <1>9, <2>1
  <2>2. CASE i # k - 1
    <3>1. C[i] \in Cells /\ C[i] \notin {a, b}
      BY <1>1, <1>2, <1>4, <2>2
    <3> QED
      BY <1>9, <2>2, <3>1
  <2> QED
    BY <2>1, <2>2
<1>14. g.q.head = IF k = 1 THEN At(C, 2) ELSE h.q.head
  BY <1>10
<1>15. Good(g, Del(C, k)) /\ Stored(g) = Stored(h) \ {h.mem[C[k]].data}
  <2>1. /\ k \in 1..Len(C)
        /\ g.used = h.used \ {C[k]} /\ g.q.size = h.q.size - 1
        /\ g.q.head = IF k = 1 THEN At(C, 2) ELSE h.q.head
        /\ QUETYPE = 0 /\ Len(C) > 1 => g.q.tail = h.q.tail
    BY <1>1, <1>4, <1>6, <1>10, <1>14
  <2> QED
    BY <1>12, <1>13, <2>1, Removal
<1> QED
  BY <1>3, <1>11, <1>15

LEMMA LeadingIs ==
  ASSUME NEW h, NEW C, Len(C) \in Nat, NEW n \in Nat,
         \A i \in 1..Len(C) : h.mem[C[i]].data \in Nat
  PROVE  /\ LeadingLarger(h, C, n) \in 0..Len(C)
         /\ \A i \in 1..LeadingLarger(h, C, n) : h.mem[C[i]].data > n
         /\ LeadingLarger(h, C, n) < Len(C) =>
              h.mem[C[LeadingLarger(h, C, n) + 1]].data <= n
<1> DEFINE S == {k \in 0..Len(C) : k = Len(C) \/ h.mem[C[k + 1]].data <= n}
<1>1. S \subseteq Nat /\ Len(C) \in S
  OBVIOUS
<1>2. PICK k \in S : \A l \in S : k <= l
  BY <1>1, LeastNumber
<1>3. \A i \in 1..k : h.mem[C[i]].data > n
  <2> TAKE i \in 1..k
  <2>1. i - 1 \in 0..Len(C) /\ i - 1 # Len(C) /\ i - 1 < k /\ (i - 1) + 1 = i /\ i \in 1..Len(C)
    BY <1>2
  <2>2. i - 1 \notin S
    <3> HIDE DEF S
    <3> QED
      BY <1>1, <1>2, <2>1
  <2>3. ~(h.mem[C[(i - 1) + 1]].data <= n)
    BY <2>1, <2>2
  <2> QED
    BY <2>1, <2>3
<1>4. k \in 0..Len(C) /\ (k < Len(C) => h.mem[C[k + 1]].data <= n)
  BY <1>2
<1>5. \E l \in 0..Len(C) : /\ \A i \in 1..l : h.mem[C[i]].data > n
                           /\ l < Len(C) => h.mem[C[l + 1]].data <= n
  BY <1>3, <1>4
<1> HIDE DEF S
<1> QED
  BY <1>5 DEF LeadingLarger

(* The tail that queue.c appends to is the last cell. *)
Ready(h, C) == QUETYPE = 0 /\ Len(C) # 0 => h.q.tail = C[Len(C)]

LEMMA PushIs ==
  ASSUME QUETYPE \in 0..1, NEW h \in Heap, NEW C, Good(h, C), Ready(h, C),
         NEW x \in Cells, x \notin h.used, NEW n \in Numbers, n \notin Stored(h)
  PROVE  \E D : /\ Pushed(h, n, x) \in Heap
                /\ Good(Pushed(h, n, x), D) /\ Ready(Pushed(h, n, x), D)
                /\ Len(D) = Len(C) + 1
                /\ Stored(Pushed(h, n, x)) = Stored(h) \cup {n}
<1>1. /\ C \in Seq(Cells) /\ Len(C) \in Nat
      /\ \A i \in 1..Len(C) : C[i] \in Cells /\ C[i] \in h.used /\ C[i] # x
      /\ h.q.size = Len(C) /\ h.q.head = At(C, 1)
      /\ \A i, j \in 1..Len(C) : C[i] = C[j] => i = j
      /\ \A i \in 1..Len(C) : h.mem[C[i]].next = At(C, i + 1)
  <2>1. C \in Seq(Cells)
    BY DEF Good, Linked
  <2>2. Len(C) \in Nat /\ \A i \in 1..Len(C) : C[i] \in Cells
    BY <2>1, LenProperties, ElementOfSeq
  <2>3. h.used = {C[i] : i \in 1..Len(C)} /\ h.q.size = Len(C) /\ Linked(h.mem, h.q.head, C)
    BY DEF Good
  <2>4. \A i \in 1..Len(C) : C[i] \in h.used /\ C[i] # x
    BY <2>3
  <2> QED
    BY <2>1, <2>2, <2>3, <2>4 DEF Linked
<1>2. /\ h.q \in [size : Nat, head : Pointers, tail : Pointers]
      /\ h.mem \in [Cells -> [data : Numbers \cup {0}, next : Pointers]]
      /\ h.used \in SUBSET Cells
      /\ h = [q |-> h.q, mem |-> h.mem, used |-> h.used]
  BY DEF Heap
<1>3. PICK R : R = [data : Numbers \cup {0}, next : Pointers]
  OBVIOUS
<1>4. PICK node : node = [data |-> n, next |-> NULL]
  OBVIOUS
<1>5. PICK g : g = [h EXCEPT !.mem[x] = node, !.used = @ \cup {x}]
  OBVIOUS
<1>6. /\ g = [q |-> h.q, mem |-> [h.mem EXCEPT ![x] = node], used |-> h.used \cup {x}]
      /\ node \in R /\ node.data = n /\ node.next = NULL
  BY <1>2, <1>3, <1>4, <1>5 DEF Pointers
<1>7. /\ g.q = h.q /\ g.used = h.used \cup {x}
      /\ g.mem \in [Cells -> R] /\ g.mem[x] = node
      /\ \A c \in Cells : c # x => g.mem[c] = h.mem[c]
      /\ g = [q |-> g.q, mem |-> g.mem, used |-> g.used]
  BY <1>2, <1>3, <1>6
<1>8. \A c \in h.used : c \in Cells /\ c # x /\ g.mem[c] = h.mem[c]
  BY <1>2, <1>7
<1>9. PICK p : p = Pushed(h, n, x)
  OBVIOUS
<1>10. p = IF g.q.size = 0 THEN [g EXCEPT !.q = [size |-> 1, head |-> x, tail |-> x]]
           ELSE IF QUETYPE = 1 THEN Inserted(g, x) ELSE Appended(g, x)
  BY <1>4, <1>5, <1>9 DEF Pushed
<1>11. \A c \in h.used : h.mem[c].data \in Numbers /\ h.mem[c].data # n
  BY DEF Good, Stored
<1>12. QUETYPE = 1 => \A i, j \in 1..Len(C) : i < j => h.mem[C[i]].data > h.mem[C[j]].data
  BY DEF Good
<1>13. n \in Nat /\ \A i \in 1..Len(C) : h.mem[C[i]].data \in Nat /\ h.mem[C[i]].data # n
  BY <1>1, <1>11, QueueAssumption
<1>14. At(C, 1) \in Pointers /\ \A i \in 1..Len(C) : At(C, i + 1) \in Pointers
  BY <1>1 DEF At, Pointers
(* What is left to show of each way to link x in. *)
<1>15. SUFFICES \E k \in 0..Len(C) : Behind(h, C, k, x, n, p) /\ p \in Heap
  <2>1. PICK k \in 0..Len(C) : Behind(h, C, k, x, n, p) /\ p \in Heap
    BY <1>15
  <2>2. PICK D : D = Ins(C, k, x)
    OBVIOUS
  <2>3. Good(p, D) /\ Stored(p) = Stored(h) \cup {n}
    BY <2>1, <2>2, Insertion
  <2>4. Placed(C, k, x, D)
    BY <1>1, <2>2, InsIs
  <2>5. Len(D) = Len(C) + 1 /\ D[k + 1] = x
    BY <2>4 DEF Placed
  <2>6. Ready(p, D)
    BY <1>1, <2>1, <2>5 DEF Ready, Behind
  <2> QED
    BY <1>9, <2>1, <2>3, <2>5, <2>6
<1>16. CASE Len(C) = 0
  <2>1. PICK k \in 0..Len(C) : k = 0
    BY <1>1
  <2>2. p = [q |-> [size |-> 1, head |-> x, tail |-> x], mem |-> g.mem, used |-> g.used]
    BY <1>1, <1>7, <1>10, <1>16
  <2>3. /\ p.used = h.used \cup {x} /\ p.q.size = h.q.size + 1
        /\ p.q.head = x /\ p.q.tail = x
        /\ p.mem = g.mem
    BY <1>1, <1>7, <1>16, <2>2
  <2>4. p \in Heap
    BY <1>2, <1>3, <1>7, <2>2 DEF Heap, Pointers
  <2>5. p.mem[x].data = n /\ p.mem[x].next = At(C, k + 1)
    BY <1>6, <1>7, <1>16, <2>1, <2>3 DEF At
  <2> QED
    BY <1>8, <1>16, <2>1, <2>3, <2>4, <2>5 DEF Behind
<1>17. CASE Len(C) # 0 /\ QUETYPE = 0
  <2>1. PICK k \in 1..Len(C) : k = Len(C)
    BY <1>1, <1>17
  <2>2. PICK a \in Cells : a = C[k] /\ a # x
    BY <1>1, <2>1
  <2>3. g.q.tail = a
    BY <1>7, <1>17, <2>1, <2>2 DEF Ready
  <2>4. p = Appended(g, x)
    BY <1>1, <1>7, <1>10, <1>17
  <2>5. PICK r : r = [g.mem[a] EXCEPT !.next = x]
    OBVIOUS
  <2>6. g.mem[a] \in [data : Numbers \cup {0}, next : Pointers] /\ g.mem[a] = h.mem[a]
    BY <1>3, <1>7, <2>2
  <2>7. r \in R /\ r.next = x /\ r.data = h.mem[a].data
    BY <1>3, <2>5, <2>6 DEF Pointers
  <2>8. p = [q |-> [size |-> h.q.size + 1, head |-> h.q.head, tail |-> x],
             mem |-> [g.mem EXCEPT ![a] = r], used |-> g.used]
    BY <1>2, <1>7, <2>3, <2>4, <2>5 DEF Appended
  <2>9. /\ p.mem \in [Cells -> R] /\ p.mem[a] = r
        /\ \A c \in Cells : c # a => p.mem[c] = g.mem[c]
        /\ p.used = g.used
        /\ p.q.size = h.q.size + 1 /\ p.q.head = h.q.head /\ p.q.tail = x
    BY <1>7, <2>2, <2>7, <2>8
  <2>10. p \in Heap
    BY <1>2, <1>3, <1>7, <2>8, <2>9 DEF Heap, Pointers
  <2>11. p.mem[x].data = n /\ p.mem[x].next = At(C, k + 1)
    BY <1>1, <1>6, <1>7, <2>1, <2>2, <2>9 DEF At
  <2>12. \A c \in h.used : p.mem[c].data = h.mem[c].data
    BY <1>8, <2>7, <2>9
  <2>13. \A i \in 1..Len(C) : p.mem[C[i]].next = IF i = k THEN x ELSE h.mem[C[i]].next
    <3> TAKE i \in 1..Len(C)
    <3>1. CASE i = k
      BY <2>2, <2>7, <2>9, <3>1
    <3>2. CASE i # k
      <4>1. C[i] # a /\ C[i] \in Cells /\ C[i] # x
        BY <1>1, <2>2, <3>2
      <4> QED
        BY <1>7, <2>9, <3>2, <4>1
    <3> QED
      BY <3>1, <3>2
  <2>14. k \in 0..Len(C) /\ k # 0 /\ p.q.head = h.q.head
    BY <1>1, <2>9
  <2>15. k = Len(C) /\ p.q.tail = x /\ p.q.size = h.q.size + 1 /\ p.used = h.used \cup {x}
    BY <1>7, <2>1, <2>9
  <2> QED
    BY <1>17, <2>10, <2>11, <2>12, <2>13, <2>14, <2>15 DEF Behind
<1>18. CASE Len(C) # 0 /\ QUETYPE = 1
  <2>1. p = Inserted(g, x)
    BY <1>1, <1>7, <1>10, <1>18
  <2>2. ListFrom(g.mem, g.q.head) = C
    <3>1. \A i \in 1..Len(C) : g.mem[C[i]].next = At(C, i + 1)
      BY <1>1, <1>7
    <3>2. Linked(g.mem, g.q.head, C)
      BY <1>1, <1>7, <3>1 DEF Linked
    <3> QED
      BY <3>2, ListIs
  <2>3. PICK m : m = LeadingLarger(g, C, n)
    OBVIOUS
  <2>4. /\ m \in 0..Len(C)
        /\ \A i \in 1..m : h.mem[C[i]].data > n
        /\ m < Len(C) => h.mem[C[m + 1]].data <= n
    <3>1. \A i \in 1..Len(C) : g.mem[C[i]].data = h.mem[C[i]].data
      BY <1>1, <1>7
    <3>2. \A i \in 1..Len(C) : g.mem[C[i]].data \in Nat
      BY <1>13, <3>1
    <3>3. /\ m \in 0..Len(C)
          /\ \A i \in 1..m : g.mem[C[i]].data > n
          /\ m < Len(C) => g.mem[C[m + 1]].data <= n
      BY <1>1, <1>13, <2>3, <3>2, LeadingIs
    <3>4. \A i \in 1..m : h.mem[C[i]].data > n
      <4> TAKE i \in 1..m
      <4>1. i \in 1..Len(C)
        BY <1>1, <3>3
      <4> QED
        BY <3>1, <3>3, <4>1
    <3>5. ASSUME m < Len(C) PROVE h.mem[C[m + 1]].data <= n
      <4>1. m + 1 \in 1..Len(C)
        BY <1>1, <3>3, <3>5
      <4> QED
        BY <3>1, <3>3, <3>5, <4>1
    <3> QED
      BY <3>3, <3>4, <3>5
  <2>5. PICK b \in Cells : b = C[1] /\ b # x /\ g.q.head = b
    BY <1>1, <1>7, <1>18 DEF At
  <2>6. g.mem[x].data = n /\ g.mem[b].data = h.mem[b].data /\ h.mem[b].data \in Nat
    BY <1>1, <1>6, <1>7, <1>13, <1>18, <2>5
  <2>7. CASE h.mem[b].data < n
    <3>1. PICK k \in 0..Len(C) : k = 0
      BY <1>1
    <3>2. p = [g EXCEPT !.mem[x].next = g.q.head, !.q.head = x, !.q.size = @ + 1]
      BY <2>1, <2>5, <2>6, <2>7 DEF Inserted
    <3>3. PICK r : r = [g.mem[x] EXCEPT !.next = b]
      OBVIOUS
    <3>4. p = [q |-> [size |-> h.q.size + 1, head |-> x, tail |-> h.q.tail],
               mem |-> [g.mem EXCEPT ![x] = r], used |-> g.used]
      BY <1>2, <1>7, <2>5, <3>2, <3>3
    <3>5. r \in R /\ r.data = n /\ r.next = b
      BY <1>3, <1>6, <1>7, <3>3 DEF Pointers
    <3>6. /\ p.mem \in [Cells -> R] /\ p.mem[x] = r
          /\ \A c \in Cells : c # x => p.mem[c] = g.mem[c]
          /\ p.used = g.used
          /\ p.q.size = h.q.size + 1 /\ p.q.head = x /\ p.q.tail = h.q.tail
      BY <1>7, <3>4, <3>5
    <3>7. p \in Heap
      BY <1>2, <1>3, <1>7, <3>4, <3>6 DEF Heap, Pointers
    <3>8. p.mem[x].data = n /\ p.mem[x].next = At(C, k + 1)
      BY <1>1, <1>18, <2>5, <3>1, <3>5, <3>6 DEF At
    <3>9. \A c \in h.used : p.mem[c].data = h.mem[c].data
      BY <1>8, <3>6
    <3>10. \A i \in 1..Len(C) : p.mem[C[i]].next = IF i = k THEN x ELSE h.mem[C[i]].next
      BY <1>1, <1>7, <3>1, <3>6
    <3>11. \A i \in (k + 1)..Len(C) : h.mem[C[i]].data < n
      <4>1. 1 \in 1..Len(C) /\ h.mem[C[1]].data \in Nat /\ h.mem[C[1]].data < n
        BY <1>1, <1>13, <1>18, <2>5, <2>7
      <4> TAKE i \in (k + 1)..Len(C)
      <4>2. i \in 1..Len(C) /\ h.mem[C[i]].data \in Nat /\ n \in Nat
        BY <1>1, <1>13, <3>1
      <4>3. i = 1 \/ h.mem[C[1]].data > h.mem[C[i]].data
        BY <1>12, <1>18, <4>1, <4>2
      <4> QED
        BY <4>1, <4>2, <4>3
    <3>12. p.q.head = x /\ p.q.size = h.q.size + 1 /\ p.used = h.used \cup {x}
      BY <1>7, <3>6
    <3> QED
      BY <1>18, <3>1, <3>7, <3>8, <3>9, <3>10, <3>11, <3>12 DEF Behind
  <2>8. CASE ~(h.mem[b].data < n)
    <3>1. h.mem[b].data > n
      BY <1>1, <1>13, <1>18, <2>5, <2>8
    <3>2. PICK k \in 1..Len(C) : k = m
      <4>1. m # 0
        BY <1>1, <1>13, <1>18, <2>4, <2>5, <3>1
      <4> QED
        BY <2>4, <4>1
    <3>3. PICK a \in Cells : a = C[k] /\ a # x
      BY <1>1
    <3>4. g.mem[a].next = At(C, k + 1)
      BY <1>1, <1>7, <3>3
    <3>5. p = [g EXCEPT !.mem = [@ EXCEPT ![a].next = x, ![x].next = At(C, k + 1)], !.q.size = @ + 1]
      <4>1. PICK nx : nx = At(C, k + 1)
        OBVIOUS
      <4>2. Len(C) \in Nat /\ m # 0
        BY <1>1, <3>2
      <4> QED
        BY <2>1, <2>2, <2>3, <2>5, <2>6, <2>8, <3>2, <3>3, <3>4, <4>1, <4>2 DEF Inserted
    <3>6. PICK r, s : r = [g.mem[a] EXCEPT !.next = x] /\ s = [g.mem[x] EXCEPT !.next = At(C, k + 1)]
      OBVIOUS
    <3>7. p = [q |-> [size |-> h.q.size + 1, head |-> h.q.head, tail |-> h.q.tail],
               mem |-> [g.mem EXCEPT ![a] = r, ![x] = s], used |-> g.used]
      <4>1. PICK nx : nx = At(C, k + 1)
        OBVIOUS
      <4> QED
        BY <1>2, <1>7, <3>3, <3>5, <3>6, <4>1
    <3>8. g.mem[a] \in [data : Numbers \cup {0}, next : Pointers] /\ g.mem[a] = h.mem[a]
      BY <1>3, <1>7, <3>3
    <3>9. /\ r \in R /\ r.next = x /\ r.data = h.mem[a].data
          /\ s \in R /\ s.data = n /\ s.next = At(C, k + 1)
      BY <1>3, <1>6, <1>7, <1>14, <3>6, <3>8 DEF Pointers
    <3>10. /\ p.mem \in [Cells -> R] /\ p.mem[a] = r /\ p.mem[x] = s
           /\ \A c \in Cells : c \notin {a, x} => p.mem[c] = g.mem[c]
           /\ p.used = g.used
           /\ p.q.size = h.q.size + 1 /\ p.q.head = h.q.head
      BY <1>7, <3>3, <3>7, <3>9
    <3>11. p \in Heap
      BY <1>2, <1>3, <1>7, <3>7, <3>10 DEF Heap, Pointers
    <3>12. p.mem[x].data = n /\ p.mem[x].next = At(C, k + 1)
      BY <3>9, <3>10
    <3>13. \A c \in h.used : p.mem[c].data = h.mem[c].data
      BY <1>8, <3>9, <3>10
    <3>14. \A i \in 1..Len(C) : p.mem[C[i]].next = IF i = k THEN x ELSE h.mem[C[i]].next
      <4> TAKE i \in 1..Len(C)
      <4>1. CASE i = k
        BY <3>3, <3>9, <3>10, <4>1
      <4>2. CASE i # k
        <5>1. C[i] # a /\ C[i] \in Cells /\ C[i] # x
          BY <1>1, <3>3, <4>2
        <5> QED
          BY <1>7, <3>10, <4>2, <5>1
      <4> QED
        BY <4>1, <4>2
    <3>15. \A i \in (k + 1)..Len(C) : h.mem[C[i]].data < n
      <4> TAKE i \in (k + 1)..Len(C)
      <4>1. k + 1 \in 1..Len(C) /\ i \in 1..Len(C) /\ k < Len(C)
        BY <1>1
      <4>2. h.mem[C[k + 1]].data < n
        BY <1>13, <2>4, <3>2, <4>1
      <4>3. CASE i = k + 1
        BY <4>2, <4>3
      <4>4. CASE i # k + 1
        <5>1. h.mem[C[k + 1]].data > h.mem[C[i]].data
          BY <1>12, <1>18, <4>1, <4>4
        <5> QED
          BY <1>13, <4>1, <4>2, <5>1
      <4> QED
        BY <4>3, <4>4
    <3>16. p.q.head = h.q.head /\ p.q.size = h.q.size + 1 /\ p.used = h.used \cup {x} /\ k \in 0..Len(C) /\ k # 0
      BY <1>1, <1>7, <3>10
    <3>17. \A i \in 1..k : h.mem[C[i]].data > n
      BY <2>4, <3>2
    <3> QED
      BY <1>18, <3>11, <3>12, <3>13, <3>14, <3>15, <3>16, <3>17 DEF Behind
  <2> QED
    BY <2>7, <2>8
<1> QED
  BY <1>16, <1>17, <1>18

(* Loading pushes the numbers one by one into a new queue. *)
LEMMA LoadIs ==
  ASSUME QUETYPE \in 0..1, NEW numbers \in Seq(Numbers),
         Len(numbers) <= Cardinality(Cells),
         \A i, j \in 1..Len(numbers) : numbers[i] = numbers[j] => i = j
  PROVE  /\ Loaded(numbers) \in Heap
         /\ \E C : Good(Loaded(numbers), C)
         /\ Stored(Loaded(numbers)) = {numbers[i] : i \in 1..Len(numbers)}
<1> DEFINE N == Len(numbers)
           push(h, k) == Pushed(h, numbers[k], CHOOSE c \in Cells : c \notin h.used)
           step(f, n) == [k \in 0..n |-> IF k = 0 THEN fresh ELSE push(f[k - 1], k)]
           pushed == CHOOSE f : f = step(f, N)
<1>1. N \in Nat /\ \A i \in 1..N : numbers[i] \in Numbers
  BY LenProperties, ElementOfSeq
<1> HIDE DEF N
<1>2. pushed = step(pushed, N)
  <2> HIDE DEF push
  <2> DEFINE T == {n \in Nat : \E f : f = step(f, n)}
  <2>1. 0 \in T
    <3>1. PICK f : f = [k \in 0..0 |-> fresh]
      OBVIOUS
    <3>2. f = step(f, 0)
      BY <3>1
    <3> QED
      BY <3>2
  <2>2. ASSUME NEW n \in Nat, n \in T PROVE n + 1 \in T
    <3>1. PICK f : f = step(f, n)
      BY <2>2
    <3>2. PICK e : e = push(f[n], n + 1)
      OBVIOUS
    <3>3. PICK g : g = [k \in 0..(n + 1) |-> IF k = n + 1 THEN e ELSE f[k]]
      OBVIOUS
    <3>4. \A k \in 0..(n + 1) : g[k] = IF k = 0 THEN fresh ELSE push(g[k - 1], k)
      <4> TAKE k \in 0..(n + 1)
      <4>1. CASE k = n + 1
        <5>1. g[k] = e /\ k # 0 /\ k - 1 = n /\ g[n] = f[n]
          BY <3>3, <4>1
        <5> QED
          BY <3>2, <4>1, <5>1
      <4>2. CASE k # n + 1
        <5>1. k \in 0..n /\ g[k] = f[k] /\ (k # 0 => g[k - 1] = f[k - 1])
          BY <3>3, <4>2
        <5>2. f[k] = IF k = 0 THEN fresh ELSE push(f[k - 1], k)
          BY <3>1, <5>1
        <5> QED
          BY <5>1, <5>2
      <4> QED
        BY <4>1, <4>2
    <3>5. g = step(g, n + 1)
      BY <3>3, <3>4
    <3> QED
      BY <3>5
  <2>3. Nat \subseteq T
    <3> HIDE DEF T
    <3> QED
      BY <2>1, <2>2, InductiveSet
  <2>4. \E f : f = step(f, N)
    BY <1>1, <2>3
  <2> HIDE DEF step
  <2> QED
    BY <2>4
<1> HIDE DEF pushed
<1>3. pushed[0] = fresh /\ \A k \in 0..N : k # 0 => pushed[k] = push(pushed[k - 1], k)
  <2> HIDE DEF push
  <2> QED
    BY <1>1, <1>2
<1> DEFINE Sound(h, k) ==
             /\ h \in Heap
             /\ \E C : Good(h, C) /\ Ready(h, C) /\ Len(C) = k
             /\ Stored(h) = {numbers[i] : i \in 1..k}
           T == {k \in Nat : k <= N => Sound(pushed[k], k)}
<1>4. Sound(fresh, 0)
  <2>1. fresh \in Heap
    BY DEF fresh, Heap, new_queue, Blank, Pointers
  <2>2. Good(fresh, <<>>) /\ Ready(fresh, <<>>)
    BY DEF fresh, Good, Ready, Linked, At, new_queue
  <2>3. Stored(fresh) = {}
    BY DEF fresh, Stored
  <2> QED
    BY <2>1, <2>2, <2>3
<1>5. ASSUME NEW k \in Nat, NEW h, Sound(h, k), k + 1 <= N
      PROVE  Sound(push(h, k + 1), k + 1)
  <2>1. PICK C : Good(h, C) /\ Ready(h, C) /\ Len(C) = k
    BY <1>5
  <2>2. \E c \in Cells : c \notin h.used
    <3> SUFFICES ASSUME Cells \subseteq h.used PROVE FALSE
      OBVIOUS
    <3>1. h.used = {C[i] : i \in 1..k}
      BY <2>1 DEF Good
    <3>2. IsFiniteSet(1..k) /\ Cardinality(1..k) = k
      <4>1. 1 \in Int /\ k \in Int
        OBVIOUS
      <4>2. /\ IsFiniteSet(1..k)
            /\ Cardinality(1..k) = IF 1 > k THEN 0 ELSE k - 1 + 1
        BY <4>1, FS_Interval, Zenon
      <4> QED
        BY <4>2
    <3>3. k < Cardinality(Cells) /\ IsFiniteSet(Cells) /\ Cardinality(Cells) \in Nat
      BY <1>1, <1>5, QueueAssumption, FS_CardinalityType DEF N
    <3>4. PICK at : at = [c \in Cells |-> CHOOSE i \in 1..k : C[i] = c]
      OBVIOUS
    <3>5. \A c \in Cells : at[c] \in 1..k /\ C[at[c]] = c
      BY <3>1, <3>4
    <3>6. at \in [Cells -> 1..k]
      BY <3>4, <3>5
    <3>7. \E c, d \in Cells : c # d /\ at[c] = at[d]
      BY <3>2, <3>3, <3>6, FS_PigeonHole
    <3> QED
      BY <3>5, <3>7
  <2>3. PICK x : x = CHOOSE c \in Cells : c \notin h.used
    OBVIOUS
  <2>4. x \in Cells /\ x \notin h.used
    BY <2>2, <2>3
  <2>5. PICK n : n = numbers[k + 1]
    OBVIOUS
  <2>6. k + 1 \in 1..N
    BY <1>1, <1>5
  <2>7. n \in Numbers /\ n \notin Stored(h)
    <3>1. n \in Numbers /\ Stored(h) = {numbers[i] : i \in 1..k}
      BY <1>1, <1>5, <2>5, <2>6
    <3>2. \A i \in 1..k : i \in 1..N /\ i # k + 1
      BY <1>1, <2>6
    <3> QED
      BY <2>5, <2>6, <3>1, <3>2 DEF N
  <2>8. PICK p : p = Pushed(h, n, x)
    OBVIOUS
  <2>9. \E D : /\ p \in Heap /\ Good(p, D) /\ Ready(p, D) /\ Len(D) = k + 1
               /\ Stored(p) = Stored(h) \cup {n}
    BY <1>5, <2>1, <2>4, <2>7, <2>8, PushIs
  <2>10. Stored(p) = {numbers[i] : i \in 1..(k + 1)}
    BY <1>5, <2>5, <2>9
  <2>11. push(h, k + 1) = p
    BY <2>3, <2>5, <2>8
  <2> QED
    BY <2>9, <2>10, <2>11
<1>6. 0 \in T
  BY <1>3, <1>4
<1>7. ASSUME NEW k \in Nat, k \in T PROVE k + 1 \in T
  <2> SUFFICES ASSUME k + 1 <= N PROVE Sound(pushed[k + 1], k + 1)
    OBVIOUS
  <2>1. k <= N /\ k + 1 \in 0..N /\ k + 1 # 0 /\ (k + 1) - 1 = k
    BY <1>1
  <2>2. Sound(pushed[k], k)
    BY <1>7, <2>1
  <2>3. pushed[k + 1] = push(pushed[k], k + 1)
    <3> HIDE DEF push
    <3> QED
      BY <1>3, <2>1
  <2> HIDE DEF push, Sound
  <2> QED
    BY <1>5, <2>2, <2>3
<1>8. Sound(pushed[N], N)
  <2>1. Nat \subseteq T
    <3> HIDE DEF T
    <3> QED
      BY <1>6, <1>7, InductiveSet
  <2> HIDE DEF Sound
  <2> QED
    BY <1>1, <2>1
<1>9. Loaded(numbers) = pushed[N]
  BY DEF Loaded, pushed, N
<1> QED
  BY <1>8, <1>9 DEF N

-----------------------------------------------------------------------------
(* The inductive invariant: the queue is in good order, and the saved      *)
(* numbers differ and fit into the cells there are.                        *)
Inv ==
  /\ heap \in Heap
  /\ buffer \in Seq(Numbers) /\ Len(buffer) <= Cardinality(Cells)
  /\ \A i, j \in 1..Len(buffer) : buffer[i] = buffer[j] => i = j
  /\ result \in Nat \cup {-1} /\ QUETYPE \in 0..1 /\ broken \in BOOLEAN
  /\ \E C : Good(heap, C)

(* What the model reads off the memory, of a linked list C. *)
LEMMA ReadOff ==
  ASSUME NEW m, NEW p, NEW C, Linked(m, p, C), NEW L, L = ListFrom(m, p)
  PROVE  /\ L = C /\ DOMAIN C = 1..Len(C) /\ Len(C) \in Nat
         /\ \A x : x \in ToSet(Data(m, L)) <=> \E i \in 1..Len(C) : x = m[C[i]].data
<1>1. L = C
  BY ListIs
<1>2. DOMAIN C = 1..Len(C) /\ Len(C) \in Nat
  BY LenProperties DEF Linked
<1>3. Data(m, C) = [i \in 1..Len(C) |-> m[C[i]].data]
  BY <1>2 DEF Data
<1>4. \A x : x \in ToSet(Data(m, C)) <=> \E i \in 1..Len(C) : x = m[C[i]].data
  BY <1>3 DEF ToSet
<1> QED
  BY <1>1, <1>2, <1>4

LEMMA Here ==
  ASSUME Inv
  PROVE  \E C : /\ Good(heap, C) /\ heap \in Heap
                /\ List = C /\ DOMAIN List = 1..Len(C) /\ Len(C) \in Nat
                /\ q.size = Len(C) /\ used = {C[i] : i \in 1..Len(C)}
                /\ q.head = At(C, 1)
                /\ Queued = [i \in 1..Len(C) |-> mem[C[i]].data]
                /\ ToSet(Queued) = Stored(heap)
<1>1. PICK C : Good(heap, C)
  BY DEF Inv
<1>2. /\ Linked(mem, q.head, C) /\ q.size = Len(C)
      /\ used = {C[i] : i \in 1..Len(C)}
      /\ q.head = At(C, 1)
  BY <1>1 DEF Good, Linked, heap
<1>3. PICK L : L = ListFrom(mem, q.head)
  OBVIOUS
<1>4. /\ L = C /\ DOMAIN C = 1..Len(C) /\ Len(C) \in Nat
      /\ \A x : x \in ToSet(Data(mem, L)) <=> \E i \in 1..Len(C) : x = mem[C[i]].data
  BY <1>2, <1>3, ReadOff
<1>5. Data(mem, L) = [i \in 1..Len(C) |-> mem[C[i]].data]
  BY <1>4 DEF Data
<1>6. Stored(heap) = {mem[c].data : c \in used}
  BY DEF Stored, heap
<1>7. ToSet(Data(mem, L)) = Stored(heap)
  BY <1>2, <1>4, <1>6
<1>8. List = L /\ Queued = Data(mem, L)
  BY <1>3 DEF List, Queued
<1> QED
  BY <1>1, <1>2, <1>4, <1>5, <1>7, <1>8 DEF Inv

(* A step to a heap in good order. *)
LEMMA Moved ==
  ASSUME NEW h \in Heap, NEW D, Good(h, D), HeapIs(h), QUETYPE' = QUETYPE
  PROVE  /\ heap' = h /\ heap' \in Heap
         /\ (\E C : Good(heap, C))'
         /\ ToSet(Queued)' = Stored(h)
<1>1. heap' = h
  BY DEF Heap, HeapIs, heap
<1>2. (Good(heap, D))'
  BY <1>1 DEF Good, Linked, At
<1>3. Linked(mem', q'.head, D) /\ used' = {D[i] : i \in 1..Len(D)}
  BY DEF HeapIs, Good
<1>4. PICK L : L = ListFrom(mem', q'.head)
  OBVIOUS
<1>5. \A x : x \in ToSet(Data(mem', L)) <=> \E i \in 1..Len(D) : x = mem'[D[i]].data
  BY <1>3, <1>4, ReadOff
<1>6. ToSet(Queued)' = ToSet(Data(mem', L))
  BY <1>4 DEF Queued, List
<1>7. Stored(h) = {mem'[c].data : c \in used'}
  BY DEF HeapIs, Stored
<1>8. ToSet(Data(mem', L)) = Stored(h)
  BY <1>3, <1>5, <1>7
<1> QED
  BY <1>1, <1>2, <1>6, <1>8

(* A step that leaves the heap alone. *)
LEMMA Stayed ==
  ASSUME Inv, UNCHANGED <<q, mem, used, QUETYPE>>
  PROVE  /\ heap' \in Heap
         /\ (\E C : Good(heap, C))'
         /\ ToSet(Queued)' = ToSet(Queued)
<1>1. heap' = heap
  BY DEF heap
<1>2. PICK C : Good(heap, C)
  BY DEF Inv
<1>3. (Good(heap, C))'
  BY <1>1, <1>2 DEF Good, Linked, At
<1>4. ToSet(Queued)' = ToSet(Queued)
  BY DEF Queued, List, Data, ListFrom, Follow, ToSet
<1> QED
  BY <1>1, <1>3, <1>4 DEF Inv

(* The set of numbers that a step of the cells amounts to a step of. *)
Stutters == UNCHANGED <<ToSet(Queued), ToSet(buffer), result, QUETYPE = 1>>

LEMMA PushStep ==
  ASSUME Inv, NEW n \in Numbers, queue_push(n)
  PROVE  Inv' /\ (Abstract!Add(n) \/ Stutters)
<1>1. PICK C : /\ Good(heap, C) /\ heap \in Heap
               /\ q.size = Len(C) /\ used = {C[i] : i \in 1..Len(C)}
               /\ Len(C) \in Nat
               /\ ToSet(Queued) = Stored(heap)
  BY Here
<1>2. QUETYPE \in 0..1 /\ QUETYPE' = QUETYPE /\ buffer' = buffer /\ n \notin Stored(heap)
  BY <1>1 DEF Inv, queue_push
<1>3. CASE Dangling /\ broken' = TRUE /\ UNCHANGED <<q, mem, used, result>>
  <2>1. heap' \in Heap /\ (\E D : Good(heap, D))' /\ ToSet(Queued)' = ToSet(Queued)
    BY <1>2, <1>3, Stayed
  <2>2. Inv'
    BY <1>2, <1>3, <2>1 DEF Inv
  <2>3. Stutters
    BY <1>2, <1>3, <2>1 DEF Stutters
  <2> QED
    BY <2>2, <2>3
<1>4. CASE ~Dangling /\ result' = 0 /\ UNCHANGED broken /\ \E x \in Cells \ used : HeapIs(Pushed(heap, n, x))
  <2>1. PICK x \in Cells \ used : HeapIs(Pushed(heap, n, x))
    BY <1>4
  <2>2. heap.used = used /\ heap.q = q
    BY DEF heap
  <2>3. Ready(heap, C)
    BY <1>1, <1>4, <2>2 DEF Ready, Good, Dangling
  <2>4. PICK p : p = Pushed(heap, n, x)
    OBVIOUS
  <2>5. \E D : p \in Heap /\ Good(p, D) /\ Stored(p) = Stored(heap) \cup {n}
    BY <1>1, <1>2, <2>2, <2>3, <2>4, PushIs
  <2>6. PICK D : p \in Heap /\ Good(p, D) /\ Stored(p) = Stored(heap) \cup {n}
    BY <2>5
  <2>7. HeapIs(p)
    BY <2>1, <2>4
  <2>8. heap' \in Heap /\ (\E E : Good(heap, E))' /\ ToSet(Queued)' = Stored(p)
    BY <1>2, <2>6, <2>7, Moved
  <2>9. Inv'
    BY <1>2, <1>4, <2>8 DEF Inv
  <2>10. Abstract!Add(n)
    BY <1>1, <1>2, <1>4, <2>6, <2>8 DEF Abstract!Add
  <2> QED
    BY <2>9, <2>10
<1> QED
  BY <1>3, <1>4 DEF queue_push

LEMMA PopStep ==
  ASSUME Inv, queue_pop
  PROVE  Inv' /\ Abstract!Take
<1>1. PICK C : /\ Good(heap, C) /\ heap \in Heap
               /\ q.size = Len(C) /\ used = {C[i] : i \in 1..Len(C)}
               /\ Len(C) \in Nat
               /\ ToSet(Queued) = Stored(heap)
  BY Here
<1>2. QUETYPE \in 0..1 /\ QUETYPE' = QUETYPE /\ buffer' = buffer /\ broken' = broken
  BY DEF Inv, queue_pop
<1>3. heap.used = used /\ heap.q = q /\ heap.mem = mem
  BY DEF heap
<1>4. CASE q.size = 0 /\ result' = -1 /\ UNCHANGED <<q, mem, used>>
  <2>1. heap' \in Heap /\ (\E D : Good(heap, D))' /\ ToSet(Queued)' = ToSet(Queued)
    BY <1>2, <1>4, Stayed
  <2>2. Inv'
    BY <1>2, <1>4, <2>1 DEF Inv
  <2>3. Stored(heap) = {}
    BY <1>1, <1>3, <1>4 DEF Stored
  <2> QED
    BY <1>1, <1>2, <1>4, <2>1, <2>2, <2>3 DEF Abstract!Take
<1>5. CASE q.size > 0 /\ result' = mem[q.head].data /\ HeapIs(Popped(heap))
  <2>1. Len(C) # 0 /\ 1 \in 1..Len(C)
    BY <1>1, <1>5
  <2>2. PICK p : p = Popped(heap)
    OBVIOUS
  <2>3. /\ p \in Heap /\ Good(p, Del(C, 1))
        /\ q.head = C[1]
        /\ Stored(p) = Stored(heap) \ {mem[C[1]].data}
    BY <1>1, <1>2, <1>3, <2>1, <2>2, PopIs
  <2>4. PICK D : Good(p, D)
    BY <2>3
  <2>5. heap' \in Heap /\ (\E E : Good(heap, E))' /\ ToSet(Queued)' = Stored(p)
    BY <1>2, <1>5, <2>2, <2>3, <2>4, Moved
  <2>6. PICK n : n = mem[C[1]].data
    OBVIOUS
  <2>7. C[1] \in used
    BY <1>1, <2>1
  <2>8. n \in Numbers /\ n \in Stored(heap) /\ result' = n
    BY <1>1, <1>3, <1>5, <2>3, <2>6, <2>7 DEF Good, Stored
  <2>9. QUETYPE = 1 => \A m \in Stored(heap) : m <= n
    <3> HAVE QUETYPE = 1
    <3> TAKE m \in Stored(heap)
    <3>1. PICK i \in 1..Len(C) : m = mem[C[i]].data
      BY <1>1, <1>3 DEF Stored
    <3>2. C[i] \in used
      BY <1>1
    <3>3. m \in Nat /\ n \in Nat
      BY <1>1, <1>3, <2>8, <3>1, <3>2, QueueAssumption DEF Good
    <3>4. \A a, b \in 1..Len(C) : a < b => mem[C[a]].data > mem[C[b]].data
      BY <1>1, <1>3 DEF Good
    <3>5. i = 1 \/ 1 < i
      BY <1>1
    <3> QED
      BY <2>1, <2>6, <3>1, <3>3, <3>4, <3>5
  <2>10. Inv'
    BY <1>2, <2>5, <2>8, QueueAssumption DEF Inv
  <2>11. Abstract!Take
    BY <1>1, <1>2, <2>3, <2>5, <2>6, <2>8, <2>9 DEF Abstract!Take
  <2> QED
    BY <2>10, <2>11
<1> QED
  BY <1>4, <1>5 DEF queue_pop

LEMMA RemoveStep ==
  ASSUME Inv, NEW n \in Numbers, queue_remove(n)
  PROVE  Inv' /\ Abstract!Withdraw(n)
<1>1. PICK C : /\ Good(heap, C) /\ heap \in Heap
               /\ List = C /\ DOMAIN List = 1..Len(C)
               /\ Queued = [i \in 1..Len(C) |-> mem[C[i]].data]
               /\ used = {C[i] : i \in 1..Len(C)}
               /\ Len(C) \in Nat
               /\ ToSet(Queued) = Stored(heap)
  BY Here
<1>2. QUETYPE \in 0..1 /\ QUETYPE' = QUETYPE /\ buffer' = buffer /\ broken' = broken
  BY DEF Inv, queue_remove
<1>3. heap.used = used /\ heap.q = q /\ heap.mem = mem
  BY DEF heap
<1>4. CASE n \notin ToSet(Queued) /\ result' = -1 /\ UNCHANGED <<q, mem, used>>
  <2>1. heap' \in Heap /\ (\E D : Good(heap, D))' /\ ToSet(Queued)' = ToSet(Queued)
    BY <1>2, <1>4, Stayed
  <2>2. Inv'
    BY <1>2, <1>4, <2>1 DEF Inv
  <2>3. Abstract!Withdraw(n)
    BY <1>2, <1>4, <2>1 DEF Abstract!Withdraw
  <2> QED
    BY <2>2, <2>3
<1>5. ASSUME NEW i \in DOMAIN List, Queued[i] = n, result' = 0,
             HeapIs(IF i = 1 THEN Popped(heap) ELSE Unlinked(heap, List[i - 1], List[i]))
      PROVE  Inv' /\ Abstract!Withdraw(n)
  <2>1. PICK p : p = IF i = 1 THEN Popped(heap) ELSE Unlinked(heap, C[i - 1], C[i])
    OBVIOUS
  <2>2. HeapIs(p) /\ i \in 1..Len(C) /\ mem[C[i]].data = n
    BY <1>1, <1>5, <2>1
  <2>3. p \in Heap /\ (\E D : Good(p, D)) /\ Stored(p) = Stored(heap) \ {n}
    <3>1. CASE i = 1
      <4>1. Len(C) # 0
        BY <1>1, <2>2
      <4>2. /\ Popped(heap) \in Heap /\ Good(Popped(heap), Del(C, 1))
            /\ Stored(Popped(heap)) = Stored(heap) \ {mem[C[1]].data}
        BY <1>1, <1>2, <1>3, <4>1, PopIs
      <4> QED
        BY <2>1, <2>2, <3>1, <4>2
    <3>2. CASE i # 1
      <4>1. i \in 2..Len(C)
        BY <1>1, <2>2, <3>2
      <4>2. PICK k \in 2..Len(C) : k = i
        BY <4>1
      <4>3. p = Unlinked(heap, C[k - 1], C[k])
        BY <2>1, <3>2, <4>2
      <4>4. /\ p \in Heap /\ Good(p, Del(C, k))
            /\ Stored(p) = Stored(heap) \ {heap.mem[C[k]].data}
        BY <1>1, <1>2, <4>3, UnlinkIs
      <4> QED
        BY <1>3, <2>2, <4>2, <4>4
    <3> QED
      BY <3>1, <3>2
  <2>4. PICK D : Good(p, D)
    BY <2>3
  <2>5. heap' \in Heap /\ (\E E : Good(heap, E))' /\ ToSet(Queued)' = Stored(p)
    BY <1>2, <2>2, <2>3, <2>4, Moved
  <2>6. n \in Stored(heap)
    <3>1. C[i] \in used
      BY <1>1, <2>2
    <3> QED
      BY <1>3, <2>2, <3>1 DEF Stored
  <2>7. Inv'
    BY <1>2, <1>5, <2>5 DEF Inv
  <2>8. Abstract!Withdraw(n)
    BY <1>1, <1>2, <1>5, <2>3, <2>5, <2>6 DEF Abstract!Withdraw
  <2> QED
    BY <2>7, <2>8
<1> QED
  BY <1>4, <1>5 DEF queue_remove

(* A sequence without repetitions has as many elements as places.          *)
LEMMA CountedOnce ==
  ASSUME NEW T \in Seq(Numbers), \A i, j \in 1..Len(T) : T[i] = T[j] => i = j
  PROVE  Cardinality(ToSet(T)) = Len(T)
<1>1. DOMAIN T = 1..Len(T) /\ Len(T) \in Nat
  BY LenProperties
<1>2. T \in [1..Len(T) -> ToSet(T)]
  <2>1. T = [i \in 1..Len(T) |-> T[i]]
    BY <1>1, SeqDef
  <2>2. \A i \in 1..Len(T) : T[i] \in ToSet(T)
    BY <1>1 DEF ToSet
  <2> QED
    BY <2>1, <2>2
<1>3. \A x \in ToSet(T) : \E i \in 1..Len(T) : T[i] = x
  BY <1>1 DEF ToSet
<1>4. T \in Bijection(1..Len(T), ToSet(T))
  BY <1>1, <1>2, <1>3 DEF Bijection, Injection, Surjection, IsInjective
<1>5. ExistsBijection(1..Len(T), ToSet(T))
  BY <1>4 DEF ExistsBijection
<1> QED
  BY <1>1, <1>5, FS_CountingElements

(* The set counts with its own copy of Cardinality.                        *)
LEMMA SameSize ==
  ASSUME NEW S
  PROVE  Abstract!Cardinality(S) = Cardinality(S)
BY DEF Cardinality, Abstract!Cardinality

LEMMA SaveStep ==
  ASSUME Inv, queue_save
  PROVE  Inv' /\ Abstract!Save
<1>1. PICK C : /\ Good(heap, C)
               /\ q.size = Len(C) /\ used = {C[i] : i \in 1..Len(C)}
               /\ Len(C) \in Nat
               /\ Queued = [i \in 1..Len(C) |-> mem[C[i]].data]
               /\ ToSet(Queued) = Stored(heap)
  BY Here
<1>2. /\ buffer' = SubSeq(Queued, 1, Len(C)) /\ result' = Len(C)
      /\ UNCHANGED <<q, mem, used, QUETYPE, broken>>
  BY <1>1 DEF queue_save
<1>3. heap.used = used /\ heap.mem = mem
  BY DEF heap
<1>4. \A i \in 1..Len(C) : C[i] \in used /\ mem[C[i]].data \in Numbers
  BY <1>1, <1>3 DEF Good
<1>5. Queued \in Seq(Numbers) /\ Len(Queued) = Len(C)
  <2>1. Queued \in [1..Len(C) -> Numbers]
    BY <1>1, <1>4
  <2> QED
    BY <1>1, <2>1, IsASeq
<1>6. buffer' = Queued
  BY <1>2, <1>5, SubSeqFull
<1>7. C \in Seq(Cells) /\ \A i, j \in 1..Len(C) : C[i] = C[j] => i = j
  BY <1>1 DEF Good, Linked
<1>8. \A i, j \in 1..Len(C) : Queued[i] = Queued[j] => i = j
  <2>1. \A c, d \in used : mem[c].data = mem[d].data => c = d
    BY <1>1, <1>3 DEF Good
  <2> QED
    BY <1>1, <1>4, <1>7, <2>1
<1>9. Len(C) <= Cardinality(Cells)
  BY <1>7, Short
<1>10. heap' \in Heap /\ (\E D : Good(heap, D))' /\ ToSet(Queued)' = ToSet(Queued)
  BY <1>2, Stayed
<1>11. Inv'
  BY <1>2, <1>5, <1>6, <1>8, <1>9, <1>10 DEF Inv
<1>12. Cardinality(ToSet(Queued)) = Len(C)
  BY <1>5, <1>8, CountedOnce
<1>13. Abstract!Save
  BY <1>2, <1>6, <1>10, <1>12, SameSize DEF Abstract!Save
<1> QED
  BY <1>11, <1>13

LEMMA LoadStep ==
  ASSUME Inv, queue_load
  PROVE  Inv' /\ Abstract!Load
<1>1. PICK h : h = Loaded(buffer)
  OBVIOUS
<1>2. h \in Heap /\ (\E C : Good(h, C)) /\ Stored(h) = {buffer[i] : i \in 1..Len(buffer)}
  BY <1>1, LoadIs DEF Inv
<1>3. PICK C : Good(h, C)
  BY <1>2
<1>4. HeapIs(h) /\ result' = Len(buffer) /\ UNCHANGED <<buffer, QUETYPE, broken>>
  BY <1>1 DEF queue_load
<1>5. heap' \in Heap /\ (\E D : Good(heap, D))' /\ ToSet(Queued)' = Stored(h)
  BY <1>2, <1>3, <1>4, Moved
<1>6. ToSet(buffer) = Stored(h)
  <2>1. DOMAIN buffer = 1..Len(buffer)
    BY LenProperties DEF Inv
  <2> QED
    BY <1>2, <2>1 DEF ToSet
<1>7. Inv'
  <2>1. Len(buffer) \in Nat
    BY LenProperties DEF Inv
  <2> QED
    BY <1>4, <1>5, <2>1 DEF Inv
<1>8. Abstract!Load
  <2>1. Cardinality(ToSet(buffer)) = Len(buffer)
    BY CountedOnce DEF Inv
  <2> QED
    BY <1>4, <1>5, <1>6, <2>1, SameSize DEF Abstract!Load
<1> QED
  BY <1>7, <1>8

LEMMA StartsEmpty ==
  ASSUME Init
  PROVE  Inv /\ Abstract!Init
<1>1. heap \in Heap
  BY DEF Init, heap, Heap, new_queue, Blank, Pointers
<1>2. Good(heap, <<>>)
  BY DEF Init, heap, Good, Linked, At, new_queue
<1>3. Cardinality(Cells) \in Nat
  BY QueueAssumption, FS_CardinalityType
<1>4. Inv
  <2>1. /\ buffer \in Seq(Numbers) /\ Len(buffer) = 0
        /\ result = 0 /\ QUETYPE \in 0..1 /\ broken = FALSE
    BY DEF Init
  <2>2. \A i, j \in 1..Len(buffer) : buffer[i] = buffer[j] => i = j
    BY <2>1
  <2>3. Len(buffer) <= Cardinality(Cells)
    BY <1>3, <2>1
  <2>4. \E C : Good(heap, C)
    BY <1>2
  <2> QED
    BY <1>1, <2>1, <2>2, <2>3, <2>4, Zenon DEF Inv
<1>5. Stored(heap) = {}
  BY DEF Init, heap, Stored
<1>6. ToSet(Queued) = {}
  BY <1>4, <1>5, Here
<1> QED
  BY <1>4, <1>6 DEF Init, Abstract!Init, ToSet

LEMMA EachStep ==
  ASSUME Inv, [Next]_vars
  PROVE  Inv' /\ [Abstract!Next]_(Abstract!vars)
<1>1. CASE queue_pop
  BY <1>1, PopStep DEF Abstract!Next
<1>2. CASE queue_save
  BY <1>2, SaveStep DEF Abstract!Next
<1>3. CASE queue_load
  BY <1>3, LoadStep DEF Abstract!Next
<1>4. ASSUME NEW n \in Numbers, queue_push(n) PROVE Inv' /\ [Abstract!Next]_(Abstract!vars)
  BY <1>4, PushStep DEF Abstract!Next, Abstract!vars, Stutters
<1>5. ASSUME NEW n \in Numbers, queue_remove(n) PROVE Inv' /\ [Abstract!Next]_(Abstract!vars)
  BY <1>5, RemoveStep DEF Abstract!Next
<1>6. CASE UNCHANGED vars
  <2>1. heap' \in Heap /\ (\E D : Good(heap, D))' /\ ToSet(Queued)' = ToSet(Queued)
    BY <1>6, Stayed DEF vars
  <2> QED
    BY <1>6, <2>1 DEF vars, Inv, Abstract!vars
<1> QED
  BY <1>1, <1>2, <1>3, <1>4, <1>5, <1>6 DEF Next

LEMMA InvAlways == Spec => []Inv
<1>1. Init => Inv
  BY StartsEmpty
<1>2. Inv /\ [Next]_vars => Inv'
  BY EachStep
<1> QED
  BY <1>1, <1>2, PTL DEF Spec

-----------------------------------------------------------------------------
(* Every field keeps its type, and a cell's number stays a block number.   *)
THEOREM QueueTypes == Spec => []TypeOK
<1>1. Inv => TypeOK
  <2> SUFFICES ASSUME Inv PROVE TypeOK
    OBVIOUS
  <2>1. heap \in Heap /\ heap = [q |-> q, mem |-> mem, used |-> used]
    BY DEF Inv, heap
  <2>2. /\ q \in [size : Nat, head : Pointers, tail : Pointers]
        /\ mem \in [Cells -> [data : Numbers \cup {0}, next : Pointers]]
        /\ used \in SUBSET Cells
    BY <2>1 DEF Heap
  <2> QED
    BY <2>2 DEF Inv, TypeOK
<1> QED
  BY <1>1, InvAlways, PTL

(* The linked list has exactly size cells, none twice, and they are the    *)
(* allocated ones: nothing leaks, nothing dangles, whatever the calls.     *)
THEOREM ListsStayWellFormed == Spec => []WellFormed
<1>1. Inv => WellFormed
  <2> SUFFICES ASSUME Inv PROVE WellFormed
    OBVIOUS
  <2>1. PICK C : /\ Good(heap, C)
                 /\ List = C /\ DOMAIN List = 1..Len(C) /\ Len(C) \in Nat
                 /\ q.size = Len(C) /\ used = {C[i] : i \in 1..Len(C)}
    BY Here
  <2>2. IsInjective(List)
    BY <2>1 DEF IsInjective, Good, Linked
  <2>3. ToSet(List) = used
    BY <2>1 DEF ToSet
  <2>4. QUETYPE = 0 /\ q.size > 0 => Dangling \/ q.tail = Last(List)
    BY <2>1 DEF Dangling, Last, Good, heap
  <2> QED
    BY <2>1, <2>2, <2>3, <2>4 DEF WellFormed
<1> QED
  BY <1>1, InvAlways, PTL

(* The list of queue_desc.c is descending: the block handed out next is    *)
(* the largest freed one.                                                  *)
THEOREM QueueStaysDescending == Spec => []StrictlyDescending
<1>1. Inv => StrictlyDescending
  <2> SUFFICES ASSUME Inv PROVE StrictlyDescending
    OBVIOUS
  <2>1. PICK C : /\ Good(heap, C) /\ Len(C) \in Nat
                 /\ Queued = [i \in 1..Len(C) |-> mem[C[i]].data]
    BY Here
  <2>2. QUETYPE = 1 => \A i, j \in 1..Len(C) : i < j => mem[C[i]].data > mem[C[j]].data
    BY <2>1 DEF Good, heap
  <2> QED
    BY <2>1, <2>2 DEF StrictlyDescending
<1> QED
  BY <1>1, InvAlways, PTL

(* Both files' lists of cells implement a set of numbers: each push, pop,  *)
(* remove, save and load is that step of FreeSet, until the push of        *)
(* queue.c that writes through a freed tail.                               *)
THEOREM QueueIsASet == Spec => ImplementsFreeSet
<1>1. Init => Abstract!Init
  BY StartsEmpty
<1>2. Inv /\ [Next]_vars => [Abstract!Next]_(Abstract!vars)
  BY EachStep
<1> QED
  BY <1>1, <1>2, InvAlways, PTL DEF Spec, ImplementsFreeSet, Abstract!Spec
=============================================================================
