----------------------------- MODULE FatProofs -----------------------------
(***************************************************************************)
(* Theorems about the file allocation table, for one thread and any number *)
(* of files and blocks.  The invariant gives every block in use to one     *)
(* user: a file, the table itself, the superblock and the root directory,  *)
(* or the operation that is under way, which holds the chain it builds     *)
(* (New, and Pend for a block not linked yet) or takes apart (Rest).       *)
(***************************************************************************)
EXTENDS Fat, TLAPS, WellFoundedInduction, FiniteSetTheorems, SequenceTheorems

(* Every set of natural numbers that is not empty has a least element.     *)
LEMMA LeastNumber ==
  ASSUME NEW S, S \subseteq Nat, S # {}
  PROVE  \E m \in S : \A x \in S : m <= x
<1>1. IsWellFoundedOn(OpToRel(<, Nat), Nat)
  BY NatLessThanWellFounded
<1>2. PICK m \in S : \A x \in S : ~(<<x, m>> \in OpToRel(<, Nat))
  BY <1>1, WFMin
<1>3. \A x \in S : ~(x < m)
  <2> TAKE x \in S
  <2>1. x \in Nat /\ m \in Nat
    OBVIOUS
  <2>2. x < m => <<x, m>> \in OpToRel(<, Nat)
    BY <2>1, Zenon DEF OpToRel
  <2> QED
    BY <1>2, <2>2
<1> QED
  BY <1>3

(* A set of natural numbers below a bound has a greatest element, unless   *)
(* it is empty.                                                            *)
LEMMA GreatestNumber ==
  ASSUME NEW n \in Nat, NEW S, S \subseteq 0..n, S # {}
  PROVE  \E m \in S : \A x \in S : x <= m
<1> DEFINE R == {n - x : x \in S}
<1>0. PICK x0 \in S : TRUE
  OBVIOUS
<1>1. R \subseteq Nat /\ n - x0 \in R
  BY <1>0
<1>2. PICK r \in R : \A y \in R : r <= y
  BY <1>1, LeastNumber
<1>3. PICK m \in S : r = n - m
  OBVIOUS
<1>4. \A x \in S : n - m <= n - x
  BY <1>2, <1>3
<1> QED
  BY <1>4

(* Induction without an operator parameter: a set of natural numbers that  *)
(* has 0, and the successor of each of its numbers, has them all.          *)
LEMMA InductiveSet ==
  ASSUME NEW S, 0 \in S, \A i \in Nat : i \in S => i + 1 \in S
  PROVE  Nat \subseteq S
<1> DEFINE T == Nat \ S
<1>1. SUFFICES ASSUME T # {} PROVE FALSE
  OBVIOUS
<1>2. PICK m \in T : \A x \in T : m <= x
  BY <1>1, LeastNumber
<1>3. m # 0 /\ m - 1 \in Nat /\ m - 1 \notin T
  BY <1>2
<1> QED
  BY <1>3

-----------------------------------------------------------------------------
File(f) == [kind |-> "file", file |-> f]
Other(kind) == [kind |-> kind, file |-> "none"]
Table == Other("table")
New == Other("new")
Pend == Other("pend")
Rest == Other("rest")
Fixed == Other("fixed")
Users == {File(f) : f \in Files} \cup {Table, New, Pend, Rest, Fixed}

(* Every block in use belongs to one user, at one place of its chain. *)
Own(C, live) ==
  /\ C \in [Users -> Seq(live)]
  /\ \A g, h \in Users : \A i \in 1..Len(C[g]), j \in 1..Len(C[h]) :
       C[g][i] = C[h][j] => g = h /\ i = j
  /\ \A b \in live : \E h \in Users : \E i \in 1..Len(C[h]) : C[h][i] = b

(* The table leads from each block of a chain to the next; it ends there. *)
Links(table, s) ==
  \A i \in 1..(Len(s) - 1) : s[i] \in DOMAIN table /\ table[s[i]] = s[i + 1]
Ends(table, s) ==
  s # <<>> => s[Len(s)] \in DOMAIN table /\ table[s[Len(s)]] \in {FAT_NULL, Cut}
Whole(table, s) == Links(table, s) /\ Ends(table, s)

First(s) == IF s = <<>> THEN FAT_NULL ELSE s[1]
Final(s) == IF s = <<>> THEN FAT_NULL ELSE s[Len(s)]

Entries == [start : Blocks, blocks : -1..MaxFile]
Locals ==
  [op : {"none", "truncate", "unlink"}, file : Files \cup {"none"}, de : Entries,
   want : 0..MaxFile, todo : 0..MaxFile,
   start : Blocks, last : Blocks, new : Blocks, cur : Blocks \cup {Cut}]
Steps == {"idle", "alloc", "advance", "place", "attach", "free", "save"}

Types ==
  /\ sb \in [free_blocks : Int, fat_size : Nat, fat_start : Blocks, fat_end : Blocks]
  /\ fat \in [0..(sb.fat_size - 1) -> Blocks \cup {Cut}]
  /\ next_alloc \in 0..MaxBlocks
  /\ freed \subseteq Blocks
  /\ entry \in [Files -> Entries]
  /\ pc \in [Threads -> Steps]
  /\ reg \in [Threads -> Locals]

(* The entry a file has once the operation under way has saved it. *)
Coming(t, f) ==
  IF pc[t] \in {"free", "save"} /\ reg[t].file = f
  THEN IF reg[t].op = "truncate"
       THEN [start |-> reg[t].de.start, blocks |-> reg[t].want] ELSE NoEntry
  ELSE entry[f]
Matches(s, e) ==
  e.start = First(s) /\ Len(s) = IF e.blocks = -1 THEN 0 ELSE e.blocks

(* The table's own blocks: its entry in the table lies in a part before it. *)
TableShape(T) ==
  /\ T # <<>> /\ T[1] = sb.fat_start /\ T[Len(T)] = sb.fat_end
  /\ sb.fat_size = FAT_PER_BLOCK * Len(T)
  /\ \A k \in 1..Len(T) : T[k] < k * FAT_PER_BLOCK

(* The allocator, and how far it may be ahead of the table. *)
Allocator(t, N) ==
  LET out == N # <<>> /\ N[1] >= sb.fat_size
      placing == pc[t] = "place" /\ reg[t].new >= sb.fat_size
  IN /\ \A b \in freed : b < next_alloc /\ b < sb.fat_size
     /\ next_alloc - 1 \notin freed
     /\ out => Len(N) = 1 /\ freed = {} /\ (pc[t] = "place" => reg[t].new > N[1])
     /\ placing => freed = {}
     /\ next_alloc <= sb.fat_size + (IF out THEN 1 ELSE 0) + (IF placing THEN 1 ELSE 0)

(* Where the thread is, and the chains it holds there. *)
Allocating(t, N) ==
  LET r == reg[t]
  IN /\ r.op = "truncate" /\ r.file \in Files
     /\ r.de = entry[r.file] /\ r.de.blocks # -1
     /\ r.want > r.de.blocks /\ r.want - r.de.blocks = Len(N) + r.todo
     /\ r.start = First(N) /\ r.last = Final(N)
     /\ Links(fat, N)
     /\ Final(N) \notin DOMAIN fat => Len(N) = 1
     /\ pc[t] \in {"advance", "place"} => r.todo > 0
     /\ pc[t] = "advance" => r.new = next_alloc /\ freed = {} /\ next_alloc < MaxBlocks
     /\ pc[t] = "attach" => N # <<>> /\ r.todo = 0 /\ Ends(fat, N)

Freeing(t, R) ==
  LET r == reg[t]
  IN /\ r.op \in {"truncate", "unlink"} /\ r.file \in Files
     /\ r.op = "truncate" =>
          /\ entry[r.file].blocks # -1
          /\ \/ r.de.start = entry[r.file].start
             \/ r.de.start = FAT_NULL
             \/ entry[r.file].start = FAT_NULL
     /\ pc[t] = "free" => IF R = <<>> THEN r.cur \in {FAT_NULL, Cut} ELSE r.cur = R[1]

AtWork(t, C) ==
  /\ pc[t] \in {"alloc", "advance", "place", "attach"} => Allocating(t, C[New])
  /\ pc[t] \in {"free", "save"} => Freeing(t, C[Rest])
  /\ pc[t] \notin {"alloc", "advance", "place", "attach"} => C[New] = <<>>
  /\ C[Pend] = IF pc[t] = "place" THEN <<reg[t].new>> ELSE <<>>
  /\ pc[t] # "free" => C[Rest] = <<>>

FileChains(t, C) ==
  \A f \in Files : Whole(fat, C[File(f)]) /\ Matches(C[File(f)], Coming(t, f))

SystemChains(C) ==
  /\ C[Fixed] = <<0, Root>>
  /\ Whole(fat, C[Table]) /\ TableShape(C[Table])
  /\ Whole(fat, C[Rest])

Counted(t, C) ==
  sb.free_blocks = sb.fat_size - Cardinality(Live)
                   + IF pc[t] = "attach" THEN 0 ELSE Len(C[New]) + Len(C[Pend])

(* The table is on disk, except in the middle of alloc_blocks and          *)
(* free_blocks.                                                            *)
Written(t) ==
  pc[t] \in {"idle", "attach", "save"} => stored = [part |-> write_fat(fat, sb), sb |-> sb]

Shape(t, C) ==
  /\ Own(C, Live)
  /\ FileChains(t, C)
  /\ SystemChains(C)
  /\ Allocator(t, C[New])
  /\ AtWork(t, C)
  /\ Counted(t, C)
  /\ Written(t)

Inv(t) ==
  /\ Types
  /\ fault \in {"none", "overrun", "wild"}
  /\ OverrunByLoneBlock
  /\ fault = "none" => \E C : Shape(t, C)

-----------------------------------------------------------------------------
(* Users are told apart by their kind, files by their name too. *)
LEMMA UsersAre ==
  /\ \A f \in Files : File(f) \in Users
  /\ {Table, New, Pend, Rest, Fixed} \subseteq Users
  /\ \A f, g : File(f) = File(g) => f = g
  /\ \A f : File(f) \notin {Table, New, Pend, Rest, Fixed}
  /\ Table \notin {New, Pend, Rest, Fixed}
  /\ New \notin {Pend, Rest, Fixed}
  /\ Pend \notin {Rest, Fixed}
  /\ Rest # Fixed
  /\ \A h \in Users : h \in {Table, New, Pend, Rest, Fixed} \/ \E f \in Files : h = File(f)
<1>1. \A f : File(f).kind = "file" /\ File(f).file = f
  BY DEF File
<1>2. /\ Table.kind = "table" /\ New.kind = "new" /\ Pend.kind = "pend"
      /\ Rest.kind = "rest" /\ Fixed.kind = "fixed"
  BY DEF Table, New, Pend, Rest, Fixed, Other
<1> QED
  BY <1>1, <1>2 DEF Users

(* A list of blocks without repetition is no longer than there are blocks. *)
LEMMA Short ==
  ASSUME NEW s \in Seq(Blocks), \A i, j \in 1..Len(s) : s[i] = s[j] => i = j
  PROVE  Len(s) <= MaxBlocks
<1>1. Len(s) \in Nat /\ s \in [1..Len(s) -> Blocks]
  BY LenProperties
<1>2. IsFiniteSet(1..Len(s)) /\ Cardinality(1..Len(s)) = Len(s)
  <2>1. 1 \in Int /\ Len(s) \in Int
    BY <1>1
  <2>2. /\ IsFiniteSet(1..Len(s))
        /\ Cardinality(1..Len(s)) = IF 1 > Len(s) THEN 0 ELSE Len(s) - 1 + 1
    BY <2>1, FS_Interval, Zenon
  <2> QED
    BY <1>1, <2>2
<1>3. IsFiniteSet(Blocks) /\ Cardinality(Blocks) = MaxBlocks
  BY FatAssumption, FS_Interval DEF Blocks
<1> SUFFICES ASSUME ~(Len(s) <= MaxBlocks) PROVE FALSE
  OBVIOUS
<1>4. Cardinality(Blocks) < Cardinality(1..Len(s))
  BY <1>1, <1>2, <1>3, FatAssumption
<1>5. \E x, y \in 1..Len(s) : x # y /\ s[x] = s[y]
  <2> HIDE DEF Blocks
  <2> QED
    BY <1>1, <1>2, <1>3, <1>4, FS_PigeonHole
<1> QED
  BY <1>5

(* Walking the table along a chain finds that chain. *)
LEMMA ChainIs ==
  ASSUME NEW table, NEW size \in Nat, table \in [0..(size - 1) -> Blocks \cup {Cut}],
         NEW s \in Seq(Blocks), Whole(table, s),
         \A i \in 1..Len(s) : s[i] # FAT_NULL,
         \A i, j \in 1..Len(s) : s[i] = s[j] => i = j
  PROVE  ChainIn(table, First(s)) = s
<1> DEFINE p == First(s)
           n == Len(s)
           next == [b \in Blocks \cup {Cut} |->
                      IF b \in DOMAIN table \ {FAT_NULL} THEN table[b] ELSE FAT_NULL]
           step(q) == [k \in 0..MaxBlocks |-> IF k = 0 THEN p ELSE next[q[k - 1]]]
           node == CHOOSE q : q = step(q)
           end == IF n = 0 THEN FAT_NULL ELSE table[s[n]]
           w == [k \in 0..MaxBlocks |->
                   IF k < n THEN s[k + 1] ELSE IF k = n THEN end ELSE FAT_NULL]
           alive == {k \in 0..MaxBlocks : node[k] \notin {FAT_NULL, Cut}}
<1>1. n \in Nat /\ n <= MaxBlocks /\ MaxBlocks \in Nat
  BY Short, FatAssumption, LenProperties
<1>2. \A i \in 1..n : s[i] \in Blocks /\ s[i] # FAT_NULL /\ s[i] # Cut
  <2>1. \A i \in 1..n : s[i] \in Blocks
    BY ElementOfSeq
  <2>2. Cut \notin Blocks
    BY FatAssumption DEF Blocks, Cut
  <2> QED
    BY <2>1, <2>2
<1>3. end \in {FAT_NULL, Cut} /\ (n # 0 => s[n] \in DOMAIN table /\ end = table[s[n]])
  BY <1>1 DEF Whole, Ends
<1>4. \A i \in 1..(n - 1) : s[i] \in DOMAIN table /\ table[s[i]] = s[i + 1]
  BY DEF Whole, Links
<1>5. FAT_NULL \in Blocks /\ next[FAT_NULL] = FAT_NULL /\ next[Cut] = FAT_NULL
  BY FatAssumption DEF Blocks, FAT_NULL, Cut
<1>6. n = 0 <=> s = <<>>
  BY EmptySeq
<1>7. w = step(w)
  <2>1. ASSUME NEW k \in 0..MaxBlocks PROVE w[k] = step(w)[k]
    <3>1. CASE k = 0
      BY <3>1, <1>1, <1>6 DEF First
    <3>2. CASE k # 0 /\ k <= n
      <4>1. k - 1 \in 0..MaxBlocks /\ k - 1 < n /\ k \in 1..n /\ (k - 1) + 1 = k
        BY <1>1, <3>2
      <4>2. w[k - 1] = s[k]
        BY <4>1
      <4>3. s[k] \in DOMAIN table \ {FAT_NULL} /\ s[k] \in Blocks
        BY <1>1, <1>2, <1>3, <1>4, <4>1
      <4>4. next[s[k]] = table[s[k]]
        BY <4>3
      <4>5. table[s[k]] = w[k]
        BY <1>1, <1>3, <1>4, <3>2, <4>1
      <4> HIDE DEF w, next
      <4> QED
        BY <3>2, <4>2, <4>4, <4>5
    <3>3. CASE k = n + 1
      <4>1. k - 1 = n /\ n \in 0..MaxBlocks /\ k # 0
        BY <1>1, <3>3
      <4>2. w[n] = end /\ w[k] = FAT_NULL
        <5>1. ~(n < n) /\ ~(k < n) /\ k # n
          BY <1>1, <3>3
        <5> HIDE DEF end
        <5> QED
          BY <4>1, <5>1
      <4> HIDE DEF w, next, end
      <4> QED
        BY <1>3, <1>5, <4>1, <4>2
    <3>4. CASE k > n + 1
      <4>1. k - 1 \in 0..MaxBlocks /\ k - 1 > n /\ k # 0
        BY <1>1, <3>4
      <4>2. w[k - 1] = FAT_NULL /\ w[k] = FAT_NULL
        BY <1>1, <3>4, <4>1
      <4> HIDE DEF w, next, end
      <4> QED
        BY <1>5, <4>1, <4>2
    <3> QED
      BY <1>1, <3>1, <3>2, <3>3, <3>4, SMTT(30)
  <2> QED
    BY <2>1
<1>8. node = step(node)
  <2> HIDE DEF w, step
  <2> QED
    BY <1>7
<1>9. \A k \in Nat : k <= MaxBlocks => node[k] = w[k]
  <2> HIDE DEF node, next, p, end
  <2> DEFINE T == {k \in Nat : k <= MaxBlocks => node[k] = w[k]}
  <2>1. 0 \in T
    <3>1. node[0] = p /\ w[0] = p
      <4> HIDE DEF w
      <4> QED
        BY <1>1, <1>7, <1>8
    <3> QED
      BY <3>1
  <2>2. ASSUME NEW k \in Nat, k \in T PROVE k + 1 \in T
    <3> SUFFICES ASSUME k + 1 <= MaxBlocks PROVE node[k + 1] = w[k + 1]
      OBVIOUS
    <3>1. k + 1 \in 0..MaxBlocks /\ k + 1 # 0 /\ (k + 1) - 1 = k
      BY <1>1
    <3>2. node[k + 1] = next[node[k]]
      BY <1>8, <3>1
    <3>3. w[k + 1] = next[w[k]]
      <4> HIDE DEF w
      <4> QED
        BY <1>7, <3>1
    <3> QED
      BY <1>1, <2>2, <3>2, <3>3
  <2>3. Nat \subseteq T
    <3> HIDE DEF T
    <3> QED
      BY <2>1, <2>2, InductiveSet
  <2> QED
    BY <2>3
<1>10. alive = 0..(n - 1)
  <2>1. ASSUME NEW k \in 0..MaxBlocks PROVE k \in alive <=> k < n
    <3>1. node[k] = w[k]
      <4> HIDE DEF node, w
      <4> QED
        BY <1>1, <1>9
    <3>2. CASE k < n
      <4>1. k + 1 \in 1..n
        BY <1>1, <3>2
      <4>2. node[k] = s[k + 1]
        BY <3>1, <3>2
      <4> QED
        BY <1>2, <3>2, <4>1, <4>2
    <3>3. CASE ~(k < n)
      <4>1. node[k] \in {FAT_NULL, Cut}
        <5> HIDE DEF node, end
        <5> QED
          BY <1>1, <1>3, <3>1, <3>3
      <4> QED
        BY <3>3, <4>1
    <3> QED
      BY <3>2, <3>3
  <2> QED
    <3> HIDE DEF node
    <3> QED
      BY <1>1, <2>1
<1>11. Cardinality(alive) = n
  <2> HIDE DEF alive
  <2>1. Cardinality(0..(n - 1)) = n
    <3>1. 0 \in Int /\ n - 1 \in Int
      BY <1>1
    <3>2. Cardinality(0..(n - 1)) = IF 0 > n - 1 THEN 0 ELSE (n - 1) - 0 + 1
      BY <3>1, FS_Interval, Zenon
    <3> QED
      BY <1>1, <3>2
  <2> QED
    BY <1>10, <2>1
<1>12. [k \in 1..n |-> node[k - 1]] = s
  <2>1. \A k \in 1..n : node[k - 1] = s[k]
    <3> TAKE k \in 1..n
    <3>1. k - 1 \in Nat /\ k - 1 <= MaxBlocks /\ k - 1 < n /\ (k - 1) + 1 = k
      BY <1>1
    <3>2. w[k - 1] = s[k]
      BY <1>1, <3>1
    <3> HIDE DEF node, w
    <3> QED
      BY <1>1, <1>9, <3>1, <3>2
  <2> QED
    BY <2>1, LenProperties
<1> QED
  BY <1>11, <1>12 DEF ChainIn, alive, node, step, next

-----------------------------------------------------------------------------
(* How chains change: a block is added at the end of one, one is put       *)
(* behind another, one is cut in two, one loses its first block.           *)
Added(C, h, b) == [C EXCEPT ![h] = Append(C[h], b)]
Joined(C, g, h) == [C EXCEPT ![g] = C[g] \o C[h], ![h] = <<>>]
Divided(C, g, h, n) ==
  [C EXCEPT ![g] = SubSeq(C[g], 1, n), ![h] = SubSeq(C[g], n + 1, Len(C[g]))]
Popped(C, h) == [C EXCEPT ![h] = Tail(C[h])]

LEMMA AddedIs ==
  ASSUME NEW C, DOMAIN C = Users, NEW h \in Users, NEW b, NEW D, D = Added(C, h, b)
  PROVE  /\ D[h] = Append(C[h], b)
         /\ \A x \in Users : x # h => D[x] = C[x]
BY DEF Added

(* What Own says, in pieces. *)
LEMMA OwnFacts ==
  ASSUME NEW C, NEW live, Own(C, live)
  PROVE  /\ \A h \in Users : C[h] \in Seq(live) /\ Len(C[h]) \in Nat
         /\ \A h \in Users : \A i \in 1..Len(C[h]) : C[h][i] \in live
         /\ \A h \in Users : C[h] = <<>> <=> Len(C[h]) = 0
         /\ \A g, h \in Users : \A i \in 1..Len(C[g]), j \in 1..Len(C[h]) :
              C[g][i] = C[h][j] => g = h /\ i = j
<1>1. \A h \in Users : C[h] \in Seq(live)
  BY DEF Own
<1>2. \A g, h \in Users : \A i \in 1..Len(C[g]), j \in 1..Len(C[h]) :
        C[g][i] = C[h][j] => g = h /\ i = j
  BY Zenon DEF Own
<1> QED
  BY <1>1, <1>2, LenProperties, ElementOfSeq, EmptySeq

(* A block is at one place of one chain. *)
LEMMA OwnOnce ==
  ASSUME NEW C, NEW live, Own(C, live), NEW u \in Users, NEW v \in Users,
         NEW k \in 1..Len(C[u]), NEW l \in 1..Len(C[v]), C[u][k] = C[v][l]
  PROVE  u = v /\ k = l
BY OwnFacts

(* The user h takes a new block. *)
LEMMA OwnAdd ==
  ASSUME NEW C, NEW live, Own(C, live), NEW h \in Users, NEW b, b \notin live
  PROVE  Own(Added(C, h, b), live \cup {b})
<1> DEFINE D == Added(C, h, b)
           all == live \cup {b}
           n == Len(C[h])
<1>1. D = [x \in Users |-> IF x = h THEN Append(C[h], b) ELSE C[x]]
  BY DEF Added, Own
<1>2. \A x \in Users : C[x] \in Seq(all) /\ Len(C[x]) \in Nat
  BY OwnFacts, SeqMonotonic
<1>3. /\ D[h] \in Seq(all) /\ Len(D[h]) = n + 1 /\ D[h][n + 1] = b
      /\ \A i \in 1..n : D[h][i] = C[h][i]
  BY <1>1, <1>2, AppendProperties
<1>4. \A x \in Users : x # h => D[x] = C[x]
  BY <1>1
<1>5. D[h] = Append(C[h], b) /\ DOMAIN D = Users /\ D = [x \in Users |-> D[x]]
  BY <1>1
<1> HIDE DEF D
<1>6. \A x \in Users : \A i \in 1..Len(D[x]) :
        (i \in 1..Len(C[x]) /\ D[x][i] = C[x][i]) \/ (x = h /\ i = n + 1 /\ D[x][i] = b)
  BY <1>2, <1>3, <1>4
<1>7. \A x \in Users : \A i \in 1..Len(C[x]) : i \in 1..Len(D[x]) /\ D[x][i] = C[x][i]
  BY <1>2, <1>3, <1>4
<1>8. \A x \in Users : \A i \in 1..Len(C[x]) : C[x][i] # b
  BY OwnFacts
<1>9. ASSUME NEW x \in Users, NEW y \in Users, NEW i \in 1..Len(D[x]), NEW j \in 1..Len(D[y]),
             D[x][i] = D[y][j]
      PROVE  x = y /\ i = j
  <2>1. \A u, v \in Users : \A k \in 1..Len(C[u]), l \in 1..Len(C[v]) :
          C[u][k] = C[v][l] => u = v /\ k = l
    BY OwnFacts
  <2>2. \/ i \in 1..Len(C[x]) /\ D[x][i] = C[x][i]
        \/ x = h /\ i = n + 1 /\ D[x][i] = b
    BY <1>6
  <2>3. \/ j \in 1..Len(C[y]) /\ D[y][j] = C[y][j]
        \/ y = h /\ j = n + 1 /\ D[y][j] = b
    BY <1>6
  <2> QED
    BY <1>8, <1>9, <2>1, <2>2, <2>3
<1>10. ASSUME NEW c \in all PROVE \E x \in Users : \E i \in 1..Len(D[x]) : D[x][i] = c
  <2>1. CASE c = b
    <3>1. n + 1 \in 1..Len(D[h])
      BY <1>2, <1>3
    <3> QED
      BY <1>3, <2>1, <3>1
  <2>2. CASE c \in live
    <3>1. PICK x \in Users : \E i \in 1..Len(C[x]) : C[x][i] = c
      BY <2>2, Zenon DEF Own
    <3> QED
      BY <1>7, <3>1
  <2> QED
    BY <2>1, <2>2
<1>11. \A x \in Users : D[x] \in Seq(all)
  BY <1>2, <1>3, <1>4
<1>12. Own(D, all)
  <2>1. D \in [Users -> Seq(all)]
    BY <1>5, <1>11
  <2> HIDE DEF all
  <2> QED
    BY <1>9, <1>10, <2>1, Zenon DEF Own
<1> QED
  BY <1>12 DEF D

(* The chain of h goes behind that of g. *)
LEMMA OwnJoin ==
  ASSUME NEW C, NEW live, Own(C, live), NEW g \in Users, NEW h \in Users, g # h
  PROVE  Own(Joined(C, g, h), live)
<1> DEFINE D == Joined(C, g, h)
           n == Len(C[g])
           m == Len(C[h])
<1>1. D = [x \in Users |-> IF x = h THEN <<>> ELSE IF x = g THEN C[g] \o C[h] ELSE C[x]]
  BY DEF Joined, Own
<1>2. \A x \in Users : C[x] \in Seq(live) /\ Len(C[x]) \in Nat
  BY OwnFacts
<1>3. /\ D[g] = C[g] \o C[h] /\ D[h] = <<>>
      /\ \A x \in Users : x # g /\ x # h => D[x] = C[x]
      /\ DOMAIN D = Users /\ D = [x \in Users |-> D[x]]
  BY <1>1
<1> HIDE DEF D
<1>4. /\ D[g] \in Seq(live) /\ Len(D[g]) = n + m
      /\ \A i \in 1..(n + m) : D[g][i] = IF i <= n THEN C[g][i] ELSE C[h][i - n]
      /\ n \in Nat /\ m \in Nat
  <2>1. C[g] \in Seq(live) /\ C[h] \in Seq(live) /\ n \in Nat /\ m \in Nat
    BY <1>2
  <2>2. /\ C[g] \o C[h] \in Seq(live) /\ Len(C[g] \o C[h]) = n + m
        /\ \A i \in 1..(n + m) : (C[g] \o C[h])[i] = IF i <= n THEN C[g][i] ELSE C[h][i - n]
    BY <2>1, ConcatProperties
  <2> QED
    BY <1>3, <2>1, <2>2
<1>5. D[h] \in Seq(live) /\ Len(D[h]) = 0
  BY <1>3, EmptySeq
<1>6. \A i \in 1..Len(D[g]) :
        \/ i \in 1..n /\ D[g][i] = C[g][i]
        \/ i - n \in 1..m /\ D[g][i] = C[h][i - n]
  <2> TAKE i \in 1..Len(D[g])
  <2> HIDE DEF n, m
  <2> QED
    BY <1>4
<1>7. \A x \in Users : D[x] \in Seq(live)
  BY <1>2, <1>3, <1>4, <1>5
<1>8. ASSUME NEW x \in Users, NEW y \in Users, NEW i \in 1..Len(D[x]), NEW j \in 1..Len(D[y]),
             D[x][i] = D[y][j]
      PROVE  x = y /\ i = j
  <2> DEFINE From(z, a, u, k) ==
               \/ z = g /\ a > n /\ u = h /\ k = a - n
               \/ z # h /\ u = z /\ k = a /\ ~(z = g /\ a > n)
  <2>1. ASSUME NEW z \in Users, NEW a \in 1..Len(D[z])
        PROVE  \E u \in Users : \E k \in 1..Len(C[u]) : D[z][a] = C[u][k] /\ From(z, a, u, k)
    <3>1. CASE z = g /\ a > n
      <4>1. a \in 1..(n + m)
        BY <1>4, <3>1
      <4>2. a - n \in 1..m /\ ~(a <= n)
        <5> HIDE DEF n, m
        <5> QED
          BY <1>4, <3>1, <4>1
      <4>3. D[z][a] = C[h][a - n]
        BY <1>4, <3>1, <4>1, <4>2
      <4> QED
        BY <3>1, <4>2, <4>3
    <3>2. CASE z = g /\ ~(a > n)
      <4>1. a \in 1..(n + m)
        BY <1>4, <3>2
      <4>2. a \in 1..n /\ a <= n
        <5> HIDE DEF n, m
        <5> QED
          BY <1>4, <3>2, <4>1
      <4>3. D[z][a] = C[g][a]
        BY <1>4, <3>2, <4>1, <4>2
      <4> QED
        BY <3>2, <4>2, <4>3
    <3>3. CASE z # g
      <4>1. z # h
        BY <1>5
      <4> QED
        BY <1>3, <3>3, <4>1
    <3> QED
      BY <3>1, <3>2, <3>3
  <2>2. PICK u \in Users : \E k \in 1..Len(C[u]) : D[x][i] = C[u][k] /\ From(x, i, u, k)
    BY <2>1
  <2>3. PICK k \in 1..Len(C[u]) : D[x][i] = C[u][k] /\ From(x, i, u, k)
    BY <2>2
  <2>4. PICK v \in Users : \E l \in 1..Len(C[v]) : D[y][j] = C[v][l] /\ From(y, j, v, l)
    BY <2>1
  <2>5. PICK l \in 1..Len(C[v]) : D[y][j] = C[v][l] /\ From(y, j, v, l)
    BY <2>4
  <2>6. u = v /\ k = l
    <3>1. C[u][k] = C[v][l]
      BY <1>8, <2>3, <2>5
    <3> HIDE DEF From
    <3> QED
      BY <3>1, OwnOnce
  <2>7. i \in Int /\ j \in Int
    OBVIOUS
  <2>8. From(x, i, u, k) /\ From(y, j, u, k)
    BY <2>3, <2>5, <2>6
  <2> HIDE DEF n, m
  <2> QED
    BY <1>4, <2>7, <2>8
<1>9. ASSUME NEW b \in live PROVE \E x \in Users : \E i \in 1..Len(D[x]) : D[x][i] = b
  <2>0. PICK x \in Users : \E i \in 1..Len(C[x]) : C[x][i] = b
    BY DEF Own
  <2>1. PICK i \in 1..Len(C[x]) : C[x][i] = b
    BY <2>0
  <2>2. CASE x = g
    <3>0. i \in 1..n
      BY <2>2
    <3>1. i \in 1..(n + m) /\ i <= n
      <4> HIDE DEF n, m
      <4> QED
        BY <1>4, <3>0
    <3> QED
      BY <1>4, <2>1, <2>2, <3>1
  <2>3. CASE x = h
    <3>0. i \in 1..m
      BY <2>3
    <3>1. n + i \in 1..(n + m) /\ ~(n + i <= n) /\ (n + i) - n = i
      <4> HIDE DEF n, m
      <4> QED
        BY <1>4, <3>0
    <3>2. n + i \in 1..Len(D[g]) /\ D[g][n + i] = b
      BY <1>4, <2>1, <2>3, <3>1
    <3> QED
      BY <3>1, <3>2
  <2>4. CASE x # g /\ x # h
    BY <1>3, <2>1, <2>4
  <2> QED
    BY <2>2, <2>3, <2>4
<1>10. Own(D, live)
  <2>1. D \in [Users -> Seq(live)]
    BY <1>3, <1>7
  <2> QED
    BY <1>8, <1>9, <2>1, Zenon DEF Own
<1> QED
  BY <1>10 DEF D

(* The blocks behind the n-th go to a user that has none. *)
LEMMA OwnDivide ==
  ASSUME NEW C, NEW live, Own(C, live), NEW g \in Users, NEW h \in Users, g # h,
         C[h] = <<>>, NEW n \in 0..Len(C[g])
  PROVE  Own(Divided(C, g, h, n), live)
<1> DEFINE D == Divided(C, g, h, n)
           m == Len(C[g])
<1>1. D = [x \in Users |-> IF x = h THEN SubSeq(C[g], n + 1, Len(C[g]))
                           ELSE IF x = g THEN SubSeq(C[g], 1, n) ELSE C[x]]
  BY DEF Divided, Own
<1>2. \A x \in Users : C[x] \in Seq(live) /\ Len(C[x]) \in Nat
  BY OwnFacts
<1>3. /\ D[g] = SubSeq(C[g], 1, n) /\ D[h] = SubSeq(C[g], n + 1, m)
      /\ \A x \in Users : x # g /\ x # h => D[x] = C[x]
      /\ DOMAIN D = Users /\ D = [x \in Users |-> D[x]]
  BY <1>1
<1> HIDE DEF D
<1>4. n \in Nat /\ m \in Nat /\ n <= m /\ C[g] \in Seq(live)
  BY <1>2
<1>5. /\ D[g] \in Seq(live) /\ Len(D[g]) = n
      /\ \A i \in 1..n : D[g][i] = C[g][i]
  <2>1. \A i \in 1..n : C[g][i] \in live
    BY <1>4, ElementOfSeq
  <2> QED
    BY <1>3, <1>4, <2>1, SubSeqProperties
<1>6. /\ D[h] \in Seq(live) /\ Len(D[h]) = m - n
      /\ \A i \in 1..(m - n) : D[h][i] = C[g][n + i]
  <2>1. \A i \in (n + 1)..m : C[g][i] \in live
    BY <1>4, ElementOfSeq
  <2>2. /\ D[h] \in Seq(live)
        /\ Len(D[h]) = IF n + 1 <= m THEN m - (n + 1) + 1 ELSE 0
        /\ \A i \in 1..(m - (n + 1) + 1) : D[h][i] = C[g][(n + 1) + i - 1]
    <3> HIDE DEF m
    <3> QED
      BY <1>3, <1>4, <2>1, SubSeqProperties
  <2>3. \A i \in Int : (n + 1) + i - 1 = n + i
    BY <1>4
  <2>4. m - (n + 1) + 1 = m - n
    BY <1>4
  <2> HIDE DEF m
  <2> QED
    BY <1>4, <2>2, <2>3, <2>4
<1>7. \A x \in Users : D[x] \in Seq(live)
  BY <1>2, <1>3, <1>5, <1>6
<1>8. ASSUME NEW x \in Users, NEW y \in Users, NEW i \in 1..Len(D[x]), NEW j \in 1..Len(D[y]),
             D[x][i] = D[y][j]
      PROVE  x = y /\ i = j
  <2> DEFINE From(z, a, u, k) ==
               \/ z = h /\ u = g /\ k = n + a
               \/ z # h /\ u = z /\ k = a /\ (z = g => a <= n)
  <2>1. ASSUME NEW z \in Users, NEW a \in 1..Len(D[z])
        PROVE  \E u \in Users : \E k \in 1..Len(C[u]) : D[z][a] = C[u][k] /\ From(z, a, u, k)
    <3>1. CASE z = h
      <4>1. a \in 1..(m - n)
        BY <1>6, <3>1
      <4>2. n + a \in 1..m
        <5> HIDE DEF m
        <5> QED
          BY <1>4, <4>1
      <4>3. D[z][a] = C[g][n + a]
        BY <1>6, <3>1, <4>1
      <4> QED
        BY <3>1, <4>2, <4>3
    <3>2. CASE z = g
      <4>1. a \in 1..n
        BY <1>5, <3>2
      <4>2. a \in 1..m /\ a <= n
        <5> HIDE DEF m
        <5> QED
          BY <1>4, <4>1
      <4>3. D[z][a] = C[g][a]
        BY <1>5, <3>2, <4>1
      <4> QED
        BY <3>2, <4>2, <4>3
    <3>3. CASE z # h /\ z # g
      BY <1>3, <3>3
    <3> QED
      BY <3>1, <3>2, <3>3
  <2>2. PICK u \in Users : \E k \in 1..Len(C[u]) : D[x][i] = C[u][k] /\ From(x, i, u, k)
    BY <2>1
  <2>3. PICK k \in 1..Len(C[u]) : D[x][i] = C[u][k] /\ From(x, i, u, k)
    BY <2>2
  <2>4. PICK v \in Users : \E l \in 1..Len(C[v]) : D[y][j] = C[v][l] /\ From(y, j, v, l)
    BY <2>1
  <2>5. PICK l \in 1..Len(C[v]) : D[y][j] = C[v][l] /\ From(y, j, v, l)
    BY <2>4
  <2>6. u = v /\ k = l
    <3>1. C[u][k] = C[v][l]
      BY <1>8, <2>3, <2>5
    <3> HIDE DEF From
    <3> QED
      BY <3>1, OwnOnce
  <2>7. i \in Int /\ j \in Int /\ i >= 1 /\ j >= 1
    OBVIOUS
  <2>8. From(x, i, u, k) /\ From(y, j, u, k)
    BY <2>3, <2>5, <2>6
  <2> QED
    BY <1>4, <2>7, <2>8
<1>9. ASSUME NEW b \in live PROVE \E x \in Users : \E i \in 1..Len(D[x]) : D[x][i] = b
  <2>0. PICK x \in Users : \E i \in 1..Len(C[x]) : C[x][i] = b
    BY DEF Own
  <2>1. PICK i \in 1..Len(C[x]) : C[x][i] = b
    BY <2>0
  <2>2. CASE x = g /\ i <= n
    <3>1. i \in 1..Len(D[g]) /\ D[g][i] = b
      BY <1>4, <1>5, <2>1, <2>2
    <3> QED
      BY <3>1
  <2>3. CASE x = g /\ ~(i <= n)
    <3>1. i - n \in 1..(m - n) /\ n + (i - n) = i
      BY <1>4, <2>1, <2>3
    <3>2. D[h][i - n] = b
      BY <1>6, <2>1, <2>3, <3>1
    <3> QED
      BY <1>6, <3>1, <3>2
  <2>4. CASE x # g
    <3>1. x # h
      BY <2>1, EmptySeq
    <3> QED
      BY <1>3, <2>1, <2>4, <3>1
  <2> QED
    BY <2>2, <2>3, <2>4
<1>10. Own(D, live)
  <2>1. D \in [Users -> Seq(live)]
    BY <1>3, <1>7
  <2> QED
    BY <1>8, <1>9, <2>1, Zenon DEF Own
<1> QED
  BY <1>10 DEF D

(* The first block of h is freed. *)
LEMMA OwnPop ==
  ASSUME NEW C, NEW live, Own(C, live), NEW h \in Users, C[h] # <<>>
  PROVE  Own(Popped(C, h), live \ {C[h][1]})
<1> DEFINE D == Popped(C, h)
           m == Len(C[h])
           b == C[h][1]
           rest == live \ {b}
<1>1. D = [x \in Users |-> IF x = h THEN Tail(C[h]) ELSE C[x]]
  BY DEF Popped, Own
<1>2. \A x \in Users : C[x] \in Seq(live) /\ Len(C[x]) \in Nat /\ C[x] \in [1..Len(C[x]) -> live]
  BY OwnFacts, LenProperties
<1>3. D[h] = Tail(C[h]) /\ (\A x \in Users : x # h => D[x] = C[x])
      /\ DOMAIN D = Users /\ D = [x \in Users |-> D[x]]
  BY <1>1
<1> HIDE DEF D
<1>4. /\ D[h] \in Seq(live) /\ Len(D[h]) = m - 1 /\ m \in Nat \ {0}
      /\ \A i \in 1..(m - 1) : D[h][i] = C[h][i + 1]
  BY <1>2, <1>3, HeadTailProperties, EmptySeq
<1>5. \A x \in Users : \A i \in 1..Len(C[x]) : C[x][i] = b => x = h /\ i = 1
  <2>1. \A u, v \in Users : \A k \in 1..Len(C[u]), l \in 1..Len(C[v]) :
          C[u][k] = C[v][l] => u = v /\ k = l
    BY OwnFacts
  <2>2. 1 \in 1..Len(C[h])
    BY <1>4
  <2> QED
    BY <2>1, <2>2
<1>6. ASSUME NEW x \in Users, NEW i \in 1..Len(D[x])
      PROVE  D[x][i] \in rest
  <2>1. CASE x = h
    <3>1. i \in 1..(m - 1) /\ i + 1 \in 1..m /\ i + 1 # 1
      BY <1>4, <2>1
    <3>2. D[h][i] = C[h][i + 1] /\ C[h][i + 1] # b /\ C[h][i + 1] \in live
      BY <1>2, <1>4, <1>5, <3>1
    <3> QED
      BY <2>1, <3>2
  <2>2. CASE x # h
    BY <1>2, <1>3, <1>5, <2>2
  <2> QED
    BY <2>1, <2>2
<1>7. \A x \in Users : D[x] \in Seq(rest)
  <2> TAKE x \in Users
  <2>1. D[x] \in Seq(live) /\ Len(D[x]) \in Nat
    BY <1>2, <1>3, <1>4, LenProperties
  <2>2. D[x] \in [1..Len(D[x]) -> rest]
    <3> HIDE DEF rest
    <3> QED
      BY <1>6, <2>1, LenProperties
  <2> HIDE DEF rest
  <2> QED
    BY <2>1, <2>2, SeqDef
<1>8. ASSUME NEW x \in Users, NEW y \in Users, NEW i \in 1..Len(D[x]), NEW j \in 1..Len(D[y]),
             D[x][i] = D[y][j]
      PROVE  x = y /\ i = j
  <2> DEFINE From(z, a, u, k) == u = z /\ k = IF z = h THEN a + 1 ELSE a
  <2>1. ASSUME NEW z \in Users, NEW a \in 1..Len(D[z])
        PROVE  \E u \in Users : \E k \in 1..Len(C[u]) : D[z][a] = C[u][k] /\ From(z, a, u, k)
    <3>1. CASE z = h
      <4>1. a \in 1..(m - 1)
        BY <1>4, <3>1
      <4>2. a + 1 \in 1..m
        <5> HIDE DEF m
        <5> QED
          BY <1>4, <4>1
      <4>3. D[z][a] = C[h][a + 1]
        BY <1>4, <3>1, <4>1
      <4> QED
        BY <3>1, <4>2, <4>3
    <3>2. CASE z # h
      BY <1>3, <3>2
    <3> QED
      BY <3>1, <3>2
  <2>2. PICK u \in Users : \E k \in 1..Len(C[u]) : D[x][i] = C[u][k] /\ From(x, i, u, k)
    BY <2>1
  <2>3. PICK k \in 1..Len(C[u]) : D[x][i] = C[u][k] /\ From(x, i, u, k)
    BY <2>2
  <2>4. PICK v \in Users : \E l \in 1..Len(C[v]) : D[y][j] = C[v][l] /\ From(y, j, v, l)
    BY <2>1
  <2>5. PICK l \in 1..Len(C[v]) : D[y][j] = C[v][l] /\ From(y, j, v, l)
    BY <2>4
  <2>6. u = v /\ k = l
    <3>1. C[u][k] = C[v][l]
      BY <1>8, <2>3, <2>5
    <3> HIDE DEF From
    <3> QED
      BY <3>1, OwnOnce
  <2>7. i \in Int /\ j \in Int
    OBVIOUS
  <2>8. From(x, i, u, k) /\ From(y, j, u, k)
    BY <2>3, <2>5, <2>6
  <2> QED
    BY <2>7, <2>8
<1>9. ASSUME NEW c \in rest PROVE \E x \in Users : \E i \in 1..Len(D[x]) : D[x][i] = c
  <2>0. PICK x \in Users : \E i \in 1..Len(C[x]) : C[x][i] = c
    BY DEF Own
  <2>1. PICK i \in 1..Len(C[x]) : C[x][i] = c
    BY <2>0
  <2>2. CASE x = h
    <3>1. i # 1 /\ i - 1 \in 1..(m - 1) /\ (i - 1) + 1 = i
      BY <1>4, <2>1, <2>2
    <3>2. D[h][i - 1] = c
      BY <1>4, <2>1, <2>2, <3>1
    <3> QED
      BY <1>4, <3>1, <3>2
  <2>3. CASE x # h
    BY <1>3, <2>1, <2>3
  <2> QED
    BY <2>2, <2>3
<1>10. Own(D, rest)
  <2> HIDE DEF rest
  <2>1. D \in [Users -> Seq(rest)]
    BY <1>3, <1>7
  <2> QED
    BY <1>8, <1>9, <2>1, Zenon DEF Own
<1> QED
  BY <1>10 DEF D

-----------------------------------------------------------------------------
(* Links that a change of the table does not touch. *)
LEMMA LinksKept ==
  ASSUME NEW table, NEW other, NEW S, NEW s \in Seq(S),
         \A i \in 1..Len(s) : s[i] \in DOMAIN table =>
           s[i] \in DOMAIN other /\ other[s[i]] = table[s[i]]
  PROVE  /\ Links(table, s) => Links(other, s)
         /\ Ends(table, s) => Ends(other, s)
         /\ Whole(table, s) => Whole(other, s)
<1>1. Len(s) \in Nat /\ (s # <<>> => Len(s) \in 1..Len(s))
  BY LenProperties, EmptySeq
<1>2. Links(table, s) => Links(other, s)
  BY <1>1 DEF Links
<1>3. Ends(table, s) => Ends(other, s)
  BY <1>1 DEF Ends
<1> QED
  BY <1>2, <1>3 DEF Whole

(* A part of a chain, from the d-th block on. *)
LEMMA LinksPart ==
  ASSUME NEW table, NEW S, NEW s \in Seq(S), NEW p \in Seq(S), NEW d \in Nat,
         d + Len(p) <= Len(s), \A i \in 1..Len(p) : p[i] = s[d + i], Links(table, s)
  PROVE  /\ Links(table, p)
         /\ d + Len(p) = Len(s) /\ Ends(table, s) => Ends(table, p)
<1>1. Len(s) \in Nat /\ Len(p) \in Nat
  BY LenProperties
<1>2. Links(table, p)
  <2> SUFFICES ASSUME NEW i \in 1..(Len(p) - 1)
               PROVE  p[i] \in DOMAIN table /\ table[p[i]] = p[i + 1]
    BY DEF Links
  <2>1. /\ d + i \in 1..(Len(s) - 1) /\ i \in 1..Len(p) /\ i + 1 \in 1..Len(p)
        /\ (d + i) + 1 = d + (i + 1)
    BY <1>1
  <2>2. p[i] = s[d + i] /\ p[i + 1] = s[(d + i) + 1]
    BY <2>1
  <2> QED
    BY <2>1, <2>2 DEF Links
<1>3. ASSUME d + Len(p) = Len(s), Ends(table, s), p # <<>>
      PROVE  p[Len(p)] \in DOMAIN table /\ table[p[Len(p)]] \in {FAT_NULL, Cut}
  <2>1. Len(p) \in 1..Len(p) /\ Len(s) # 0
    BY <1>1, <1>3, EmptySeq
  <2>2. p[Len(p)] = s[Len(s)]
    BY <1>3, <2>1
  <2>3. s # <<>>
    BY <2>1, EmptySeq
  <2> QED
    BY <1>3, <2>2, <2>3 DEF Ends
<1> QED
  BY <1>2, <1>3 DEF Ends

(* A chain that leads to another one. *)
LEMMA LinksConcat ==
  ASSUME NEW table, NEW S, NEW s \in Seq(S), NEW p \in Seq(S),
         Links(table, s), Links(table, p), p # <<>>,
         s # <<>> => s[Len(s)] \in DOMAIN table /\ table[s[Len(s)]] = p[1]
  PROVE  /\ Links(table, s \o p)
         /\ Ends(table, p) => Ends(table, s \o p)
         /\ Final(s \o p) = Final(p)
         /\ First(s \o p) = IF s = <<>> THEN First(p) ELSE First(s)
<1> DEFINE n == Len(s)
           m == Len(p)
           a == s \o p
<1>1. n \in Nat /\ m \in Nat /\ m # 0 /\ (s = <<>> <=> n = 0)
  BY LenProperties, EmptySeq
<1>2. /\ a \in Seq(S) /\ Len(a) = n + m
      /\ \A i \in 1..(n + m) : a[i] = IF i <= n THEN s[i] ELSE p[i - n]
  BY ConcatProperties
<1>3. a # <<>>
  <2> HIDE DEF a, n, m
  <2> QED
    BY <1>1, <1>2, EmptySeq
<1>4. a[n + m] = p[m]
  <2>1. n + m \in 1..(n + m) /\ ~(n + m <= n) /\ (n + m) - n = m
    <3> HIDE DEF n, m
    <3> QED
      BY <1>1
  <2> HIDE DEF a
  <2> QED
    BY <1>2, <2>1
<1>5. a[1] = IF n = 0 THEN p[1] ELSE s[1]
  <2>1. 1 \in 1..(n + m) /\ (n = 0 => ~(1 <= n) /\ 1 - n = 1) /\ (n # 0 => 1 <= n)
    <3> HIDE DEF n, m
    <3> QED
      BY <1>1
  <2> HIDE DEF a, n, m
  <2> QED
    BY <1>2, <2>1
<1>6. ASSUME NEW i \in 1..(n + m - 1) PROVE a[i] \in DOMAIN table /\ table[a[i]] = a[i + 1]
  <2> HIDE DEF a
  <2>1. CASE i < n
    <3>1. /\ i \in 1..(n + m) /\ i + 1 \in 1..(n + m) /\ i <= n /\ i + 1 <= n
          /\ i \in 1..(n - 1)
      <4> HIDE DEF n, m
      <4> QED
        BY <1>1, <2>1
    <3>2. a[i] = s[i] /\ a[i + 1] = s[i + 1]
      BY <1>2, <3>1
    <3> QED
      BY <3>1, <3>2 DEF Links
  <2>2. CASE i = n
    <3>1. /\ i \in 1..(n + m) /\ i + 1 \in 1..(n + m) /\ i <= n /\ ~(i + 1 <= n)
          /\ (i + 1) - n = 1 /\ n # 0
      <4> HIDE DEF n, m
      <4> QED
        BY <1>1, <2>2
    <3>2. a[i] = s[n] /\ a[i + 1] = p[1]
      BY <1>2, <2>2, <3>1
    <3> QED
      BY <1>1, <3>1, <3>2
  <2>3. CASE i > n
    <3>1. /\ i \in 1..(n + m) /\ i + 1 \in 1..(n + m) /\ ~(i <= n) /\ ~(i + 1 <= n)
          /\ (i + 1) - n = (i - n) + 1 /\ i - n \in 1..(m - 1)
      <4> HIDE DEF n, m
      <4> QED
        BY <1>1, <2>3
    <3>2. a[i] = p[i - n] /\ a[i + 1] = p[(i - n) + 1]
      BY <1>2, <3>1
    <3> QED
      BY <3>1, <3>2 DEF Links
  <2> QED
    BY <1>1, <2>1, <2>2, <2>3
<1>7. Links(table, a)
  <2> HIDE DEF a
  <2> QED
    BY <1>2, <1>6 DEF Links
<1>8. Ends(table, p) => Ends(table, a)
  <2> HIDE DEF a
  <2> QED
    BY <1>2, <1>4 DEF Ends
<1>9. Final(a) = Final(p) /\ First(a) = IF s = <<>> THEN First(p) ELSE First(s)
  <2> HIDE DEF a
  <2> QED
    BY <1>1, <1>2, <1>3, <1>4, <1>5 DEF First, Final
<1> QED
  BY <1>7, <1>8, <1>9

-----------------------------------------------------------------------------
(* What the invariant says of the numbers and of the blocks of chains. *)
LEMMA Basics ==
  ASSUME NEW t, Threads = {t}, Types, NEW C, Shape(t, C)
  PROVE  /\ sb.fat_size \in Nat /\ sb.fat_size >= FAT_PER_BLOCK
         /\ DOMAIN fat = 0..(sb.fat_size - 1)
         /\ next_alloc \in Nat /\ next_alloc <= MaxBlocks
         /\ Live \subseteq Blocks /\ 0 \in Live
         /\ \A h \in Users : C[h] \in Seq(Blocks) /\ C[h] \in Seq(Live) /\ Len(C[h]) \in Nat
         /\ \A h \in Users : C[h] = <<>> <=> Len(C[h]) = 0
         /\ \A h \in Users : \A i \in 1..Len(C[h]) :
              C[h][i] \in Live /\ (h # Fixed => C[h][i] # FAT_NULL)
         /\ t \in Threads /\ pc[t] \in Steps /\ reg[t] \in Locals
<1> USE UsersAre
<1>1. /\ Own(C, Live) /\ C[Fixed] = <<0, Root>> /\ TableShape(C[Table])
  BY DEF Shape, SystemChains
<1>2. /\ \A h \in Users : C[h] \in Seq(Live) /\ Len(C[h]) \in Nat
      /\ \A h \in Users : C[h] = <<>> <=> Len(C[h]) = 0
      /\ \A h \in Users : \A i \in 1..Len(C[h]) : C[h][i] \in Live
  BY <1>1, OwnFacts
<1>3. Live \subseteq Blocks
  BY DEF Live
<1>4. \A h \in Users : C[h] \in Seq(Blocks)
  BY <1>2, <1>3, SeqMonotonic
<1>5. 1 \in 1..Len(C[Fixed]) /\ C[Fixed][1] = 0
  BY <1>1
<1>6. 0 \in Live
  BY <1>2, <1>5
<1>7. ASSUME NEW h \in Users, NEW i \in 1..Len(C[h]), h # Fixed PROVE C[h][i] # FAT_NULL
  <2> SUFFICES ASSUME C[h][i] = 0 PROVE FALSE
    BY DEF FAT_NULL
  <2>1. C[h][i] = C[Fixed][1]
    BY <1>5
  <2> QED
    BY <1>1, <1>5, <1>7, <2>1, OwnOnce
<1>8. sb.fat_size \in Nat /\ sb.fat_size >= FAT_PER_BLOCK
  <2>1. Len(C[Table]) \in Nat /\ Len(C[Table]) # 0 /\ sb.fat_size = FAT_PER_BLOCK * Len(C[Table])
    BY <1>1, <1>2 DEF TableShape
  <2>2. \A a, b \in Nat : b # 0 => a * b \in Nat /\ a * b >= a
    OBVIOUS
  <2> QED
    BY <2>1, <2>2, FatAssumption
<1>9. DOMAIN fat = 0..(sb.fat_size - 1) /\ next_alloc \in Nat /\ next_alloc <= MaxBlocks
  BY FatAssumption DEF Types
<1>10. t \in Threads /\ pc[t] \in Steps /\ reg[t] \in Locals
  BY DEF Types
<1> QED
  BY <1>2, <1>3, <1>4, <1>6, <1>7, <1>8, <1>9, <1>10

(* The walks of the code find the chains of the invariant. *)
LEMMA WholeIs ==
  ASSUME NEW t, Threads = {t}, Types, NEW C, Shape(t, C), NEW h \in Users, h # Fixed,
         Whole(fat, C[h])
  PROVE  Chain(First(C[h])) = C[h]
<1>1. /\ sb.fat_size \in Nat /\ C[h] \in Seq(Blocks)
      /\ \A i \in 1..Len(C[h]) : C[h][i] # FAT_NULL
  BY Basics
<1>2. fat \in [0..(sb.fat_size - 1) -> Blocks \cup {Cut}]
  BY DEF Types
<1>3. Own(C, Live)
  BY DEF Shape
<1>4. \A i, j \in 1..Len(C[h]) : C[h][i] = C[h][j] => i = j
  BY <1>3, OwnOnce
<1> QED
  BY <1>1, <1>2, <1>4, ChainIs DEF Chain

(* The walks from a file's entry and from the superblock's find chains. *)
LEMMA FileIs ==
  ASSUME NEW t, Threads = {t}, Types, NEW C, Shape(t, C), NEW f \in Files
  PROVE  Chain(Coming(t, f).start) = C[File(f)]
<1>1. File(f) \in Users /\ File(f) # Fixed
  BY UsersAre
<1>2. Whole(fat, C[File(f)]) /\ Coming(t, f).start = First(C[File(f)])
  BY DEF Shape, FileChains, Matches
<1> QED
  BY <1>1, <1>2, WholeIs

LEMMA TableIs ==
  ASSUME NEW t, Threads = {t}, Types, NEW C, Shape(t, C)
  PROVE  Chain(sb.fat_start) = C[Table]
<1>1. Table \in Users /\ Table # Fixed
  BY UsersAre
<1>2. Whole(fat, C[Table]) /\ sb.fat_start = First(C[Table])
  BY DEF Shape, SystemChains, TableShape, First
<1> QED
  BY <1>1, <1>2, WholeIs

(* allocate_block: the largest number of the queue, or the next one. *)
LEMMA NewBlockIs ==
  ASSUME NEW t, Threads = {t}, Types, NEW C, Shape(t, C)
  PROVE  /\ NewBlock \notin Live
         /\ NewBlock \in Nat /\ NewBlock <= next_alloc
         /\ freed = {} => NewBlock = next_alloc
         /\ freed # {} => NewBlock \in freed
<1>1. next_alloc \in Nat /\ freed \subseteq 0..(MaxBlocks - 1)
  BY Basics DEF Types, Blocks
<1>2. \A b \in freed : b < next_alloc
  BY DEF Shape, Allocator
<1>3. CASE freed = {}
  BY <1>1, <1>3 DEF NewBlock, Live
<1>4. CASE freed # {}
  <2>1. \E m \in freed : \A x \in freed : x <= m
    <3>1. MaxBlocks - 1 \in Nat
      BY FatAssumption
    <3> QED
      BY <1>1, <1>4, <3>1, GreatestNumber
  <2>2. \E m \in freed : \A x \in freed : m >= x
    BY <1>1, <2>1
  <2>3. Max(freed) \in freed
    BY <2>2, Zenon DEF Max
  <2>4. NewBlock \in freed
    BY <1>4, <2>3 DEF NewBlock
  <2> QED
    BY <1>1, <1>2, <1>4, <2>4 DEF Live
<1> QED
  BY <1>3, <1>4

(* One block more, or one less, in use. *)
LEMMA LiveCounts ==
  /\ IsFiniteSet(Live) /\ Cardinality(Live) \in Nat
  /\ \A b : b \notin Live => Cardinality(Live \cup {b}) = Cardinality(Live) + 1
  /\ \A b \in Live : Cardinality(Live \ {b}) = Cardinality(Live) - 1
<1>1. IsFiniteSet(Blocks)
  BY FatAssumption, FS_Interval DEF Blocks
<1>2. Live \in SUBSET Blocks
  BY DEF Live
<1>3. IsFiniteSet(Live)
  BY <1>1, <1>2, FS_Subset
<1> QED
  BY <1>3, FS_CardinalityType, FS_AddElement, FS_RemoveElement

-----------------------------------------------------------------------------
(* The steps.  Each has chains D after it that fit the invariant: a block  *)
(* or a whole chain passes from one user to another (Passes); those of     *)
(* files change at their ends.                                             *)
AtTheEnd(s, p) == IsPrefix(s, p) \/ IsPrefix(p, s)
Passes(t, C, D) ==
  \/ D = C
  \/ \E b : D = Added(C, Pend, b)
  \/ D = Added(C, Table, NewBlock)
  \/ D = Joined(C, New, Pend)
  \/ D = Joined(C, File(reg[t].file), New)
  \/ \E f \in Files : \E n \in 0..Len(C[File(f)]) : D = Divided(C, File(f), Rest, n)
  \/ D = Popped(C, Rest)
Follows(t, C) ==
  /\ Types' /\ fault' = "none"
  /\ \E D : /\ Shape(t, D)'
            /\ Passes(t, C, D)
            /\ \A f \in Files : AtTheEnd(C[File(f)], D[File(f)])

(* A chain that stays as it is changes at the end, trivially. *)
LEMMA SameAtTheEnd ==
  ASSUME NEW S, NEW s \in Seq(S)
  PROVE  AtTheEnd(s, s)
BY LenProperties DEF AtTheEnd, IsPrefix

(* A new block is put aside, or still to be passed by the counter. *)
LEMMA TakeStep ==
  ASSUME NEW t, Threads = {t}, Types, NEW C, Shape(t, C), Take(t)
  PROVE  Follows(t, C)
<1> DEFINE r == reg[t]
<1>0. PICK D : D = IF freed = {} THEN C ELSE Added(C, Pend, NewBlock)
  OBVIOUS
<1>1. /\ pc[t] = "alloc" /\ fault = "none" /\ r.todo > 0 /\ NewBlock < MaxBlocks
      /\ reg' = [reg EXCEPT ![t] = [r EXCEPT !.new = NewBlock]]
      /\ freed' = freed \ {NewBlock}
      /\ pc' = [pc EXCEPT ![t] = IF freed = {} THEN "advance" ELSE "place"]
      /\ UNCHANGED <<fat, sb, next_alloc, entry, stored, fault>>
  BY DEF Take, At, Set, Goto
<1>2. /\ t \in Threads /\ r \in Locals /\ next_alloc \in Nat /\ Live \subseteq Blocks
      /\ \A h \in Users : C[h] \in Seq(Blocks)
  BY Basics
<1>3. /\ NewBlock \notin Live /\ NewBlock \in Nat /\ NewBlock <= next_alloc
      /\ freed = {} => NewBlock = next_alloc
      /\ freed # {} => NewBlock \in freed
  BY NewBlockIs
<1>4. NewBlock \in Blocks
  BY <1>1, <1>3, FatAssumption DEF Blocks
<1>5. /\ Own(C, Live) /\ FileChains(t, C) /\ SystemChains(C) /\ Allocator(t, C[New])
      /\ AtWork(t, C) /\ Counted(t, C)
  BY DEF Shape
<1>6. /\ pc'[t] = IF freed = {} THEN "advance" ELSE "place"
      /\ reg'[t] = [r EXCEPT !.new = NewBlock]
  BY <1>1, <1>2 DEF Types
<1>7. /\ reg'[t].op = r.op /\ reg'[t].file = r.file /\ reg'[t].de = r.de /\ reg'[t].want = r.want
      /\ reg'[t].todo = r.todo /\ reg'[t].start = r.start /\ reg'[t].last = r.last
      /\ reg'[t].new = NewBlock
  BY <1>2, <1>6 DEF Locals
<1>8. Types'
  <2>1. [r EXCEPT !.new = NewBlock] \in Locals
    BY <1>2, <1>4 DEF Locals
  <2> QED
    BY <1>1, <1>2, <2>1 DEF Types, Steps
<1>9. C[Pend] = <<>> /\ C[Rest] = <<>> /\ Allocating(t, C[New])
  BY <1>1, <1>5 DEF AtWork
<1>10. /\ Own(D, Live')
       /\ D[Pend] = IF freed = {} THEN <<>> ELSE <<NewBlock>>
       /\ \A x \in Users : x # Pend => D[x] = C[x]
       /\ Cardinality(Live') = Cardinality(Live) + Len(D[Pend])
  <2>1. CASE freed = {}
    <3>1. Live' = Live
      BY <1>1, <2>1 DEF Live
    <3> QED
      BY <1>0, <1>5, <1>9, <2>1, <3>1, LiveCounts
  <2>2. CASE freed # {}
    <3>1. Live' = Live \cup {NewBlock}
      <4>1. NewBlock < next_alloc
        BY <1>3, <1>5, <2>2 DEF Allocator
      <4> QED
        BY <1>1, <1>3, <1>4, <4>1 DEF Live
    <3>2. D = Added(C, Pend, NewBlock)
      BY <1>0, <2>2
    <3>3. Own(D, Live')
      BY <1>3, <1>5, <3>1, <3>2, UsersAre, OwnAdd
    <3>4. D[Pend] = Append(<<>>, NewBlock) /\ \A x \in Users : x # Pend => D[x] = C[x]
      <4>1. DOMAIN C = Users /\ Pend \in Users
        BY <1>5, UsersAre DEF Own
      <4> QED
        BY <1>9, <3>2, <4>1, AddedIs
    <3> QED
      BY <1>3, <2>2, <3>1, <3>3, <3>4, LiveCounts
  <2> QED
    BY <2>1, <2>2
<1>11. FileChains(t, D)'
  <2> SUFFICES ASSUME NEW f \in Files
               PROVE  Whole(fat', D[File(f)]) /\ Matches(D[File(f)], Coming(t, f)')
    BY DEF FileChains
  <2>1. D[File(f)] = C[File(f)]
    BY <1>10, UsersAre
  <2>2. Coming(t, f)' = Coming(t, f)
    BY <1>1, <1>6 DEF Coming
  <2> QED
    BY <1>1, <1>5, <2>1, <2>2 DEF FileChains
<1>12. SystemChains(D)'
  <2>1. D[Fixed] = C[Fixed] /\ D[Table] = C[Table] /\ D[Rest] = C[Rest]
    BY <1>10, UsersAre
  <2> QED
    BY <1>1, <1>5, <2>1 DEF SystemChains, TableShape
<1>13. Allocator(t, D[New])'
  BY <1>1, <1>2, <1>3, <1>5, <1>6, <1>7, <1>10, UsersAre, SMTT(30) DEF Allocator, Types
<1>14. AtWork(t, D)'
  BY <1>1, <1>2, <1>3, <1>6, <1>7, <1>9, <1>10, UsersAre DEF AtWork, Allocating
<1>15. Counted(t, D)'
  <2>1. /\ sb.fat_size \in Int /\ sb.free_blocks \in Int /\ Cardinality(Live) \in Int
        /\ Len(C[New]) \in Int /\ Len(D[Pend]) \in Int
    BY <1>10, UsersAre, Basics, LiveCounts DEF Types
  <2>2. D[New] = C[New] /\ Len(C[Pend]) = 0
    BY <1>9, <1>10, UsersAre
  <2>3. sb.free_blocks = sb.fat_size - Cardinality(Live) + (Len(C[New]) + Len(C[Pend]))
    BY <1>1, <1>5 DEF Counted
  <2>4. sb.free_blocks = sb.fat_size - Cardinality(Live') + (Len(D[New]) + Len(D[Pend]))
    <3>1. PICK live : live = Cardinality(Live')
      OBVIOUS
    <3>2. PICK pend : pend = Len(D[Pend])
      OBVIOUS
    <3>3. live = Cardinality(Live) + pend /\ pend \in Int
      BY <1>10, <2>1, <3>1, <3>2
    <3>4. sb.free_blocks = sb.fat_size - live + (Len(C[New]) + pend)
      <4>1. /\ sb.fat_size \in Int /\ sb.free_blocks \in Int /\ Cardinality(Live) \in Int
            /\ Len(C[New]) \in Int
        BY <2>1
      <4> QED
        BY <2>2, <2>3, <3>3, <4>1
    <3> QED
      BY <2>2, <3>1, <3>2, <3>4
  <2>5. pc'[t] # "attach" /\ sb' = sb
    BY <1>1, <1>6
  <2> QED
    BY <2>4, <2>5 DEF Counted
<1>16. Written(t)'
  BY <1>6 DEF Written
<1>17. \A f \in Files : AtTheEnd(C[File(f)], D[File(f)])
  BY <1>2, <1>10, UsersAre, SameAtTheEnd
<1>18. Passes(t, C, D)
  BY <1>0 DEF Passes
<1> QED
  BY <1>1, <1>8, <1>10, <1>11, <1>12, <1>13, <1>14, <1>15, <1>16, <1>17, <1>18 DEF Follows, Shape

(* A file that exists has a size. *)
LEMMA ExistsIs ==
  ASSUME NEW t, Threads = {t}, Types, NEW C, Shape(t, C), pc[t] = "idle",
         NEW f \in Files, Exists(f)
  PROVE  entry[f].blocks # -1
<1>1. File(f) \in Users /\ entry[f] \in Entries
  BY UsersAre DEF Types
<1>2. Matches(C[File(f)], entry[f])
  BY DEF Shape, FileChains, Coming
<1> SUFFICES ASSUME entry[f].blocks = -1 PROVE FALSE
  OBVIOUS
<1>3. C[File(f)] = <<>>
  BY <1>1, <1>2, Basics DEF Matches
<1>4. entry[f].start = FAT_NULL
  BY <1>2, <1>3 DEF Matches, First
<1> QED
  BY <1>1, <1>4 DEF Exists, NoEntry, Entries

(* A new file owns nothing. *)
LEMMA MknodStep ==
  ASSUME NEW t, Threads = {t}, Types, NEW C, Shape(t, C), NEW f \in Files, Mknod(t, f)
  PROVE  Follows(t, C)
<1> DEFINE e == [start |-> FAT_NULL, blocks |-> 0]
<1>1. /\ pc[t] = "idle" /\ fault = "none" /\ entry[f] = NoEntry
      /\ entry' = [entry EXCEPT ![f] = e]
      /\ UNCHANGED <<fat, sb, next_alloc, freed, stored, pc, reg, fault>>
  BY DEF Mknod, At, Exists
<1>2. /\ Own(C, Live) /\ FileChains(t, C) /\ SystemChains(C) /\ Allocator(t, C[New])
      /\ AtWork(t, C) /\ Counted(t, C) /\ Written(t)
  BY DEF Shape
<1>3. Live' = Live
  BY <1>1 DEF Live
<1>4. Types'
  <2>1. e \in Entries
    BY FatAssumption DEF Entries, Blocks, FAT_NULL
  <2> QED
    BY <1>1, <2>1 DEF Types
<1>5. FileChains(t, C)'
  <2> SUFFICES ASSUME NEW g \in Files
               PROVE  Whole(fat, C[File(g)]) /\ Matches(C[File(g)], entry'[g])
    BY <1>1 DEF FileChains, Coming
  <2>1. Whole(fat, C[File(g)]) /\ Matches(C[File(g)], entry[g])
    BY <1>1, <1>2 DEF FileChains, Coming
  <2>2. CASE g = f
    <3>1. entry'[g] = e
      BY <1>1, <2>2 DEF Types
    <3> QED
      BY <1>1, <2>1, <2>2, <3>1 DEF Matches, NoEntry
  <2>3. CASE g # f
    BY <1>1, <2>1, <2>3 DEF Types
  <2> QED
    BY <2>2, <2>3
<1>6. SystemChains(C)' /\ Allocator(t, C[New])'
  BY <1>1, <1>2 DEF SystemChains, TableShape, Allocator
<1>7. AtWork(t, C)' /\ Counted(t, C)' /\ Written(t)'
  BY <1>1, <1>2, <1>3 DEF AtWork, Counted, Written
<1>8. Own(C, Live')
  BY <1>2, <1>3
<1>9. \A g \in Files : AtTheEnd(C[File(g)], C[File(g)])
  BY Basics, UsersAre, SameAtTheEnd
<1>10. Passes(t, C, C)
  BY DEF Passes
<1> QED
  BY <1>1, <1>4, <1>5, <1>6, <1>7, <1>8, <1>9, <1>10 DEF Follows, Shape

(* truncate to a larger size: alloc_blocks starts with an empty chain. *)
LEMMA GrowStep ==
  ASSUME NEW t, Threads = {t}, Types, NEW C, Shape(t, C), NEW f \in Files,
         NEW n \in 0..MaxFile, Grow(t, f, n)
  PROVE  Follows(t, C)
<1> DEFINE e == entry[f]
           r == [NoLocals EXCEPT !.op = "truncate", !.file = f, !.de = e,
                                 !.want = n, !.todo = n - e.blocks]
<1>1. /\ pc[t] = "idle" /\ fault = "none" /\ Exists(f) /\ n > e.blocks
      /\ reg' = [reg EXCEPT ![t] = r] /\ pc' = [pc EXCEPT ![t] = "alloc"]
      /\ UNCHANGED <<fat, sb, next_alloc, freed, entry, stored, fault>>
  BY DEF Grow, At, Set, Goto
<1>2. /\ Own(C, Live) /\ FileChains(t, C) /\ SystemChains(C) /\ Allocator(t, C[New])
      /\ AtWork(t, C) /\ Counted(t, C)
  BY DEF Shape
<1>3. t \in Threads /\ e \in Entries /\ e.blocks \in 0..MaxFile
  BY <1>1, ExistsIs, FatAssumption, SMTT(30) DEF Types, Entries
<1>4. /\ r.op = "truncate" /\ r.file = f /\ r.de = e /\ r.want = n /\ r.todo = n - e.blocks
      /\ r.start = FAT_NULL /\ r.last = FAT_NULL
  BY DEF NoLocals
<1>5. r \in Locals
  <2>1. n - e.blocks \in 0..MaxFile /\ FAT_NULL \in Blocks
    BY <1>1, <1>3, FatAssumption DEF Blocks, FAT_NULL
  <2> HIDE DEF e
  <2> QED
    BY <1>3, <2>1 DEF Locals, NoLocals
<1> HIDE DEF r
<1>6. reg'[t] = r /\ pc'[t] = "alloc" /\ Live' = Live
  BY <1>1, <1>3 DEF Types, Live
<1>7. Types'
  BY <1>1, <1>3, <1>5 DEF Types, Steps
<1>8. FileChains(t, C)' /\ SystemChains(C)'
  BY <1>1, <1>2, <1>6 DEF FileChains, SystemChains, TableShape, Coming
<1>9. C[New] = <<>> /\ C[Pend] = <<>> /\ C[Rest] = <<>>
  BY <1>1, <1>2 DEF AtWork
<1>10. Allocator(t, C[New])' /\ Counted(t, C)' /\ Written(t)'
  BY <1>1, <1>2, <1>6, <1>9 DEF Allocator, Counted, Written
<1>11. AtWork(t, C)'
  <2>1. Allocating(t, <<>>)'
    <3>1. First(<<>>) = FAT_NULL /\ Final(<<>>) = FAT_NULL /\ Len(<<>>) = 0
      BY DEF First, Final
    <3>2. FAT_NULL \in DOMAIN fat /\ Links(fat, <<>>)
      <4>1. sb.fat_size \in Nat /\ sb.fat_size >= FAT_PER_BLOCK /\ DOMAIN fat = 0..(sb.fat_size - 1)
        BY Basics
      <4>2. FAT_NULL \in DOMAIN fat
        BY <4>1, FatAssumption DEF FAT_NULL
      <4>3. Links(fat, <<>>)
        BY <3>1 DEF Links
      <4> QED
        BY <4>2, <4>3
    <3>3. n - e.blocks = 0 + (n - e.blocks)
      BY <1>3
    <3> QED
      BY <1>1, <1>3, <1>4, <1>6, <3>1, <3>2, <3>3 DEF Allocating
  <2> QED
    BY <1>6, <1>9, <2>1 DEF AtWork
<1>12. \A g \in Files : AtTheEnd(C[File(g)], C[File(g)])
  BY Basics, UsersAre, SameAtTheEnd
<1>13. Passes(t, C, C)
  BY DEF Passes
<1> QED
  BY <1>1, <1>2, <1>6, <1>7, <1>8, <1>10, <1>11, <1>12, <1>13 DEF Follows, Shape

(* The counter passes the new block, which is put aside. *)
LEMMA AdvanceStep ==
  ASSUME NEW t, Threads = {t}, Types, NEW C, Shape(t, C), Advance(t)
  PROVE  Follows(t, C)
<1> DEFINE r == reg[t]
<1>0. PICK D : D = Added(C, Pend, next_alloc)
  OBVIOUS
<1>1. /\ pc[t] = "advance" /\ fault = "none" /\ next_alloc' = next_alloc + 1
      /\ pc' = [pc EXCEPT ![t] = "place"]
      /\ UNCHANGED <<fat, sb, freed, entry, stored, reg, fault>>
  BY DEF Advance, At, Goto
<1>2. /\ t \in Threads /\ r \in Locals /\ next_alloc \in Nat /\ next_alloc <= MaxBlocks
      /\ Live \subseteq Blocks /\ \A h \in Users : C[h] \in Seq(Blocks)
  BY Basics
<1>3. /\ Own(C, Live) /\ FileChains(t, C) /\ SystemChains(C) /\ Allocator(t, C[New])
      /\ AtWork(t, C) /\ Counted(t, C)
  BY DEF Shape
<1>4. /\ Allocating(t, C[New]) /\ C[Pend] = <<>> /\ C[Rest] = <<>>
      /\ r.new = next_alloc /\ freed = {} /\ next_alloc < MaxBlocks
  BY <1>1, <1>3 DEF AtWork, Allocating
<1>5. pc'[t] = "place" /\ reg'[t] = r
  BY <1>1, <1>2 DEF Types
<1>6. Types'
  BY <1>1, <1>2, <1>4, FatAssumption DEF Types, Steps
<1>7. Live' = Live \cup {next_alloc} /\ next_alloc \notin Live
  <2>1. next_alloc \in Blocks
    BY <1>2, <1>4, FatAssumption DEF Blocks
  <2>2. Live = {b \in Blocks : b < next_alloc} /\ Live' = {b \in Blocks : b < next_alloc + 1}
    BY <1>1, <1>4 DEF Live
  <2> QED
    BY <1>2, <2>1, <2>2, FatAssumption DEF Blocks
<1>8. /\ Own(D, Live') /\ D[Pend] = <<next_alloc>>
      /\ \A x \in Users : x # Pend => D[x] = C[x]
  <2>1. DOMAIN C = Users /\ Pend \in Users
    BY <1>3, UsersAre DEF Own
  <2>2. Own(D, Live')
    BY <1>0, <1>3, <1>7, <2>1, OwnAdd
  <2>3. D[Pend] = Append(<<>>, next_alloc) /\ \A x \in Users : x # Pend => D[x] = C[x]
    BY <1>0, <1>4, <2>1, AddedIs
  <2> QED
    BY <2>2, <2>3
<1>9. D[New] = C[New] /\ D[Table] = C[Table] /\ D[Fixed] = C[Fixed] /\ D[Rest] = C[Rest]
  BY <1>8, UsersAre
<1>10. FileChains(t, D)'
  BY <1>1, <1>3, <1>5, <1>8, UsersAre DEF FileChains, Coming
<1>11. SystemChains(D)'
  BY <1>1, <1>3, <1>9 DEF SystemChains, TableShape
<1>12. Allocator(t, D[New])'
  <2>1. C[New] # <<>> => C[New][1] \in Live
    BY UsersAre, Basics
  <2>2. C[New] # <<>> => C[New][1] < next_alloc /\ C[New][1] \in Nat
    BY <2>1, FatAssumption DEF Live, Blocks
  <2>3. sb.fat_size \in Nat
    BY Basics
  <2> QED
    BY <1>1, <1>2, <1>3, <1>4, <1>5, <1>9, <2>2, <2>3 DEF Allocator
<1>13. AtWork(t, D)'
  <2>1. Allocating(t, D[New])'
    BY <1>1, <1>4, <1>5, <1>9 DEF Allocating
  <2> QED
    BY <1>4, <1>5, <1>8, <1>9, <2>1 DEF AtWork
<1>14. Counted(t, D)'
  <2>1. PICK c : c = Cardinality(Live)
    OBVIOUS
  <2>2. PICK n : n = Len(C[New])
    OBVIOUS
  <2>3. sb.fat_size \in Int /\ sb.free_blocks \in Int /\ c \in Int /\ n \in Int
    BY <2>1, <2>2, UsersAre, Basics, LiveCounts DEF Types
  <2>4. sb.free_blocks = sb.fat_size - c + (n + 0)
    BY <1>1, <1>3, <1>4, <2>1, <2>2 DEF Counted
  <2>5. sb.free_blocks = sb.fat_size - (c + 1) + (n + 1)
    BY <2>3, <2>4
  <2>6. Cardinality(Live') = c + 1 /\ Len(D[New]) = n /\ Len(D[Pend]) = 1
    BY <1>7, <1>8, <1>9, <2>1, <2>2, LiveCounts
  <2> QED
    BY <1>1, <1>5, <2>5, <2>6 DEF Counted
<1>15. Written(t)'
  BY <1>5 DEF Written
<1>16. \A f \in Files : AtTheEnd(C[File(f)], D[File(f)])
  BY <1>2, <1>8, UsersAre, SameAtTheEnd
<1>17. Passes(t, C, D)
  BY <1>0 DEF Passes
<1> QED
  BY <1>1, <1>6, <1>8, <1>10, <1>11, <1>12, <1>13, <1>14, <1>15, <1>16, <1>17 DEF Follows, Shape

(* The first block put aside is the chain that alloc_blocks builds. *)
LEMMA PlaceFirstStep ==
  ASSUME NEW t, Threads = {t}, Types, NEW C, Shape(t, C), PlaceFirst(t)
  PROVE  Follows(t, C)
<1> DEFINE r == reg[t]
           q == [r EXCEPT !.start = r.new, !.last = r.new, !.todo = @ - 1]
<1>0. PICK D : D = Joined(C, New, Pend)
  OBVIOUS
<1>1. /\ pc[t] = "place" /\ fault = "none" /\ r.start = FAT_NULL
      /\ reg' = [reg EXCEPT ![t] = q] /\ pc' = [pc EXCEPT ![t] = "alloc"]
      /\ UNCHANGED <<fat, sb, next_alloc, freed, entry, stored, fault>>
  BY DEF PlaceFirst, At, Set, Goto
<1>2. /\ t \in Threads /\ r \in Locals /\ next_alloc \in Nat
      /\ \A h \in Users : C[h] \in Seq(Blocks)
  BY Basics
<1>3. /\ Own(C, Live) /\ FileChains(t, C) /\ SystemChains(C) /\ Allocator(t, C[New])
      /\ AtWork(t, C) /\ Counted(t, C)
  BY DEF Shape
<1>4. /\ Allocating(t, C[New]) /\ C[Pend] = <<r.new>> /\ C[Rest] = <<>> /\ r.todo > 0
  BY <1>1, <1>3 DEF AtWork, Allocating
<1>5. C[New] = <<>>
  <2> SUFFICES ASSUME C[New] # <<>> PROVE FALSE
    OBVIOUS
  <2>1. 1 \in 1..Len(C[New]) /\ New \in Users /\ New # Fixed
    BY Basics, UsersAre
  <2>2. C[New][1] # FAT_NULL
    BY <2>1, Basics
  <2> QED
    BY <1>1, <1>4, <2>2 DEF Allocating, First
<1>6. /\ q.op = r.op /\ q.file = r.file /\ q.de = r.de /\ q.want = r.want
      /\ q.todo = r.todo - 1 /\ q.start = r.new /\ q.last = r.new
  BY <1>2 DEF Locals
<1>7. q \in Locals
  <2>1. r.todo - 1 \in 0..MaxFile
    BY <1>2, <1>4, FatAssumption DEF Locals
  <2> QED
    BY <1>2, <2>1 DEF Locals
<1> HIDE DEF q
<1>8. pc'[t] = "alloc" /\ reg'[t] = q /\ Live' = Live
  BY <1>1, <1>2 DEF Types, Live
<1>9. Types'
  BY <1>1, <1>2, <1>7 DEF Types, Steps
<1>10. /\ Own(D, Live') /\ D[New] = <<r.new>> /\ D[Pend] = <<>>
       /\ \A x \in Users : x # New /\ x # Pend => D[x] = C[x]
  <2>1. DOMAIN C = Users /\ Pend \in Users /\ New \in Users /\ New # Pend
    BY <1>3, UsersAre DEF Own
  <2>2. Own(D, Live')
    BY <1>0, <1>3, <1>8, <2>1, OwnJoin
  <2>3. /\ D[New] = C[New] \o C[Pend] /\ D[Pend] = <<>>
        /\ \A x \in Users : x # New /\ x # Pend => D[x] = C[x]
    BY <1>0, <2>1 DEF Joined
  <2>4. C[New] \o C[Pend] = <<r.new>>
    BY <1>4, <1>5
  <2> QED
    BY <2>2, <2>3, <2>4
<1>11. D[Table] = C[Table] /\ D[Fixed] = C[Fixed] /\ D[Rest] = C[Rest]
  BY <1>10, UsersAre
<1>12. FileChains(t, D)'
  BY <1>1, <1>3, <1>8, <1>10, UsersAre DEF FileChains, Coming
<1>13. SystemChains(D)'
  BY <1>1, <1>3, <1>11 DEF SystemChains, TableShape
<1>14. Allocator(t, D[New])'
  <2>1. D[New] # <<>> /\ Len(D[New]) = 1 /\ D[New][1] = r.new
    BY <1>10
  <2> QED
    <3>1. sb.fat_size \in Int /\ r.new \in Int
      BY <1>2, Basics, FatAssumption DEF Locals, Blocks
    <3>2. /\ \A b \in freed : b < next_alloc /\ b < sb.fat_size
          /\ next_alloc - 1 \notin freed
          /\ r.new >= sb.fat_size => freed = {}
          /\ next_alloc <= sb.fat_size + 0 + (IF r.new >= sb.fat_size THEN 1 ELSE 0)
      BY <1>1, <1>3, <1>5 DEF Allocator
    <3>3. next_alloc <= sb.fat_size + (IF r.new >= sb.fat_size THEN 1 ELSE 0) + 0
      BY <1>2, <3>1, <3>2
    <3> QED
      BY <1>1, <1>8, <2>1, <3>2, <3>3 DEF Allocator
<1>15. AtWork(t, D)'
  <2>1. First(D[New]) = r.new /\ Final(D[New]) = r.new /\ Len(D[New]) = 1
    BY <1>10 DEF First, Final
  <2>2. r.want \in Int /\ r.de.blocks \in Int /\ r.todo \in Int
    BY <1>2, FatAssumption DEF Locals, Entries
  <2>3. r.want - r.de.blocks = 0 + r.todo
    BY <1>4, <1>5 DEF Allocating
  <2>4. r.want - r.de.blocks = 1 + (r.todo - 1)
    BY <2>2, <2>3
  <2>5. Links(fat, D[New])
    BY <2>1 DEF Links
  <2>6. /\ q.op = "truncate" /\ q.file \in Files /\ q.de = entry[q.file] /\ q.de.blocks # -1
        /\ q.want > q.de.blocks /\ q.want - q.de.blocks = Len(D[New]) + q.todo
        /\ q.start = First(D[New]) /\ q.last = Final(D[New])
    BY <1>4, <1>6, <2>1, <2>4 DEF Allocating
  <2>7. Allocating(t, D[New])'
    BY <1>1, <1>8, <2>1, <2>5, <2>6 DEF Allocating
  <2> QED
    BY <1>4, <1>8, <1>10, <1>11, <2>7 DEF AtWork
<1>16. Counted(t, D)'
  <2>1. sb.free_blocks = sb.fat_size - Cardinality(Live) + (0 + 1)
    BY <1>1, <1>3, <1>4, <1>5 DEF Counted
  <2>2. Len(D[New]) + Len(D[Pend]) = 0 + 1
    BY <1>10
  <2> QED
    BY <1>1, <1>8, <2>1, <2>2 DEF Counted
<1>17. Written(t)'
  BY <1>8 DEF Written
<1>18. \A f \in Files : AtTheEnd(C[File(f)], D[File(f)])
  BY <1>2, <1>10, UsersAre, SameAtTheEnd
<1>19. Passes(t, C, D)
  BY <1>0 DEF Passes
<1> QED
  BY <1>1, <1>9, <1>10, <1>12, <1>13, <1>14, <1>15, <1>16, <1>17, <1>18, <1>19 DEF Follows, Shape

(* The first n blocks of a chain, and those behind them. *)
LEMMA Parts ==
  ASSUME NEW S, NEW s \in Seq(S), NEW n \in 0..Len(s)
  PROVE  /\ SubSeq(s, 1, n) \in Seq(S) /\ Len(SubSeq(s, 1, n)) = n
         /\ \A i \in 1..n : SubSeq(s, 1, n)[i] = s[i]
         /\ SubSeq(s, n + 1, Len(s)) \in Seq(S) /\ Len(SubSeq(s, n + 1, Len(s))) = Len(s) - n
         /\ \A i \in 1..(Len(s) - n) : SubSeq(s, n + 1, Len(s))[i] = s[n + i]
         /\ AtTheEnd(s, SubSeq(s, 1, n))
<1>1. Len(s) \in Nat /\ \A i \in 1..Len(s) : s[i] \in S
  BY LenProperties, ElementOfSeq
<1>2. PICK m : m = Len(s)
  OBVIOUS
<1>3. m \in Nat /\ n \in 0..m /\ \A i \in 1..m : s[i] \in S
  BY <1>1, <1>2
<1>4. 1 \in Int /\ n \in Int /\ n + 1 \in Int /\ m \in Int /\ n - 1 + 1 = n
  BY <1>3
<1>5. (\A i \in 1..n : s[i] \in S) /\ (\A i \in (n + 1)..m : s[i] \in S)
  BY <1>3
<1>6. /\ SubSeq(s, 1, n) \in Seq(S)
      /\ Len(SubSeq(s, 1, n)) = IF 1 <= n THEN n - 1 + 1 ELSE 0
      /\ \A i \in 1..(n - 1 + 1) : SubSeq(s, 1, n)[i] = s[1 + i - 1]
  BY <1>4, <1>5, SubSeqProperties
<1>7. /\ SubSeq(s, n + 1, m) \in Seq(S)
      /\ Len(SubSeq(s, n + 1, m)) = IF n + 1 <= m THEN m - (n + 1) + 1 ELSE 0
      /\ \A i \in 1..(m - (n + 1) + 1) : SubSeq(s, n + 1, m)[i] = s[n + 1 + i - 1]
  BY <1>4, <1>5, SubSeqProperties
<1>8. Len(SubSeq(s, 1, n)) = n /\ \A i \in 1..n : SubSeq(s, 1, n)[i] = s[i]
  <2>1. n = IF 1 <= n THEN n - 1 + 1 ELSE 0
    BY <1>3
  <2>2. \A i \in 1..n : 1 + i - 1 = i
    BY <1>3
  <2> QED
    BY <1>4, <1>6, <2>1, <2>2
<1>9. /\ Len(SubSeq(s, n + 1, m)) = m - n
      /\ \A i \in 1..(m - n) : SubSeq(s, n + 1, m)[i] = s[n + i]
  <2>1. m - n = IF n + 1 <= m THEN m - (n + 1) + 1 ELSE 0
    BY <1>3
  <2>2. m - (n + 1) + 1 = m - n /\ \A i \in 1..(m - n) : n + 1 + i - 1 = n + i
    BY <1>3
  <2> QED
    BY <1>7, <2>1, <2>2
<1>10. IsPrefix(SubSeq(s, 1, n), s)
  <2>1. SubSeq(SubSeq(s, 1, n), 1, Len(SubSeq(s, 1, n))) = SubSeq(s, 1, n)
    BY <1>6, SubSeqFull
  <2> QED
    BY <1>2, <1>3, <1>8, <2>1 DEF IsPrefix
<1> QED
  BY <1>2, <1>6, <1>7, <1>8, <1>9, <1>10 DEF AtTheEnd

(* A chain with another one behind it. *)
LEMMA LongerAtTheEnd ==
  ASSUME NEW S, NEW s \in Seq(S), NEW p \in Seq(S)
  PROVE  AtTheEnd(s, s \o p)
<1>1. /\ s \o p \in Seq(S) /\ Len(s \o p) = Len(s) + Len(p) /\ Len(s) \in Nat /\ Len(p) \in Nat
      /\ \A i \in 1..(Len(s) + Len(p)) : (s \o p)[i] = IF i <= Len(s) THEN s[i] ELSE p[i - Len(s)]
  BY ConcatProperties, LenProperties
<1>2. PICK a : a = s \o p
  OBVIOUS
<1>3. PICK n : n = Len(s)
  OBVIOUS
<1>4. a \in Seq(S) /\ n \in 0..Len(a) /\ \A i \in 1..n : a[i] = s[i]
  BY <1>1, <1>2, <1>3
<1>5. SubSeq(a, 1, n) = s
  <2>1. SubSeq(a, 1, n) \in Seq(S) /\ Len(SubSeq(a, 1, n)) = n
        /\ \A i \in 1..n : SubSeq(a, 1, n)[i] = a[i]
    BY <1>4, Parts
  <2> QED
    BY <1>3, <1>4, <2>1, SeqEqual
<1>6. SubSeq(s, 1, n) = s /\ n <= Len(a)
  BY <1>3, <1>4, SubSeqFull
<1> QED
  BY <1>2, <1>3, <1>5, <1>6 DEF AtTheEnd, IsPrefix

(* The entry gets what the chains have been for since the loop ended. *)
LEMMA SaveStep ==
  ASSUME NEW t, Threads = {t}, Types, NEW C, Shape(t, C), Save(t)
  PROVE  Follows(t, C)
<1> DEFINE r == reg[t]
           e == IF r.op = "truncate" /\ Exists(r.file)
                THEN [start |-> r.de.start, blocks |-> r.want] ELSE NoEntry
<1>1. /\ pc[t] = "save" /\ fault = "none"
      /\ entry' = [entry EXCEPT ![r.file] = e]
      /\ reg' = [reg EXCEPT ![t] = NoLocals] /\ pc' = [pc EXCEPT ![t] = "idle"]
      /\ UNCHANGED <<fat, sb, next_alloc, freed, stored, fault>>
  BY DEF Save, At, Set, Goto
<1>2. t \in Threads /\ r \in Locals /\ \A h \in Users : C[h] \in Seq(Blocks)
  BY Basics
<1>3. /\ Own(C, Live) /\ FileChains(t, C) /\ SystemChains(C) /\ Allocator(t, C[New])
      /\ AtWork(t, C) /\ Counted(t, C) /\ Written(t)
  BY DEF Shape
<1>4. Freeing(t, C[Rest]) /\ C[New] = <<>> /\ C[Pend] = <<>> /\ C[Rest] = <<>>
  BY <1>1, <1>3 DEF AtWork
<1>5. pc'[t] = "idle" /\ reg'[t] = NoLocals /\ Live' = Live
  BY <1>1, <1>2 DEF Types, Live
<1>6. r.file \in Files /\ e = Coming(t, r.file)
  <2>1. r.op = "truncate" => Exists(r.file)
    BY <1>4 DEF Freeing, Exists, NoEntry
  <2> QED
    BY <1>1, <1>4, <2>1 DEF Freeing, Coming
<1>7. e \in Entries
  BY <1>2, FatAssumption DEF Locals, Entries, NoEntry, FAT_NULL, Blocks
<1>8. NoLocals \in Locals
  BY FatAssumption DEF NoLocals, NoEntry, Locals, Entries, FAT_NULL, Blocks
<1> HIDE DEF e
<1>9. Types'
  BY <1>1, <1>2, <1>7, <1>8 DEF Types, Steps
<1>10. FileChains(t, C)'
  <2> SUFFICES ASSUME NEW f \in Files PROVE Coming(t, f)' = Coming(t, f)
    BY <1>1, <1>3 DEF FileChains
  <2>1. Coming(t, f)' = entry'[f]
    BY <1>5 DEF Coming
  <2>2. CASE f = r.file
    <3>1. entry'[f] = e
      BY <1>1, <2>2 DEF Types
    <3> QED
      BY <1>6, <2>1, <2>2, <3>1
  <2>3. CASE f # r.file
    BY <1>1, <2>1, <2>3 DEF Types, Coming
  <2> QED
    BY <2>2, <2>3
<1>11. SystemChains(C)' /\ Allocator(t, C[New])'
  BY <1>1, <1>3, <1>4, <1>5 DEF SystemChains, TableShape, Allocator
<1>12. AtWork(t, C)' /\ Counted(t, C)' /\ Written(t)'
  BY <1>1, <1>3, <1>4, <1>5 DEF AtWork, Counted, Written
<1>13. \A f \in Files : AtTheEnd(C[File(f)], C[File(f)])
  BY <1>2, UsersAre, SameAtTheEnd
<1>14. Passes(t, C, C)
  BY DEF Passes
<1> QED
  BY <1>1, <1>3, <1>5, <1>9, <1>10, <1>11, <1>12, <1>13, <1>14 DEF Follows, Shape

(* Nothing is left to free, and the table is written. *)
LEMMA FreeDoneStep ==
  ASSUME NEW t, Threads = {t}, Types, NEW C, Shape(t, C), FreeDone(t)
  PROVE  Follows(t, C)
<1> DEFINE r == reg[t]
<1>1. /\ pc[t] = "free" /\ fault = "none" /\ r.cur = FAT_NULL
      /\ stored' = [part |-> write_fat(fat, sb), sb |-> sb]
      /\ pc' = [pc EXCEPT ![t] = "save"]
      /\ UNCHANGED <<fat, sb, next_alloc, freed, entry, reg, fault>>
  BY DEF FreeDone, At, Goto
<1>2. t \in Threads /\ r \in Locals /\ \A h \in Users : C[h] \in Seq(Blocks)
  BY Basics
<1>3. /\ Own(C, Live) /\ FileChains(t, C) /\ SystemChains(C) /\ Allocator(t, C[New])
      /\ AtWork(t, C) /\ Counted(t, C)
  BY DEF Shape
<1>4. Freeing(t, C[Rest]) /\ C[New] = <<>> /\ C[Pend] = <<>>
  BY <1>1, <1>3 DEF AtWork
<1>5. C[Rest] = <<>>
  <2> SUFFICES ASSUME C[Rest] # <<>> PROVE FALSE
    OBVIOUS
  <2>1. Rest \in Users /\ Rest # Fixed
    BY UsersAre
  <2>2. C[Rest][1] # FAT_NULL
    <3>1. 1 \in 1..Len(C[Rest])
      BY <2>1, Basics
    <3> QED
      BY <2>1, <3>1, Basics
  <2> QED
    BY <1>1, <1>4, <2>2 DEF Freeing
<1>6. pc'[t] = "save" /\ reg'[t] = r /\ Live' = Live
  BY <1>1, <1>2 DEF Types, Live
<1>7. Types'
  BY <1>1, <1>2 DEF Types, Steps
<1>8. FileChains(t, C)'
  BY <1>1, <1>3, <1>6 DEF FileChains, Coming
<1>9. SystemChains(C)' /\ Allocator(t, C[New])'
  BY <1>1, <1>3, <1>4, <1>6 DEF SystemChains, TableShape, Allocator
<1>10. Freeing(t, C[Rest])'
  BY <1>1, <1>4, <1>6 DEF Freeing
<1>11. AtWork(t, C)' /\ Counted(t, C)' /\ Written(t)'
  BY <1>1, <1>3, <1>4, <1>5, <1>6, <1>10 DEF AtWork, Counted, Written
<1>12. \A f \in Files : AtTheEnd(C[File(f)], C[File(f)])
  BY <1>2, UsersAre, SameAtTheEnd
<1>13. Passes(t, C, C)
  BY DEF Passes
<1> QED
  BY <1>1, <1>3, <1>6, <1>7, <1>8, <1>9, <1>11, <1>12, <1>13 DEF Follows, Shape

(* An entry of the table that belongs to one chain is overwritten. *)
LEMMA Relinked ==
  ASSUME NEW t, Threads = {t}, Types, NEW C, Shape(t, C), NEW h \in Users,
         NEW k \in 1..Len(C[h]), C[h][k] \in DOMAIN fat, NEW v,
         NEW other, other = [fat EXCEPT ![C[h][k]] = v]
  PROVE  /\ DOMAIN other = DOMAIN fat /\ other[C[h][k]] = v
         /\ \A u \in Users : u # h => /\ Links(fat, C[u]) => Links(other, C[u])
                                      /\ Whole(fat, C[u]) => Whole(other, C[u])
         /\ \A i \in 1..Len(C[h]) : i # k /\ C[h][i] \in DOMAIN fat =>
              other[C[h][i]] = fat[C[h][i]]
         /\ k = Len(C[h]) /\ Links(fat, C[h]) => Links(other, C[h])
<1>1. PICK x : x = C[h][k]
  OBVIOUS
<1>2. DOMAIN other = DOMAIN fat /\ other[x] = v /\ \A b \in DOMAIN fat : b # x => other[b] = fat[b]
  BY <1>1 DEF Types
<1>3. Own(C, Live) /\ \A u \in Users : C[u] \in Seq(Blocks)
  BY Basics DEF Shape
<1>4. ASSUME NEW u \in Users, u # h
      PROVE  /\ Links(fat, C[u]) => Links(other, C[u])
             /\ Whole(fat, C[u]) => Whole(other, C[u])
  <2>1. ASSUME NEW i \in 1..Len(C[u]) PROVE C[u][i] # x
    <3> SUFFICES ASSUME C[u][i] = C[h][k] PROVE FALSE
      BY <1>1
    <3> QED
      BY <1>3, <1>4, OwnOnce
  <2>2. \A i \in 1..Len(C[u]) : C[u][i] \in DOMAIN fat =>
           C[u][i] \in DOMAIN other /\ other[C[u][i]] = fat[C[u][i]]
    BY <1>2, <2>1
  <2>3. PICK p : p = C[u]
    OBVIOUS
  <2>4. p \in Seq(Blocks) /\ \A i \in 1..Len(p) : p[i] \in DOMAIN fat =>
          p[i] \in DOMAIN other /\ other[p[i]] = fat[p[i]]
    BY <1>3, <2>2, <2>3
  <2>5. /\ Links(fat, p) => Links(other, p)
        /\ Whole(fat, p) => Whole(other, p)
    BY <2>4, LinksKept, Zenon
  <2> QED
    BY <2>3, <2>5
<1>5. \A i \in 1..Len(C[h]) : i # k /\ C[h][i] \in DOMAIN fat => other[C[h][i]] = fat[C[h][i]]
  <2> TAKE i \in 1..Len(C[h])
  <2> HAVE i # k /\ C[h][i] \in DOMAIN fat
  <2>1. C[h][i] # x
    <3> SUFFICES ASSUME C[h][i] = C[h][k] PROVE FALSE
      BY <1>1
    <3> QED
      BY <1>3, OwnOnce
  <2> QED
    BY <1>2, <2>1
<1>6. ASSUME k = Len(C[h]), Links(fat, C[h]) PROVE Links(other, C[h])
  <2> SUFFICES ASSUME NEW i \in 1..(Len(C[h]) - 1)
               PROVE  C[h][i] \in DOMAIN other /\ other[C[h][i]] = C[h][i + 1]
    BY DEF Links
  <2>1. C[h][i] \in DOMAIN fat /\ fat[C[h][i]] = C[h][i + 1]
    BY <1>6 DEF Links
  <2>2. i \in 1..Len(C[h]) /\ i # k
    BY <1>6, Basics
  <2> QED
    BY <1>2, <1>5, <2>1, <2>2
<1> QED
  BY <1>1, <1>2, <1>4, <1>5, <1>6

(* The last block of a chain, as a place of it. *)
LEMMA FinalIs ==
  ASSUME NEW t, Threads = {t}, Types, NEW C, Shape(t, C), NEW h \in Users, h # Fixed
  PROVE  /\ C[h] # <<>> => /\ Len(C[h]) \in 1..Len(C[h]) /\ 1 \in 1..Len(C[h])
                           /\ Final(C[h]) = C[h][Len(C[h])] /\ First(C[h]) = C[h][1]
                           /\ First(C[h]) # FAT_NULL
         /\ C[h] = <<>> => First(C[h]) = FAT_NULL /\ Final(C[h]) = FAT_NULL
<1>1. Len(C[h]) \in Nat /\ (C[h] = <<>> <=> Len(C[h]) = 0)
  BY Basics
<1>2. C[h] # <<>> => Len(C[h]) \in 1..Len(C[h]) /\ 1 \in 1..Len(C[h])
  BY <1>1
<1>3. C[h] # <<>> => C[h][1] # FAT_NULL
  BY <1>2, Basics
<1> QED
  BY <1>2, <1>3 DEF First, Final

(* Where the code stops: all stays as it was. *)
Stops(t) ==
  /\ fault' \in {"overrun", "wild"}
  /\ UNCHANGED <<fat, sb, next_alloc, freed, entry, stored, pc, reg>>
  /\ fault' = "overrun" => reg[t].todo = 0 /\ reg[t].last = reg[t].start

(* The whole chain of the file is to be freed. *)
LEMMA UnlinkStep ==
  ASSUME NEW t, Threads = {t}, Types, NEW C, Shape(t, C), NEW f \in Files, Unlink(t, f)
  PROVE  Follows(t, C)
<1> DEFINE r == [NoLocals EXCEPT !.op = "unlink", !.file = f, !.cur = entry[f].start]
<1>0. PICK D : D = Divided(C, File(f), Rest, 0)
  OBVIOUS
<1>1. /\ pc[t] = "idle" /\ fault = "none"
      /\ reg' = [reg EXCEPT ![t] = r] /\ pc' = [pc EXCEPT ![t] = "free"]
      /\ UNCHANGED <<fat, sb, next_alloc, freed, entry, stored, fault>>
  BY DEF Unlink, At, Set, Goto
<1>2. t \in Threads /\ \A h \in Users : C[h] \in Seq(Blocks)
  BY Basics
<1>3. /\ Own(C, Live) /\ FileChains(t, C) /\ SystemChains(C) /\ Allocator(t, C[New])
      /\ AtWork(t, C) /\ Counted(t, C)
  BY DEF Shape
<1>4. C[New] = <<>> /\ C[Pend] = <<>> /\ C[Rest] = <<>>
  BY <1>1, <1>3 DEF AtWork
<1>5. r.op = "unlink" /\ r.file = f /\ r.cur = entry[f].start
  BY DEF NoLocals
<1>6. r \in Locals
  <2>1. entry[f].start \in Blocks /\ FAT_NULL \in Blocks
    BY FatAssumption DEF Types, Entries, Blocks, FAT_NULL
  <2> QED
    <3>1. NoEntry \in Entries /\ 0 \in 0..MaxFile
      BY <2>1, FatAssumption DEF Entries, NoEntry
    <3> QED
      BY <2>1, <3>1 DEF Locals, NoLocals
<1> HIDE DEF r
<1>7. reg'[t] = r /\ pc'[t] = "free" /\ Live' = Live
  BY <1>1, <1>2 DEF Types, Live
<1>8. Types'
  BY <1>1, <1>2, <1>6 DEF Types, Steps
<1>9. DOMAIN C = Users /\ File(f) \in Users /\ Rest \in Users /\ File(f) # Rest
  BY <1>3, UsersAre DEF Own
<1>10. /\ D[File(f)] = SubSeq(C[File(f)], 1, 0)
       /\ D[Rest] = SubSeq(C[File(f)], 0 + 1, Len(C[File(f)]))
       /\ \A x \in Users : x # File(f) /\ x # Rest => D[x] = C[x]
  BY <1>0, <1>9 DEF Divided
<1>11. D[File(f)] = <<>> /\ D[Rest] = C[File(f)]
  <2>1. SubSeq(C[File(f)], 1, 0) = <<>>
    BY SubSeqEmpty
  <2>2. SubSeq(C[File(f)], 0 + 1, Len(C[File(f)])) = C[File(f)]
    BY <1>2, <1>9, SubSeqFull
  <2> QED
    BY <1>10, <2>1, <2>2
<1>12. Own(D, Live')
  <2>1. 0 \in 0..Len(C[File(f)])
    BY <1>9, Basics
  <2> QED
    BY <1>0, <1>3, <1>4, <1>7, <1>9, <2>1, OwnDivide
<1>13. D[New] = <<>> /\ D[Pend] = <<>> /\ D[Table] = C[Table] /\ D[Fixed] = C[Fixed]
  BY <1>4, <1>10, UsersAre
<1>14. Whole(fat, C[File(f)]) /\ entry[f].start = First(C[File(f)])
  BY <1>1, <1>3 DEF FileChains, Matches, Coming
<1>15. FileChains(t, D)'
  <2> SUFFICES ASSUME NEW g \in Files
               PROVE  Whole(fat, D[File(g)]) /\ Matches(D[File(g)], Coming(t, g)')
    BY <1>1 DEF FileChains
  <2>1. CASE g = f
    <3>1. Coming(t, g)' = NoEntry
      BY <1>5, <1>7, <2>1 DEF Coming
    <3>2. Whole(fat, <<>>)
      <4>1. Len(<<>>) = 0
        OBVIOUS
      <4> QED
        BY <4>1 DEF Whole, Links, Ends
    <3> QED
      BY <1>11, <2>1, <3>1, <3>2 DEF Matches, NoEntry, First
  <2>2. CASE g # f
    <3>1. D[File(g)] = C[File(g)]
      BY <1>10, <2>2, UsersAre
    <3>2. Coming(t, g)' = entry[g] /\ Coming(t, g) = entry[g]
      BY <1>1, <1>5, <1>7, <2>2 DEF Coming
    <3> QED
      BY <1>3, <3>1, <3>2 DEF FileChains
  <2> QED
    BY <2>1, <2>2
<1>16. SystemChains(D)'
  BY <1>1, <1>3, <1>11, <1>13, <1>14 DEF SystemChains, TableShape
<1>17. Allocator(t, D[New])' /\ Counted(t, D)' /\ Written(t)'
  BY <1>1, <1>3, <1>4, <1>7, <1>13 DEF Allocator, Counted, Written
<1>18. AtWork(t, D)'
  <2>1. Freeing(t, D[Rest])'
    BY <1>5, <1>7, <1>11, <1>14 DEF Freeing, First
  <2> QED
    BY <1>7, <1>13, <2>1 DEF AtWork
<1>19. ASSUME NEW g \in Files PROVE AtTheEnd(C[File(g)], D[File(g)])
  <2>1. CASE g = f
    <3>1. PICK s : s = C[File(f)]
      OBVIOUS
    <3>2. s \in Seq(Blocks) /\ 0 \in 0..Len(s)
      <4>1. s \in Seq(Blocks)
        BY <1>2, <1>9, <3>1
      <4> QED
        BY <4>1, LenProperties
    <3>3. AtTheEnd(s, SubSeq(s, 1, 0))
      BY <3>2, Parts
    <3> QED
      BY <1>10, <2>1, <3>1, <3>3
  <2>2. CASE g # f
    <3>1. D[File(g)] = C[File(g)]
      BY <1>10, <2>2, UsersAre
    <3> QED
      BY <1>2, <3>1, UsersAre, SameAtTheEnd
  <2> QED
    BY <2>1, <2>2
<1>20. Passes(t, C, D)
  <2>1. 0 \in 0..Len(C[File(f)])
    BY Basics, UsersAre
  <2> QED
    BY <1>0, <2>1 DEF Passes
<1> QED
  BY <1>1, <1>8, <1>12, <1>15, <1>16, <1>17, <1>18, <1>19, <1>20 DEF Follows, Shape

(* The block put aside is linked behind the new chain. *)
LEMMA PlaceNextStep ==
  ASSUME NEW t, Threads = {t}, Types, NEW C, Shape(t, C), PlaceNext(t)
  PROVE  Follows(t, C)
<1> DEFINE r == reg[t]
           q == [r EXCEPT !.last = r.new, !.todo = @ - 1]
           N == C[New]
<1>0. PICK D : D = Joined(C, New, Pend)
  OBVIOUS
<1>1. /\ pc[t] = "place" /\ fault = "none" /\ r.start # FAT_NULL /\ r.new < sb.fat_size
      /\ fat' = [fat EXCEPT ![r.last] = r.new]
      /\ reg' = [reg EXCEPT ![t] = q] /\ pc' = [pc EXCEPT ![t] = "alloc"]
      /\ UNCHANGED <<sb, next_alloc, freed, entry, stored, fault>>
  BY DEF PlaceNext, At, Set, Goto, InSize
<1>2. /\ t \in Threads /\ r \in Locals /\ next_alloc \in Nat
      /\ \A h \in Users : C[h] \in Seq(Blocks)
      /\ sb.fat_size \in Nat /\ DOMAIN fat = 0..(sb.fat_size - 1)
  BY Basics
<1>3. /\ Own(C, Live) /\ FileChains(t, C) /\ SystemChains(C) /\ Allocator(t, N)
      /\ AtWork(t, C) /\ Counted(t, C)
  BY DEF Shape
<1>4. /\ Allocating(t, N) /\ C[Pend] = <<r.new>> /\ C[Rest] = <<>> /\ r.todo > 0
  BY <1>1, <1>3 DEF AtWork, Allocating
<1>5. New \in Users /\ New # Fixed /\ Pend \in Users /\ New # Pend
  BY UsersAre
<1>6. /\ N # <<>> /\ Len(N) \in 1..Len(N) /\ 1 \in 1..Len(N) /\ r.last = N[Len(N)]
      /\ Final(N) = N[Len(N)] /\ First(N) = N[1]
  <2>1. r.start = First(N) /\ r.last = Final(N)
    BY <1>4 DEF Allocating
  <2>2. N # <<>>
    BY <1>1, <1>5, <2>1, FinalIs
  <2> QED
    BY <1>5, <2>1, <2>2, FinalIs
<1>7. N[1] < sb.fat_size /\ N[Len(N)] \in DOMAIN fat
  <2>1. N[1] \in Nat /\ N[Len(N)] \in Nat /\ r.new \in Nat
    BY <1>2, <1>4, <1>5, <1>6, FatAssumption, Basics DEF Blocks, Locals
  <2>2. ~(N[1] >= sb.fat_size)
    BY <1>1, <1>2, <1>3, <1>6, <2>1, SMTT(30) DEF Allocator
  <2>3. N[Len(N)] \notin DOMAIN fat => Len(N) = 1
    BY <1>4, <1>6 DEF Allocating
  <2> QED
    BY <1>2, <2>1, <2>2, <2>3
<1>8. /\ DOMAIN fat' = DOMAIN fat /\ fat'[N[Len(N)]] = r.new
      /\ \A u \in Users : u # New /\ Whole(fat, C[u]) => Whole(fat', C[u])
      /\ Links(fat', N)
  <2>0. PICK b : b = r.new
    OBVIOUS
  <2>1. fat' = [fat EXCEPT ![N[Len(N)]] = b]
    BY <1>1, <1>6, <2>0
  <2>2. Links(fat, N)
    BY <1>4 DEF Allocating
  <2>3. New \in Users /\ Len(N) \in 1..Len(N) /\ N[Len(N)] \in DOMAIN fat
    BY <1>5, <1>6, <1>7
  <2>4. /\ DOMAIN fat' = DOMAIN fat /\ fat'[N[Len(N)]] = b
        /\ \A u \in Users : u # New /\ Whole(fat, C[u]) => Whole(fat', C[u])
        /\ Links(fat', N)
    <3>1. PICK k \in 1..Len(N) : k = Len(N)
      BY <2>3
    <3>2. PICK other : other = fat'
      OBVIOUS
    <3>3. other = [fat EXCEPT ![N[k]] = b] /\ N[k] \in DOMAIN fat
      BY <2>1, <2>3, <3>1, <3>2
    <3>4. /\ DOMAIN other = DOMAIN fat /\ other[N[k]] = b
          /\ \A u \in Users : u # New /\ Whole(fat, C[u]) => Whole(other, C[u])
          /\ Links(other, N)
      BY <2>2, <2>3, <3>1, <3>3, Relinked
    <3> QED
      BY <3>1, <3>2, <3>4
  <2> QED
    BY <2>0, <2>4
<1>9. /\ q.op = r.op /\ q.file = r.file /\ q.de = r.de /\ q.want = r.want
      /\ q.todo = r.todo - 1 /\ q.start = r.start /\ q.last = r.new
  BY <1>2 DEF Locals
<1>10. q \in Locals
  <2>1. r.todo - 1 \in 0..MaxFile
    BY <1>2, <1>4, FatAssumption DEF Locals
  <2> QED
    BY <1>2, <2>1 DEF Locals
<1> HIDE DEF q
<1>11. pc'[t] = "alloc" /\ reg'[t] = q /\ Live' = Live
  BY <1>1, <1>2 DEF Types, Live
<1>12. Types'
  <2>1. fat' \in [0..(sb.fat_size - 1) -> Blocks \cup {Cut}]
    BY <1>1, <1>2 DEF Types, Locals
  <2> QED
    BY <1>1, <1>2, <1>10, <2>1 DEF Types, Steps
<1>13. /\ Own(D, Live') /\ D[New] = N \o <<r.new>> /\ D[Pend] = <<>>
       /\ \A x \in Users : x # New /\ x # Pend => D[x] = C[x]
  <2>1. DOMAIN C = Users
    BY <1>3 DEF Own
  <2>2. Own(D, Live')
    BY <1>0, <1>3, <1>5, <1>11, OwnJoin
  <2>3. /\ D[New] = C[New] \o C[Pend] /\ D[Pend] = <<>>
        /\ \A x \in Users : x # New /\ x # Pend => D[x] = C[x]
    BY <1>0, <1>5, <2>1 DEF Joined
  <2> QED
    BY <1>4, <2>2, <2>3
<1>14. /\ D[Table] = C[Table] /\ D[Fixed] = C[Fixed] /\ D[Rest] = C[Rest]
       /\ Table \in Users /\ Table # New /\ Rest \in Users /\ Rest # New
  BY <1>13, UsersAre
<1>15. /\ Links(fat', D[New]) /\ Final(D[New]) = r.new /\ First(D[New]) = First(N)
       /\ Len(D[New]) = Len(N) + 1 /\ D[New][1] = N[1] /\ D[New] # <<>>
  <2>1. PICK p : p = <<r.new>>
    OBVIOUS
  <2>2. /\ p \in Seq(Blocks) /\ p # <<>> /\ Len(p) = 1 /\ p[1] = r.new /\ Final(p) = r.new
    BY <1>2, <2>1 DEF Locals, Final
  <2>3. Links(fat', p)
    BY <2>2 DEF Links
  <2>4. N \in Seq(Blocks) /\ N[Len(N)] \in DOMAIN fat' /\ fat'[N[Len(N)]] = p[1]
    BY <1>2, <1>5, <1>7, <1>8, <2>2
  <2>5. Links(fat', N \o p) /\ Final(N \o p) = Final(p) /\ First(N \o p) = First(N)
    BY <1>6, <1>8, <2>2, <2>3, <2>4, LinksConcat
  <2>6. /\ Len(N \o p) = Len(N) + Len(p)
        /\ \A i \in 1..(Len(N) + Len(p)) : (N \o p)[i] = IF i <= Len(N) THEN N[i] ELSE p[i - Len(N)]
    BY <2>2, <2>4, ConcatProperties
  <2>7. Len(N) \in Nat
    BY <1>5, Basics
  <2>8. (N \o p)[1] = N[1] /\ N \o p # <<>>
    <3>1. 1 \in 1..(Len(N) + Len(p)) /\ 1 <= Len(N) /\ Len(N) + Len(p) # 0
      BY <1>6, <2>2, <2>7
    <3> QED
      BY <2>6, <3>1
  <2> QED
    BY <1>13, <2>1, <2>2, <2>5, <2>6, <2>8
<1>16. FileChains(t, D)'
  <2> SUFFICES ASSUME NEW g \in Files
               PROVE  Whole(fat', D[File(g)]) /\ Matches(D[File(g)], Coming(t, g)')
    BY DEF FileChains
  <2>1. D[File(g)] = C[File(g)] /\ File(g) \in Users /\ File(g) # New
    BY <1>13, UsersAre
  <2>2. Coming(t, g)' = Coming(t, g)
    BY <1>1, <1>11 DEF Coming
  <2> QED
    BY <1>3, <1>8, <2>1, <2>2 DEF FileChains
<1>17. SystemChains(D)'
  BY <1>1, <1>3, <1>8, <1>14 DEF SystemChains, TableShape
<1>18. Allocator(t, D[New])'
  <2>1. N[1] \in Nat /\ r.new \in Nat
    BY <1>2, <1>5, <1>6, FatAssumption, Basics DEF Blocks, Locals
  <2>2. ~(D[New][1] >= sb.fat_size) /\ ~(N[1] >= sb.fat_size) /\ ~(r.new >= sb.fat_size)
    BY <1>1, <1>2, <1>7, <1>15, <2>1
  <2> QED
    BY <1>1, <1>3, <1>11, <2>2 DEF Allocator
<1>19. AtWork(t, D)'
  <2>1. r.want \in Int /\ r.de.blocks \in Int /\ r.todo \in Int /\ Len(N) \in Int
    BY <1>2, <1>5, Basics, FatAssumption DEF Locals, Entries
  <2>2. r.want - r.de.blocks = Len(N) + r.todo
    BY <1>4 DEF Allocating
  <2>3. r.want - r.de.blocks = (Len(N) + 1) + (r.todo - 1)
    BY <2>1, <2>2
  <2>4. r.new \in DOMAIN fat'
    BY <1>1, <1>2, <1>8, FatAssumption, SMTT(30) DEF Locals, Blocks
  <2>5. /\ q.op = "truncate" /\ q.file \in Files /\ q.de = entry[q.file] /\ q.de.blocks # -1
        /\ q.want > q.de.blocks /\ q.want - q.de.blocks = Len(D[New]) + q.todo
        /\ q.start = First(D[New]) /\ q.last = Final(D[New]) /\ Final(D[New]) \in DOMAIN fat'
    BY <1>4, <1>9, <1>15, <2>3, <2>4 DEF Allocating
  <2>6. Allocating(t, D[New])'
    BY <1>1, <1>11, <1>15, <2>5 DEF Allocating
  <2> QED
    BY <1>4, <1>11, <1>13, <1>14, <2>6 DEF AtWork
<1>20. Counted(t, D)'
  <2>1. Len(D[New]) = Len(N) + 1 /\ Len(D[Pend]) = 0 /\ Len(C[Pend]) = 1
    BY <1>4, <1>13, <1>15
  <2>2. sb.free_blocks = sb.fat_size - Cardinality(Live) + (Len(N) + Len(C[Pend]))
    BY <1>1, <1>3 DEF Counted
  <2>3. Len(N) \in Int
    BY <1>5, Basics
  <2>4. Len(N) + Len(C[Pend]) = Len(D[New]) + Len(D[Pend])
    BY <2>1, <2>3
  <2> QED
    BY <1>1, <1>11, <2>2, <2>4 DEF Counted
<1>21. Written(t)'
  BY <1>11 DEF Written
<1>22. \A f \in Files : AtTheEnd(C[File(f)], D[File(f)])
  BY <1>2, <1>13, UsersAre, SameAtTheEnd
<1>23. Passes(t, C, D)
  BY <1>0 DEF Passes
<1> QED
  BY <1>1, <1>12, <1>13, <1>16, <1>17, <1>18, <1>19, <1>20, <1>21, <1>22, <1>23 DEF Follows, Shape

(* The new chain is ended, or its one block has no entry in the table. *)
LEMMA EndChainStep ==
  ASSUME NEW t, Threads = {t}, Types, NEW C, Shape(t, C), EndChain(t)
  PROVE  Follows(t, C) \/ Stops(t)
<1> DEFINE r == reg[t]
           N == C[New]
<1>1. pc[t] = "alloc" /\ fault = "none" /\ r.todo = 0
  BY DEF EndChain, At
<1>2. /\ t \in Threads /\ r \in Locals /\ next_alloc \in Nat
      /\ \A h \in Users : C[h] \in Seq(Blocks)
      /\ sb.fat_size \in Nat /\ DOMAIN fat = 0..(sb.fat_size - 1)
  BY Basics
<1>3. /\ Own(C, Live) /\ FileChains(t, C) /\ SystemChains(C) /\ Allocator(t, N)
      /\ AtWork(t, C) /\ Counted(t, C)
  BY DEF Shape
<1>4. Allocating(t, N) /\ C[Pend] = <<>> /\ C[Rest] = <<>>
  BY <1>1, <1>3 DEF AtWork
<1>5. New \in Users /\ New # Fixed
  BY UsersAre
<1>6. r.want - r.de.blocks = Len(N) /\ N # <<>>
  <2>1. Len(N) \in Nat /\ r.want \in Int /\ r.de.blocks \in Int
    BY <1>2, <1>5, Basics, FatAssumption DEF Locals, Entries
  <2>2. r.want - r.de.blocks = Len(N) + 0 /\ r.want > r.de.blocks
    BY <1>1, <1>4 DEF Allocating
  <2>3. r.want - r.de.blocks = Len(N) /\ Len(N) # 0
    BY <2>1, <2>2
  <2> QED
    BY <1>5, <2>3, Basics
<1>7. /\ Len(N) \in 1..Len(N) /\ 1 \in 1..Len(N) /\ r.last = N[Len(N)] /\ r.start = N[1]
      /\ Final(N) = N[Len(N)] /\ First(N) = N[1]
  BY <1>4, <1>5, <1>6, FinalIs DEF Allocating
<1>8. CASE r.last \notin DOMAIN fat /\ Fails("overrun")
  <2>1. Len(N) = 1
    BY <1>4, <1>7, <1>8 DEF Allocating
  <2> QED
    BY <1>1, <1>7, <1>8, <2>1 DEF Stops, Fails
<1>9. CASE /\ r.last \in DOMAIN fat
           /\ fat' = Ended(r)
           /\ sb' = Charged(r)
           /\ stored' = [part |-> write_fat(fat', sb'), sb |-> sb']
           /\ Goto(t, "attach")
           /\ UNCHANGED <<next_alloc, freed, entry, reg, fault>>
  <2>1. fat' = [fat EXCEPT ![N[Len(N)]] = FAT_NULL] /\ N[Len(N)] \in DOMAIN fat
    BY <1>7, <1>9 DEF Ended
  <2>2. sb' = [sb EXCEPT !.free_blocks = @ - Len(N)]
    BY <1>6, <1>9 DEF Charged, num_blocks
  <2>3. /\ sb'.fat_size = sb.fat_size /\ sb'.fat_start = sb.fat_start /\ sb'.fat_end = sb.fat_end
        /\ sb'.free_blocks = sb.free_blocks - Len(N)
        /\ sb' \in [free_blocks : Int, fat_size : Nat, fat_start : Blocks, fat_end : Blocks]
    <3>1. Len(N) \in Int
      BY <1>5, Basics
    <3> QED
      BY <2>2, <3>1 DEF Types
  <2>4. pc'[t] = "attach" /\ reg'[t] = r /\ Live' = Live /\ pc' = [pc EXCEPT ![t] = "attach"]
    BY <1>2, <1>9 DEF Types, Live, Goto
  <2>5. Types'
    <3>1. FAT_NULL \in Blocks
      BY FatAssumption DEF FAT_NULL, Blocks
    <3>2. fat' \in [0..(sb.fat_size - 1) -> Blocks \cup {Cut}]
      BY <2>1, <3>1 DEF Types
    <3> QED
      BY <1>2, <1>9, <2>3, <2>4, <3>2 DEF Types, Steps
  <2>6. /\ DOMAIN fat' = DOMAIN fat /\ fat'[N[Len(N)]] = FAT_NULL
        /\ \A u \in Users : u # New /\ Whole(fat, C[u]) => Whole(fat', C[u])
        /\ Links(fat', N)
    <3>1. Links(fat, N)
      BY <1>4 DEF Allocating
    <3>2. PICK k \in 1..Len(N) : k = Len(N)
      BY <1>7
    <3>3. fat' = [fat EXCEPT ![N[k]] = FAT_NULL] /\ N[k] \in DOMAIN fat
      BY <2>1, <3>2
    <3>4. PICK other : other = fat'
      OBVIOUS
    <3>5. /\ DOMAIN other = DOMAIN fat /\ other[N[k]] = FAT_NULL
          /\ \A u \in Users : u # New /\ Whole(fat, C[u]) => Whole(other, C[u])
          /\ Links(other, N)
      BY <1>5, <3>1, <3>2, <3>3, <3>4, Relinked
    <3> QED
      BY <3>2, <3>4, <3>5
  <2>7. FileChains(t, C)'
    <3> SUFFICES ASSUME NEW g \in Files
                 PROVE  Whole(fat', C[File(g)]) /\ Matches(C[File(g)], Coming(t, g)')
      BY DEF FileChains
    <3>1. File(g) \in Users /\ File(g) # New
      BY UsersAre
    <3>2. Coming(t, g)' = Coming(t, g)
      BY <1>1, <1>9, <2>4 DEF Coming
    <3> QED
      BY <1>3, <2>6, <3>1, <3>2 DEF FileChains
  <2>8. SystemChains(C)'
    <3>1. Table \in Users /\ Table # New /\ Rest \in Users /\ Rest # New
      BY UsersAre
    <3> QED
      BY <1>3, <2>3, <2>6, <3>1 DEF SystemChains, TableShape
  <2>9. Allocator(t, N)'
    <3>1. ~(N[1] >= sb.fat_size)
      <4> SUFFICES ASSUME N[1] >= sb.fat_size PROVE FALSE
        OBVIOUS
      <4>1. Len(N) = 1
        BY <1>3, <1>6 DEF Allocator
      <4>2. N[1] \in 0..(sb.fat_size - 1)
        BY <1>2, <2>1, <4>1
      <4> QED
        BY <1>2, <4>2
    <3> QED
      BY <1>1, <1>3, <1>9, <2>3, <2>4, <3>1 DEF Allocator
  <2>10. AtWork(t, C)'
    <3>1. Ends(fat', N)
      BY <2>1, <2>6 DEF Ends
    <3>2. Allocating(t, N)'
      BY <1>1, <1>4, <1>6, <1>9, <2>4, <2>6, <3>1 DEF Allocating
    <3> QED
      BY <1>4, <2>4, <3>2 DEF AtWork
  <2>11. Counted(t, C)'
    <3>1. PICK c : c = Cardinality(Live)
      OBVIOUS
    <3>2. PICK n : n = Len(N)
      OBVIOUS
    <3>3. sb.fat_size \in Int /\ sb.free_blocks \in Int /\ c \in Int /\ n \in Int
      BY <1>5, <3>1, <3>2, Basics, LiveCounts DEF Types
    <3>4. sb.free_blocks = sb.fat_size - c + (n + 0)
      BY <1>1, <1>3, <1>4, <3>1, <3>2 DEF Counted
    <3>5. sb.free_blocks - n = sb.fat_size - c + 0
      BY <3>3, <3>4
    <3> QED
      BY <2>3, <2>4, <3>1, <3>2, <3>5 DEF Counted
  <2>12. Written(t)'
    BY <1>9 DEF Written
  <2>13. \A f \in Files : AtTheEnd(C[File(f)], C[File(f)])
    BY <1>2, UsersAre, SameAtTheEnd
  <2>14. Own(C, Live)'
    BY <1>3, <2>4
  <2>15. Shape(t, C)'
    BY <2>7, <2>8, <2>9, <2>10, <2>11, <2>12, <2>14 DEF Shape
  <2>16. Passes(t, C, C)
    BY DEF Passes
  <2> QED
    BY <1>1, <1>9, <2>5, <2>13, <2>15, <2>16 DEF Follows
<1> QED
  BY <1>8, <1>9 DEF EndChain

(* The new chain goes behind the file's, or becomes it. *)
LEMMA AttachStep ==
  ASSUME NEW t, Threads = {t}, Types, NEW C, Shape(t, C), Attach(t)
  PROVE  Follows(t, C) \/ Stops(t)
<1> DEFINE r == reg[t]
           f == r.file
           s == C[File(f)]
           N == C[New]
<1>0. PICK D : D = Joined(C, File(f), New)
  OBVIOUS
<1>1. pc[t] = "attach" /\ fault = "none"
  BY DEF Attach, At
<1>2. /\ t \in Threads /\ r \in Locals
      /\ \A h \in Users : C[h] \in Seq(Blocks)
      /\ sb.fat_size \in Nat /\ DOMAIN fat = 0..(sb.fat_size - 1)
  BY Basics
<1>3. /\ Own(C, Live) /\ FileChains(t, C) /\ SystemChains(C) /\ Allocator(t, N)
      /\ AtWork(t, C) /\ Counted(t, C) /\ Written(t)
  BY DEF Shape
<1>4. /\ Allocating(t, N) /\ C[Pend] = <<>> /\ C[Rest] = <<>>
  BY <1>1, <1>3 DEF AtWork
<1>5. /\ f \in Files /\ File(f) \in Users /\ File(f) # Fixed /\ New \in Users /\ New # Fixed
      /\ File(f) # New
  BY <1>4, UsersAre DEF Allocating
<1>6. /\ r.op = "truncate" /\ r.de = entry[f] /\ r.de.blocks # -1 /\ N # <<>> /\ Links(fat, N)
      /\ Ends(fat, N) /\ r.start = First(N) /\ r.want - r.de.blocks = Len(N) + 0
  BY <1>1, <1>4 DEF Allocating
<1>7. /\ Whole(fat, s) /\ First(s) = r.de.start /\ Len(s) = r.de.blocks
      /\ Chain(r.de.start) = s
  <2>1. Coming(t, f) = r.de
    BY <1>1, <1>6 DEF Coming
  <2> QED
    BY <1>3, <1>5, <1>6, <2>1, FileIs DEF FileChains, Matches
<1>8. /\ Len(N) \in 1..Len(N) /\ 1 \in 1..Len(N) /\ First(N) = N[1] /\ Final(N) = N[Len(N)]
      /\ N[Len(N)] \in DOMAIN fat
  BY <1>5, <1>6, FinalIs DEF Ends
<1>9. r.want = Len(s) + Len(N) /\ r.want # -1
  BY <1>2, <1>5, <1>6, <1>7, Basics, FatAssumption, SMTT(30) DEF Locals, Entries
<1>10. /\ D[File(f)] = s \o N /\ D[New] = <<>>
       /\ \A x \in Users : x # File(f) /\ x # New => D[x] = C[x]
  <2>1. DOMAIN C = Users
    BY <1>3 DEF Own
  <2> QED
    BY <1>0, <1>5, <2>1 DEF Joined
<1>11. Len(D[File(f)]) = r.want
  BY <1>2, <1>5, <1>9, <1>10, ConcatProperties
<1>12. UNCHANGED <<sb, next_alloc, freed, entry>> /\ Live' = Live
  BY DEF Attach, Fails, Live
<1>13. CASE Fails("wild")
  BY <1>13 DEF Fails, Stops
<1>14. CASE fault' = "none" /\ pc' = [pc EXCEPT ![t] = "save"]
  <2>1. /\ fat' \in [0..(sb.fat_size - 1) -> Blocks \cup {Cut}]
        /\ \A x \in Users : x # File(f) /\ x # New /\ Whole(fat, C[x]) => Whole(fat', C[x])
        /\ Whole(fat', s \o N)
        /\ \E p \in Blocks : /\ reg' = [reg EXCEPT ![t] = [r EXCEPT !.de.start = p]]
                             /\ First(s \o N) = p
                             /\ p = r.de.start \/ r.de.start = FAT_NULL
        /\ stored' = [part |-> write_fat(fat', sb), sb |-> sb]
    <3>1. CASE /\ r.de.start = FAT_NULL
               /\ reg' = [reg EXCEPT ![t] = [r EXCEPT !.de.start = r.start]]
               /\ UNCHANGED <<fat, stored>>
      <4>1. s = <<>>
        BY <1>5, <1>7, <3>1, FinalIs
      <4>2. s \o N = N
        BY <1>2, <1>5, <4>1, ConcatEmptySeq
      <4>3. r.start \in Blocks
        BY <1>2 DEF Locals
      <4> QED
        BY <1>1, <1>3, <1>6, <3>1, <4>2, <4>3 DEF Types, Whole, Written
    <3>2. CASE /\ r.de.start # FAT_NULL /\ EndsWell(r.de.start)
               /\ fat' = Linked(r)
               /\ stored' = [stored EXCEPT !.part = write_fat(fat', sb)]
               /\ UNCHANGED reg
      <4>1. s # <<>> /\ Len(s) \in 1..Len(s)
        BY <1>5, <1>7, <3>2, FinalIs
      <4>2. last_block(r.de.start) = s[Len(s)] /\ s[Len(s)] \in DOMAIN fat
        BY <1>7, <3>2 DEF last_block, EndsWell, InTable, Last
      <4>3. PICK b : b = r.start
        OBVIOUS
      <4>4. fat' = [fat EXCEPT ![s[Len(s)]] = b] /\ b \in Blocks
        BY <1>2, <3>2, <4>2, <4>3 DEF Linked, Locals
      <4>5. Links(fat, s)
        BY <1>7 DEF Whole
      <4>6. /\ DOMAIN fat' = DOMAIN fat /\ fat'[s[Len(s)]] = b
            /\ \A u \in Users : u # File(f) => /\ Links(fat, C[u]) => Links(fat', C[u])
                                               /\ Whole(fat, C[u]) => Whole(fat', C[u])
            /\ Links(fat', s)
        <5>1. PICK h : h = File(f)
          OBVIOUS
        <5>2. /\ h \in Users /\ Len(C[h]) \in 1..Len(C[h]) /\ C[h][Len(C[h])] \in DOMAIN fat
              /\ fat' = [fat EXCEPT ![C[h][Len(C[h])]] = b] /\ Links(fat, C[h])
          BY <1>5, <4>1, <4>2, <4>4, <4>5, <5>1
        <5>3. /\ DOMAIN fat' = DOMAIN fat /\ fat'[C[h][Len(C[h])]] = b
              /\ \A u \in Users : u # h => /\ Links(fat, C[u]) => Links(fat', C[u])
                                           /\ Whole(fat, C[u]) => Whole(fat', C[u])
              /\ Links(fat', C[h])
          <6>1. PICK k \in 1..Len(C[h]) : k = Len(C[h])
            BY <5>2
          <6>2. PICK other : other = fat'
            OBVIOUS
          <6>3. other = [fat EXCEPT ![C[h][k]] = b] /\ C[h][k] \in DOMAIN fat
            BY <5>2, <6>1, <6>2
          <6>4. /\ DOMAIN other = DOMAIN fat /\ other[C[h][k]] = b
                /\ \A u \in Users : u # h => /\ Links(fat, C[u]) => Links(other, C[u])
                                             /\ Whole(fat, C[u]) => Whole(other, C[u])
                /\ Links(other, C[h])
            <7>1. h \in Users /\ k \in 1..Len(C[h]) /\ k = Len(C[h]) /\ Links(fat, C[h])
              BY <5>2, <6>1
            <7>2. Threads = {t} /\ Types /\ Shape(t, C)
              OBVIOUS
            <7> QED
              BY <6>3, <7>1, <7>2, Relinked, ZenonT(60)
          <6> QED
            BY <6>1, <6>2, <6>4
        <5> QED
          BY <5>1, <5>3
      <4>7. Whole(fat', N)
        BY <1>5, <1>6, <4>6 DEF Whole
      <4>8. fat'[s[Len(s)]] = N[1] /\ s[Len(s)] \in DOMAIN fat'
        BY <1>6, <1>8, <4>2, <4>3, <4>6
      <4>9. Whole(fat', s \o N) /\ First(s \o N) = First(s)
        <5>1. Links(fat', N) /\ Ends(fat', N) /\ s \in Seq(Blocks) /\ N \in Seq(Blocks)
          BY <1>2, <1>5, <4>7 DEF Whole
        <5>2. /\ Links(fat', s \o N)
              /\ Ends(fat', N) => Ends(fat', s \o N)
              /\ First(s \o N) = First(s)
          BY <1>6, <4>1, <4>6, <4>8, <5>1, LinksConcat
        <5> QED
          BY <5>1, <5>2 DEF Whole
      <4>10. fat' \in [0..(sb.fat_size - 1) -> Blocks \cup {Cut}]
        BY <4>4 DEF Types
      <4>11. /\ r.de.start \in Blocks /\ [r EXCEPT !.de.start = r.de.start] = r
             /\ [reg EXCEPT ![t] = r] = reg
        BY <1>2 DEF Locals, Entries, Types
      <4>12. stored' = [part |-> write_fat(fat', sb), sb |-> sb]
        BY <1>1, <1>3, <3>2 DEF Written
      <4>13. reg' = [reg EXCEPT ![t] = [r EXCEPT !.de.start = r.de.start]]
        BY <3>2, <4>11
      <4> QED
        BY <1>7, <4>6, <4>9, <4>10, <4>11, <4>12, <4>13
    <3>3. \/ /\ r.de.start = FAT_NULL
             /\ reg' = [reg EXCEPT ![t] = [r EXCEPT !.de.start = r.start]]
             /\ UNCHANGED <<fat, stored>>
          \/ /\ r.de.start # FAT_NULL /\ EndsWell(r.de.start)
             /\ fat' = Linked(r)
             /\ stored' = [stored EXCEPT !.part = write_fat(fat', sb)]
             /\ UNCHANGED reg
      BY <1>14 DEF Attach, Fails, Set
    <3> QED
      BY <3>1, <3>2, <3>3
  <2>2. PICK p \in Blocks : /\ reg' = [reg EXCEPT ![t] = [r EXCEPT !.de.start = p]]
                            /\ First(s \o N) = p
                            /\ p = r.de.start \/ r.de.start = FAT_NULL
    BY <2>1
  <2>3. PICK q : q = [r EXCEPT !.de.start = p]
    OBVIOUS
  <2>4. /\ q.op = "truncate" /\ q.file = f /\ q.want = r.want /\ q.de.start = p /\ q \in Locals
    BY <1>2, <1>6, <2>3 DEF Locals, Entries
  <2>5. reg'[t] = q /\ pc'[t] = "save"
    BY <1>2, <1>14, <2>2, <2>3 DEF Types
  <2>6. Types'
    BY <1>2, <1>12, <1>14, <2>1, <2>2, <2>3, <2>4 DEF Types, Steps
  <2>7. Own(D, Live')
    BY <1>0, <1>3, <1>5, <1>12, OwnJoin
  <2>8. FileChains(t, D)'
    <3> SUFFICES ASSUME NEW g \in Files
                 PROVE  Whole(fat', D[File(g)]) /\ Matches(D[File(g)], Coming(t, g)')
      BY DEF FileChains
    <3>1. CASE g = f
      <4>1. Coming(t, g)' = [start |-> p, blocks |-> r.want]
        BY <2>4, <2>5, <3>1 DEF Coming
      <4>2. Coming(t, g)'.start = p /\ Coming(t, g)'.blocks = r.want
        BY <4>1
      <4>3. D[File(g)] = s \o N /\ Len(D[File(g)]) = r.want
        BY <1>10, <1>11, <3>1
      <4>4. Whole(fat', D[File(g)]) /\ First(D[File(g)]) = p
        BY <2>1, <2>2, <4>3
      <4> QED
        BY <1>9, <4>2, <4>3, <4>4 DEF Matches
    <3>2. CASE g # f
      <4>1. D[File(g)] = C[File(g)] /\ File(g) \in Users /\ File(g) # File(f) /\ File(g) # New
        BY <1>10, <3>2, UsersAre
      <4>2. Coming(t, g)' = entry[g] /\ Coming(t, g) = entry[g]
        BY <1>1, <1>12, <2>4, <2>5, <3>2 DEF Coming
      <4>3. Whole(fat, C[File(g)]) /\ Matches(C[File(g)], entry[g])
        BY <1>3, <4>2 DEF FileChains
      <4> QED
        BY <2>1, <4>1, <4>2, <4>3
    <3> QED
      BY <3>1, <3>2
  <2>9. /\ D[Table] = C[Table] /\ D[Fixed] = C[Fixed] /\ D[Rest] = C[Rest] /\ D[Pend] = C[Pend]
        /\ Table \in Users /\ Table # New /\ Table # File(f)
        /\ Rest \in Users /\ Rest # New /\ Rest # File(f)
    BY <1>10, UsersAre
  <2>10. SystemChains(D)'
    BY <1>3, <1>12, <2>1, <2>9 DEF SystemChains, TableShape
  <2>11. Allocator(t, D[New])'
    <3>1. ~(N[1] >= sb.fat_size)
      <4> SUFFICES ASSUME N[1] >= sb.fat_size PROVE FALSE
        OBVIOUS
      <4>1. Len(N) = 1
        BY <1>3, <1>6 DEF Allocator
      <4>2. N[1] \in 0..(sb.fat_size - 1)
        BY <1>2, <1>8, <4>1
      <4> QED
        BY <1>2, <4>2
    <3> QED
      BY <1>1, <1>3, <1>10, <1>12, <2>5, <3>1 DEF Allocator
  <2>12. AtWork(t, D)'
    <3>1. Freeing(t, <<>>)'
      BY <1>5, <1>6, <1>12, <2>2, <2>4, <2>5 DEF Freeing
    <3> QED
      BY <1>4, <1>10, <2>5, <2>9, <3>1 DEF AtWork
  <2>13. Counted(t, D)'
    <3>1. sb.free_blocks = sb.fat_size - Cardinality(Live) + 0
      BY <1>1, <1>3 DEF Counted
    <3>2. Len(D[New]) + Len(D[Pend]) = 0
      BY <1>4, <1>10, <2>9
    <3> QED
      BY <1>12, <2>5, <3>1, <3>2 DEF Counted
  <2>14. Written(t)'
    BY <1>12, <2>1 DEF Written
  <2>15. ASSUME NEW g \in Files PROVE AtTheEnd(C[File(g)], D[File(g)])
    <3>1. CASE g = f
      BY <1>2, <1>5, <1>10, <3>1, LongerAtTheEnd
    <3>2. CASE g # f
      <4>1. D[File(g)] = C[File(g)]
        BY <1>10, <3>2, UsersAre
      <4> QED
        BY <1>2, <4>1, UsersAre, SameAtTheEnd
    <3> QED
      BY <3>1, <3>2
  <2>16. Shape(t, D)'
    BY <2>7, <2>8, <2>10, <2>11, <2>12, <2>13, <2>14 DEF Shape
  <2>17. Passes(t, C, D)
    BY <1>0 DEF Passes
  <2> QED
    BY <1>14, <2>6, <2>15, <2>16, <2>17 DEF Follows
<1> QED
  BY <1>1, <1>13, <1>14 DEF Attach, Goto

(* The first block of the rest is freed, its entry read afterwards. *)
LEMMA FreeNextStep ==
  ASSUME NEW t, Threads = {t}, Types, NEW C, Shape(t, C), FreeNext(t)
  PROVE  Follows(t, C) \/ Stops(t)
<1> DEFINE r == reg[t]
           b == r.cur
           R == C[Rest]
           n == IF b = next_alloc - 1 THEN next_alloc - 1 ELSE next_alloc
           f == IF b = next_alloc - 1 THEN freed ELSE freed \cup {b}
           q == [r EXCEPT !.cur = fat[b]]
<1>0. PICK D : D = Popped(C, Rest)
  OBVIOUS
<1>1. pc[t] = "free" /\ fault = "none" /\ b # FAT_NULL
  BY DEF FreeNext, At
<1>2. /\ t \in Threads /\ r \in Locals /\ next_alloc \in Nat /\ next_alloc <= MaxBlocks
      /\ Live \subseteq Blocks
      /\ \A h \in Users : C[h] \in Seq(Blocks)
      /\ sb.fat_size \in Nat /\ DOMAIN fat = 0..(sb.fat_size - 1)
  BY Basics
<1>3. /\ Own(C, Live) /\ FileChains(t, C) /\ SystemChains(C) /\ Allocator(t, C[New])
      /\ AtWork(t, C) /\ Counted(t, C)
  BY DEF Shape
<1>4. /\ Freeing(t, R) /\ C[New] = <<>> /\ C[Pend] = <<>> /\ Whole(fat, R)
  BY <1>1, <1>3 DEF AtWork, SystemChains
<1>5. Rest \in Users /\ Rest # Fixed /\ New # Rest /\ Pend # Rest /\ New \in Users /\ Pend \in Users
  BY UsersAre
<1>6. ASSUME b # Cut
      PROVE  /\ R # <<>> /\ b = R[1] /\ b \in Live /\ b \in DOMAIN fat /\ Len(R) \in Nat \ {0}
  <2>1. R # <<>> /\ b = R[1]
    BY <1>1, <1>4, <1>6 DEF Freeing
  <2>2. Len(R) \in Nat \ {0} /\ 1 \in 1..Len(R)
    BY <1>5, <2>1, Basics
  <2>3. b \in Live
    BY <1>5, <2>1, <2>2, Basics
  <2>4. b \in DOMAIN fat
    <3>1. CASE Len(R) = 1
      BY <1>4, <2>1, <3>1 DEF Whole, Ends
    <3>2. CASE Len(R) # 1
      <4>1. 1 \in 1..(Len(R) - 1)
        <5>1. \A k \in Nat \ {0} : k # 1 => 1 \in 1..(k - 1)
          OBVIOUS
        <5> QED
          BY <2>2, <3>2, <5>1
      <4> QED
        BY <1>4, <2>1, <4>1 DEF Whole, Links
    <3> QED
      BY <3>1, <3>2
  <2> QED
    BY <2>1, <2>2, <2>3, <2>4
<1>7. CASE b = Cut /\ Fails("wild")
  BY <1>7 DEF Fails, Stops
<1>8. CASE b \in freed /\ Fails("twice")
  <2>1. b # Cut
    BY <1>8, FatAssumption DEF Types, Blocks, Cut
  <2> QED
    BY <1>6, <1>8, <2>1 DEF Live
<1>9. CASE /\ b \notin freed \cup {Cut}
           /\ \E m \in 0..next_alloc :
                CleanedTo(n, f, m) /\ next_alloc' = m /\ freed' = f \ (m..(n - 1))
           /\ sb' = [sb EXCEPT !.free_blocks = @ + 1]
           /\ reg' = [reg EXCEPT ![t] = q]
           /\ UNCHANGED <<fat, entry, stored, pc, fault>>
  <2>1. PICK m \in 0..next_alloc :
          CleanedTo(n, f, m) /\ next_alloc' = m /\ freed' = f \ (m..(n - 1))
    BY <1>9
  <2>2. /\ R # <<>> /\ b = R[1] /\ b \in Live /\ b \in DOMAIN fat /\ Len(R) \in Nat \ {0}
    BY <1>6, <1>9
  <2>3. b \in Blocks /\ b \in Nat /\ b < next_alloc /\ b \notin freed
    BY <1>2, <2>2, FatAssumption DEF Live, Blocks
  <2>4. /\ \A x \in freed : x \in Blocks /\ x \in Nat /\ x < next_alloc /\ x < sb.fat_size
        /\ next_alloc - 1 \notin freed /\ next_alloc <= sb.fat_size
    <3>1. next_alloc <= sb.fat_size + 0 + 0
      BY <1>1, <1>3, <1>4 DEF Allocator
    <3>2. \A x \in freed : x \in Blocks /\ x \in Nat
      BY FatAssumption DEF Types, Blocks
    <3> QED
      BY <1>2, <1>3, <3>1, <3>2 DEF Allocator
  <2>5. /\ n \in Nat /\ n <= next_alloc
        /\ \A x \in f : x \in Blocks /\ x \in Nat /\ x < n /\ x < sb.fat_size
        /\ \A x \in Nat : x < n /\ x \notin f <=> x < next_alloc /\ x \notin freed /\ x # b
    <3>1. CASE b = next_alloc - 1
      BY <1>2, <2>3, <2>4, <3>1
    <3>2. CASE b # next_alloc - 1
      BY <1>2, <2>3, <2>4, <3>2
    <3> QED
      BY <3>1, <3>2
  <2> HIDE DEF n, f
  <2>6. m \in Nat /\ m <= n /\ m - 1 \notin f /\ \A x \in m..(n - 1) : x \in f
    BY <1>2, <2>1 DEF CleanedTo
  <2>7. \A x \in Nat : x < m /\ x \notin freed' <=> x < n /\ x \notin f
    BY <2>1, <2>5, <2>6
  <2>8. Live' = Live \ {b}
    <3>1. \A x \in Blocks : x \in Nat
      BY FatAssumption DEF Blocks
    <3>2. \A x \in Blocks : x < m /\ x \notin freed' <=> x < next_alloc /\ x \notin freed /\ x # b
      BY <2>5, <2>7, <3>1
    <3> QED
      BY <2>1, <3>2 DEF Live
  <2>9. freed' \subseteq Blocks /\ next_alloc' \in 0..MaxBlocks
    BY <1>2, <2>1, <2>5, FatAssumption
  <2>10. /\ sb'.fat_size = sb.fat_size /\ sb'.fat_start = sb.fat_start /\ sb'.fat_end = sb.fat_end
         /\ sb'.free_blocks = sb.free_blocks + 1
         /\ sb' \in [free_blocks : Int, fat_size : Nat, fat_start : Blocks, fat_end : Blocks]
    BY <1>9 DEF Types
  <2>11. /\ q \in Locals /\ q.op = r.op /\ q.file = r.file /\ q.de = r.de /\ q.want = r.want
         /\ q.cur = fat[b]
    <3>1. fat[b] \in Blocks \cup {Cut}
      BY <2>2 DEF Types
    <3> QED
      BY <1>2, <3>1 DEF Locals
  <2> HIDE DEF q
  <2>12. reg'[t] = q /\ pc'[t] = "free"
    BY <1>1, <1>2, <1>9 DEF Types
  <2>13. Types'
    BY <1>2, <1>9, <2>9, <2>10, <2>11 DEF Types
  <2>14. D[Rest] = Tail(R) /\ \A x \in Users : x # Rest => D[x] = C[x]
    <3>1. DOMAIN C = Users
      BY <1>3 DEF Own
    <3> QED
      BY <1>0, <1>5, <3>1 DEF Popped
  <2>15. Own(D, Live')
    BY <1>0, <1>3, <1>5, <2>2, <2>8, OwnPop
  <2>16. /\ Tail(R) \in Seq(Blocks) /\ Len(Tail(R)) = Len(R) - 1
         /\ \A i \in 1..Len(Tail(R)) : Tail(R)[i] = R[i + 1]
    BY <1>2, <1>5, <2>2, HeadTailProperties
  <2>17. Whole(fat, Tail(R))
    <3>1. PICK p : p = Tail(R)
      OBVIOUS
    <3>2. /\ p \in Seq(Blocks) /\ 1 \in Nat /\ 1 + Len(p) = Len(R) /\ 1 + Len(p) <= Len(R)
          /\ \A i \in 1..Len(p) : p[i] = R[1 + i]
          /\ R \in Seq(Blocks) /\ Links(fat, R) /\ Ends(fat, R)
      BY <1>2, <1>4, <1>5, <2>2, <2>16, <3>1 DEF Whole
    <3>3. Links(fat, p) /\ Ends(fat, p)
      BY <3>2, LinksPart
    <3> QED
      BY <3>1, <3>3 DEF Whole
  <2>18. IF Tail(R) = <<>> THEN fat[b] \in {FAT_NULL, Cut} ELSE fat[b] = Tail(R)[1]
    <3>0. PICK k : k = Len(R)
      OBVIOUS
    <3>1. Tail(R) = <<>> <=> k = 1
      <4>1. k \in Nat \ {0} /\ Len(Tail(R)) = k - 1
        BY <2>2, <2>16, <3>0
      <4>2. Tail(R) = <<>> <=> Len(Tail(R)) = 0
        BY <2>16, EmptySeq
      <4>3. k - 1 = 0 <=> k = 1
        BY <4>1
      <4> QED
        BY <4>1, <4>2, <4>3, Zenon
    <3>2. CASE k = 1
      BY <1>4, <2>2, <3>0, <3>1, <3>2 DEF Whole, Ends
    <3>3. CASE k # 1
      <4>1. 1 \in 1..(Len(R) - 1) /\ 1 \in 1..Len(Tail(R))
        <5>1. \A l \in Nat \ {0} : l # 1 => 1 \in 1..(l - 1)
          OBVIOUS
        <5> QED
          BY <2>2, <2>16, <3>0, <3>3, <5>1
      <4>2. fat[b] = R[1 + 1] /\ Tail(R)[1] = R[1 + 1]
        BY <1>4, <2>2, <2>16, <4>1 DEF Whole, Links
      <4> QED
        BY <3>1, <3>3, <4>2
    <3> QED
      BY <3>2, <3>3
  <2>19. D[New] = <<>> /\ D[Pend] = <<>> /\ D[Table] = C[Table] /\ D[Fixed] = C[Fixed]
    BY <1>4, <2>14, UsersAre
  <2>20. FileChains(t, D)'
    <3> SUFFICES ASSUME NEW g \in Files
                 PROVE  Whole(fat, D[File(g)]) /\ Matches(D[File(g)], Coming(t, g)')
      BY <1>9 DEF FileChains
    <3>1. D[File(g)] = C[File(g)]
      BY <2>14, UsersAre
    <3>2. Coming(t, g)' = Coming(t, g)
      BY <1>1, <1>9, <2>11, <2>12 DEF Coming
    <3> QED
      BY <1>3, <3>1, <3>2 DEF FileChains
  <2>21. SystemChains(D)'
    BY <1>3, <1>9, <2>10, <2>14, <2>17, <2>19 DEF SystemChains, TableShape
  <2>22. Allocator(t, D[New])'
    <3>1. /\ \A x \in freed' : x < next_alloc' /\ x < sb.fat_size
          /\ next_alloc' - 1 \notin freed' /\ next_alloc' <= sb.fat_size + 0 + 0
      BY <1>2, <2>1, <2>4, <2>5, <2>6
    <3> QED
      BY <2>10, <2>12, <2>19, <3>1 DEF Allocator
  <2>23. AtWork(t, D)'
    <3>1. Freeing(t, D[Rest])'
      BY <1>1, <1>4, <1>9, <2>11, <2>12, <2>14, <2>18 DEF Freeing
    <3> QED
      BY <2>12, <2>19, <3>1 DEF AtWork
  <2>24. Counted(t, D)'
    <3>1. PICK c : c = Cardinality(Live)
      OBVIOUS
    <3>2. sb.fat_size \in Int /\ sb.free_blocks \in Int /\ c \in Int
      BY <3>1, LiveCounts DEF Types
    <3>3. sb.free_blocks = sb.fat_size - c + (0 + 0)
      BY <1>1, <1>3, <1>4, <3>1 DEF Counted
    <3>4. sb.free_blocks + 1 = sb.fat_size - (c - 1) + (0 + 0)
      BY <3>2, <3>3
    <3>5. Cardinality(Live') = c - 1
      BY <2>2, <2>8, <3>1, LiveCounts
    <3> QED
      BY <2>10, <2>12, <2>19, <3>4, <3>5 DEF Counted
  <2>25. Written(t)'
    BY <2>12 DEF Written
  <2>26. \A g \in Files : AtTheEnd(C[File(g)], D[File(g)])
    BY <1>2, <2>14, UsersAre, SameAtTheEnd
  <2>27. Shape(t, D)'
    BY <2>15, <2>20, <2>21, <2>22, <2>23, <2>24, <2>25 DEF Shape
  <2>28. Passes(t, C, D)
    BY <1>0 DEF Passes
  <2> QED
    BY <1>1, <1>9, <2>13, <2>26, <2>27, <2>28 DEF Follows
<1> QED
  BY <1>7, <1>8, <1>9 DEF FreeNext, Set

(* The chain of the file is cut in two, unless it is to be freed whole. *)
LEMMA ShrinkStep ==
  ASSUME NEW t, Threads = {t}, Types, NEW C, Shape(t, C), NEW f \in Files,
         NEW n \in 0..MaxFile, Shrink(t, f, n)
  PROVE  Follows(t, C)
<1> DEFINE e == entry[f]
           s == C[File(f)]
           r == [NoLocals EXCEPT !.op = "truncate", !.file = f, !.want = n]
<1>0. PICK D : D = Divided(C, File(f), Rest, n)
  OBVIOUS
<1>1. pc[t] = "idle" /\ fault = "none" /\ Exists(f) /\ n < e.blocks
  BY DEF Shrink, At
<1>2. /\ t \in Threads /\ \A h \in Users : C[h] \in Seq(Blocks)
      /\ sb.fat_size \in Nat /\ DOMAIN fat = 0..(sb.fat_size - 1)
  BY Basics
<1>3. /\ Own(C, Live) /\ FileChains(t, C) /\ SystemChains(C) /\ Allocator(t, C[New])
      /\ AtWork(t, C) /\ Counted(t, C)
  BY DEF Shape
<1>4. C[New] = <<>> /\ C[Pend] = <<>> /\ C[Rest] = <<>>
  BY <1>1, <1>3 DEF AtWork
<1>5. /\ File(f) \in Users /\ File(f) # Fixed /\ Rest \in Users /\ File(f) # Rest
      /\ New \in Users /\ Pend \in Users /\ Table \in Users /\ Table # Rest /\ Table # File(f)
  BY UsersAre
<1>6. /\ Whole(fat, s) /\ First(s) = e.start /\ Len(s) = e.blocks /\ Chain(e.start) = s
      /\ e.blocks # -1
  <2>1. Coming(t, f) = e
    BY <1>1 DEF Coming
  <2> QED
    BY <1>1, <1>3, <2>1, ExistsIs, FileIs DEF FileChains, Matches
<1>7. /\ Len(s) \in Nat /\ n < Len(s) /\ n \in 0..Len(s) /\ s # <<>> /\ e \in Entries
      /\ 1 \in 1..Len(s) /\ First(s) = s[1]
  <2>1. Len(s) \in Nat /\ n < Len(s) /\ n \in Nat /\ e \in Entries
    BY <1>1, <1>5, <1>6, Basics, FatAssumption DEF Types
  <2>2. s # <<>>
    BY <1>5, <2>1, Basics
  <2>3. n \in 0..Len(s)
    BY <2>1
  <2>4. 1 \in 1..Len(s) /\ First(s) = s[1]
    BY <1>5, <2>2, FinalIs
  <2> QED
    BY <2>1, <2>2, <2>3, <2>4
<1>8. /\ D[File(f)] = SubSeq(s, 1, n) /\ D[Rest] = SubSeq(s, n + 1, Len(s))
      /\ \A x \in Users : x # File(f) /\ x # Rest => D[x] = C[x]
  <2>1. DOMAIN C = Users
    BY <1>3 DEF Own
  <2> QED
    BY <1>0, <1>5, <2>1 DEF Divided
<1>9. /\ D[File(f)] \in Seq(Blocks) /\ Len(D[File(f)]) = n
      /\ \A i \in 1..n : D[File(f)][i] = s[i]
      /\ D[Rest] \in Seq(Blocks) /\ Len(D[Rest]) = Len(s) - n
      /\ \A i \in 1..(Len(s) - n) : D[Rest][i] = s[n + i]
      /\ AtTheEnd(s, D[File(f)])
  <2>1. s \in Seq(Blocks) /\ n \in 0..Len(s)
    BY <1>2, <1>5, <1>7
  <2>2. /\ SubSeq(s, 1, n) \in Seq(Blocks) /\ Len(SubSeq(s, 1, n)) = n
        /\ \A i \in 1..n : SubSeq(s, 1, n)[i] = s[i]
        /\ SubSeq(s, n + 1, Len(s)) \in Seq(Blocks)
        /\ Len(SubSeq(s, n + 1, Len(s))) = Len(s) - n
        /\ \A i \in 1..(Len(s) - n) : SubSeq(s, n + 1, Len(s))[i] = s[n + i]
        /\ AtTheEnd(s, SubSeq(s, 1, n))
    BY <2>1, Parts
  <2> QED
    BY <1>8, <2>2
<1>10. PICK m : m = Len(s)
  OBVIOUS
<1>11. m \in Nat /\ n \in Nat /\ n < m /\ m - n \in Nat \ {0} /\ 1 \in 1..(m - n) /\ n + 1 \in 1..m
  BY <1>7, <1>10
<1>12. D[Rest] # <<>> /\ D[Rest][1] = s[n + 1] /\ (n # 0 => D[File(f)] # <<>>)
  <2>1. Len(D[Rest]) # 0 /\ (n # 0 => Len(D[File(f)]) # 0)
    BY <1>9, <1>10, <1>11
  <2> QED
    BY <1>9, <1>10, <1>11, <2>1, EmptySeq
<1>13. UNCHANGED <<sb, next_alloc, freed, entry, stored>> /\ Live' = Live
  BY DEF Shrink, Fails, Live
<1>14. /\ fault' = "none" /\ pc' = [pc EXCEPT ![t] = "free"]
       /\ fat' \in [0..(sb.fat_size - 1) -> Blocks \cup {Cut}]
       /\ \A x \in Users : x # File(f) /\ Whole(fat, C[x]) => Whole(fat', C[x])
       /\ Whole(fat', D[File(f)]) /\ Whole(fat', D[Rest])
       /\ \E p, c \in Blocks : /\ reg' = [reg EXCEPT ![t] = [r EXCEPT !.de = [e EXCEPT !.start = p],
                                                                     !.cur = c]]
                               /\ First(D[File(f)]) = p /\ c = D[Rest][1]
                               /\ p = e.start \/ p = FAT_NULL
  <2>1. CASE /\ n = 0
             /\ reg' = [reg EXCEPT ![t] = [r EXCEPT !.de = [e EXCEPT !.start = FAT_NULL],
                                                    !.cur = e.start]]
             /\ pc' = [pc EXCEPT ![t] = "free"]
             /\ UNCHANGED <<fat, fault>>
    <3>1. D[File(f)] = <<>> /\ D[Rest] = s
      <4>1. SubSeq(s, 1, 0) = <<>> /\ SubSeq(s, 0 + 1, Len(s)) = s
        BY <1>2, <1>5, SubSeqEmpty, SubSeqFull
      <4> QED
        BY <1>8, <2>1, <4>1
    <3>2. Whole(fat, <<>>) /\ First(<<>>) = FAT_NULL
      <4>1. Len(<<>>) = 0
        OBVIOUS
      <4> QED
        BY <4>1 DEF Whole, Links, Ends, First
    <3>3. FAT_NULL \in Blocks /\ e.start \in Blocks /\ e.start = s[1]
      <4>1. FAT_NULL \in Blocks
        BY FatAssumption DEF FAT_NULL, Blocks
      <4>2. e.start \in Blocks
        BY <1>7 DEF Entries
      <4> QED
        BY <1>6, <1>7, <4>1, <4>2
    <3>4. /\ fault' = "none" /\ pc' = [pc EXCEPT ![t] = "free"] /\ fat' = fat
          /\ fat \in [0..(sb.fat_size - 1) -> Blocks \cup {Cut}]
      BY <1>1, <2>1 DEF Types
    <3>5. \E p, c \in Blocks : /\ reg' = [reg EXCEPT ![t] = [r EXCEPT !.de = [e EXCEPT !.start = p],
                                                                     !.cur = c]]
                               /\ First(D[File(f)]) = p /\ c = D[Rest][1]
                               /\ p = e.start \/ p = FAT_NULL
      BY <2>1, <3>1, <3>2, <3>3
    <3> QED
      BY <1>6, <3>1, <3>2, <3>4, <3>5
  <2>2. CASE /\ 0 < n
             /\ nth_block(e.start, n - 1) \in DOMAIN fat
             /\ reg' = [reg EXCEPT ![t] = [r EXCEPT !.de = e, !.cur = fat[nth_block(e.start, n - 1)]]]
             /\ fat' = [fat EXCEPT ![nth_block(e.start, n - 1)] = Cut]
             /\ pc' = [pc EXCEPT ![t] = "free"]
             /\ UNCHANGED fault
    <3>1. nth_block(e.start, n - 1) = s[n]
      BY <1>6, <1>11 DEF nth_block
    <3>2. s[n] \in DOMAIN fat /\ fat' = [fat EXCEPT ![s[n]] = Cut] /\ n \in 1..m
      <4>1. n \in 1..m
        BY <1>11, <2>2
      <4> QED
        BY <2>2, <3>1, <4>1
    <3>3. fat[s[n]] = s[n + 1] /\ s[n + 1] \in Blocks
      <4>1. n \in 1..(Len(s) - 1) /\ n + 1 \in 1..Len(s)
        BY <1>10, <1>11, <3>2
      <4> QED
        BY <1>2, <1>5, <1>6, <4>1, ElementOfSeq DEF Whole, Links
    <3>4. /\ DOMAIN fat' = DOMAIN fat /\ fat'[s[n]] = Cut
          /\ \A x \in Users : x # File(f) /\ Whole(fat, C[x]) => Whole(fat', C[x])
          /\ \A i \in 1..m : i # n /\ s[i] \in DOMAIN fat => fat'[s[i]] = fat[s[i]]
      <4>1. PICK h : h = File(f)
        OBVIOUS
      <4>0. PICK v : v = Cut
        OBVIOUS
      <4>2. /\ h \in Users /\ n \in 1..Len(C[h]) /\ C[h][n] \in DOMAIN fat
            /\ fat' = [fat EXCEPT ![C[h][n]] = v]
        BY <1>5, <1>10, <3>2, <4>0, <4>1
      <4>3. /\ DOMAIN fat' = DOMAIN fat /\ fat'[C[h][n]] = v
            /\ \A x \in Users : x # h /\ Whole(fat, C[x]) => Whole(fat', C[x])
            /\ \A i \in 1..Len(C[h]) : i # n /\ C[h][i] \in DOMAIN fat =>
                 fat'[C[h][i]] = fat[C[h][i]]
        <5>1. DOMAIN fat' = DOMAIN fat /\ fat'[C[h][n]] = v
          BY <4>2, Relinked
        <5>2. \A x \in Users : x # h /\ Whole(fat, C[x]) => Whole(fat', C[x])
          BY <4>2, Relinked
        <5>3. ASSUME NEW i \in 1..Len(C[h]), i # n, C[h][i] \in DOMAIN fat
              PROVE  fat'[C[h][i]] = fat[C[h][i]]
          BY <4>2, <5>3, Relinked
        <5> QED
          BY <5>1, <5>2, <5>3
      <4> QED
        BY <1>10, <4>0, <4>1, <4>3
    <3>5. \A i \in 1..(m - 1) : s[i] \in DOMAIN fat /\ fat[s[i]] = s[i + 1]
      BY <1>6, <1>10 DEF Whole, Links
    <3>6. Whole(fat', D[File(f)])
      <4>1. ASSUME NEW i \in 1..(n - 1)
            PROVE  D[File(f)][i] \in DOMAIN fat' /\ fat'[D[File(f)][i]] = D[File(f)][i + 1]
        <5>1. /\ i \in 1..n /\ i + 1 \in 1..n /\ i \in 1..m /\ i # n /\ i \in 1..(m - 1)
          BY <1>11, <3>2
        <5>2. D[File(f)][i] = s[i] /\ D[File(f)][i + 1] = s[i + 1]
          BY <1>9, <5>1
        <5> QED
          BY <3>4, <3>5, <5>1, <5>2
      <4>2. D[File(f)][n] = s[n]
        BY <1>9, <1>11, <3>2
      <4> QED
        BY <1>9, <3>2, <3>4, <4>1, <4>2 DEF Whole, Links, Ends
    <3>7. Whole(fat', D[Rest])
      <4>1. \A i \in 1..Len(D[Rest]) : D[Rest][i] \in DOMAIN fat =>
              D[Rest][i] \in DOMAIN fat' /\ fat'[D[Rest][i]] = fat[D[Rest][i]]
        <5> TAKE i \in 1..Len(D[Rest])
        <5>1. i \in 1..(m - n)
          BY <1>9, <1>10
        <5>2. n + i \in 1..m /\ n + i # n
          BY <1>11, <5>1
        <5>3. D[Rest][i] = s[n + i]
          BY <1>9, <1>10, <5>1
        <5> QED
          BY <3>4, <5>2, <5>3
      <4>2. Whole(fat, D[Rest])
        <5>1. PICK p : p = D[Rest]
          OBVIOUS
        <5>2. /\ p \in Seq(Blocks) /\ n + Len(p) = Len(s) /\ n + Len(p) <= Len(s)
              /\ \A i \in 1..Len(p) : p[i] = s[n + i]
              /\ s \in Seq(Blocks) /\ Links(fat, s) /\ Ends(fat, s) /\ n \in Nat
          <6>1. Len(p) = m - n
            BY <1>9, <1>10, <5>1
          <6>2. n + (m - n) = m /\ m <= m
            BY <1>11
          <6>3. n + Len(p) = Len(s) /\ n + Len(p) <= Len(s)
            BY <1>10, <6>1, <6>2
          <6> QED
            BY <1>2, <1>5, <1>6, <1>9, <1>10, <1>11, <5>1, <6>1, <6>3 DEF Whole
        <5>3. Links(fat, p) /\ Ends(fat, p)
          BY <5>2, LinksPart
        <5> QED
          BY <5>1, <5>3 DEF Whole
      <4> QED
        BY <1>9, <4>1, <4>2, LinksKept
    <3>8. e = [e EXCEPT !.start = e.start] /\ e.start \in Blocks
      BY <1>7 DEF Entries
    <3>9. First(D[File(f)]) = e.start
      <4>1. 1 \in 1..n
        BY <1>11, <3>2
      <4> QED
        <5>1. D[File(f)] # <<>> /\ D[File(f)][1] = s[1]
          <6>1. n # 0
            BY <1>11, <2>2
          <6> QED
            BY <1>9, <1>12, <4>1, <6>1
        <5> QED
          BY <1>6, <1>7, <5>1 DEF First
    <3>10. fat' \in [0..(sb.fat_size - 1) -> Blocks \cup {Cut}]
      BY <3>2 DEF Types
    <3>11. reg' = [reg EXCEPT ![t] = [r EXCEPT !.de = [e EXCEPT !.start = e.start],
                                               !.cur = s[n + 1]]]
      BY <2>2, <3>1, <3>3, <3>8
    <3> QED
      BY <1>1, <1>12, <2>2, <3>3, <3>4, <3>6, <3>7, <3>8, <3>9, <3>10, <3>11
  <2>3. ~(n > Len(Chain(e.start)))
    BY <1>6, <1>7
  <2> QED
    BY <2>1, <2>2, <2>3 DEF Shrink, Set, Goto
<1>15. PICK p \in Blocks, c \in Blocks :
         /\ reg' = [reg EXCEPT ![t] = [r EXCEPT !.de = [e EXCEPT !.start = p], !.cur = c]]
         /\ First(D[File(f)]) = p /\ c = D[Rest][1]
         /\ p = e.start \/ p = FAT_NULL
  BY <1>14
<1>16. PICK q : q = [r EXCEPT !.de = [e EXCEPT !.start = p], !.cur = c]
  OBVIOUS
<1>17. /\ q.op = "truncate" /\ q.file = f /\ q.want = n /\ q.de.start = p /\ q.cur = c
       /\ q \in Locals
  <2>1. [e EXCEPT !.start = p] \in Entries /\ [e EXCEPT !.start = p].start = p
    BY <1>7 DEF Entries
  <2>2. r \in Locals /\ r.op = "truncate" /\ r.file = f /\ r.want = n
    <3>1. NoLocals \in Locals
      BY FatAssumption DEF NoLocals, NoEntry, Locals, Entries, FAT_NULL, Blocks
    <3> QED
      BY <3>1 DEF Locals
  <2> HIDE DEF r, e
  <2> QED
    BY <1>16, <2>1, <2>2 DEF Locals
<1> HIDE DEF r
<1>18. reg'[t] = q /\ pc'[t] = "free"
  BY <1>2, <1>14, <1>15, <1>16 DEF Types
<1>19. Types'
  BY <1>2, <1>13, <1>14, <1>15, <1>16, <1>17 DEF Types, Steps
<1>20. Own(D, Live')
  BY <1>0, <1>3, <1>4, <1>5, <1>7, <1>13, OwnDivide
<1>21. /\ D[New] = <<>> /\ D[Pend] = <<>> /\ D[Table] = C[Table] /\ D[Fixed] = C[Fixed]
  BY <1>4, <1>8, UsersAre
<1>22. FileChains(t, D)'
  <2> SUFFICES ASSUME NEW g \in Files
               PROVE  Whole(fat', D[File(g)]) /\ Matches(D[File(g)], Coming(t, g)')
    BY DEF FileChains
  <2>1. CASE g = f
    <3>1. Coming(t, g)'.start = p /\ Coming(t, g)'.blocks = n
      BY <1>17, <1>18, <2>1 DEF Coming
    <3>2. n # -1
      BY <1>11
    <3> QED
      BY <1>9, <1>14, <1>15, <2>1, <3>1, <3>2 DEF Matches
  <2>2. CASE g # f
    <3>1. D[File(g)] = C[File(g)] /\ File(g) \in Users /\ File(g) # File(f)
      BY <1>8, <2>2, UsersAre
    <3>2. Coming(t, g)' = entry[g] /\ Coming(t, g) = entry[g]
      BY <1>1, <1>13, <1>17, <1>18, <2>2 DEF Coming
    <3>3. Whole(fat, C[File(g)]) /\ Matches(C[File(g)], entry[g])
      BY <1>3, <3>2 DEF FileChains
    <3> QED
      BY <1>14, <3>1, <3>2, <3>3
  <2> QED
    BY <2>1, <2>2
<1>23. SystemChains(D)'
  BY <1>3, <1>5, <1>13, <1>14, <1>21 DEF SystemChains, TableShape
<1>24. Allocator(t, D[New])' /\ Counted(t, D)' /\ Written(t)'
  BY <1>1, <1>3, <1>4, <1>13, <1>18, <1>21 DEF Allocator, Counted, Written
<1>25. AtWork(t, D)'
  <2>1. Freeing(t, D[Rest])'
    BY <1>6, <1>12, <1>13, <1>15, <1>17, <1>18 DEF Freeing
  <2> QED
    BY <1>18, <1>21, <2>1 DEF AtWork
<1>26. ASSUME NEW g \in Files PROVE AtTheEnd(C[File(g)], D[File(g)])
  <2>1. CASE g = f
    BY <1>9, <2>1
  <2>2. CASE g # f
    <3>1. D[File(g)] = C[File(g)]
      BY <1>8, <2>2, UsersAre
    <3> QED
      BY <1>2, <3>1, UsersAre, SameAtTheEnd
  <2> QED
    BY <2>1, <2>2
<1>27. Shape(t, D)'
  BY <1>20, <1>22, <1>23, <1>24, <1>25 DEF Shape
<1>28. Passes(t, C, D)
  BY <1>0, <1>7 DEF Passes
<1> QED
  BY <1>14, <1>19, <1>26, <1>27, <1>28 DEF Follows

(* The table grows by a block, which joins its own chain. *)
LEMMA ExpandStep ==
  ASSUME NEW t, Threads = {t}, Types, NEW C, Shape(t, C), Expand(t)
  PROVE  Follows(t, C)
<1> DEFINE r == reg[t]
           N == C[New]
           T == C[Table]
           fs == sb.fat_size
           b == next_alloc
<1>0. PICK D : D = Added(C, Table, b)
  OBVIOUS
<1>1. /\ pc[t] = "place" /\ fault = "none" /\ ~(r.new < fs) /\ NewBlock < MaxBlocks
      /\ next_alloc' = IF freed = {} THEN next_alloc + 1 ELSE next_alloc
      /\ freed' = freed \ {NewBlock}
      /\ fat' = [Longer EXCEPT ![sb.fat_end] = NewBlock]
      /\ sb' = Grown
      /\ UNCHANGED <<entry, stored, pc, reg, fault>>
  BY DEF Expand, At, InSize
<1>2. /\ t \in Threads /\ r \in Locals /\ b \in Nat
      /\ Live \subseteq Blocks
      /\ \A h \in Users : C[h] \in Seq(Blocks) /\ Len(C[h]) \in Nat
      /\ fs \in Nat /\ DOMAIN fat = 0..(fs - 1)
  BY Basics
<1>3. /\ Own(C, Live) /\ FileChains(t, C) /\ SystemChains(C) /\ Allocator(t, N)
      /\ AtWork(t, C) /\ Counted(t, C)
  BY DEF Shape
<1>4. Allocating(t, N) /\ C[Pend] = <<r.new>> /\ C[Rest] = <<>>
  BY <1>1, <1>3 DEF AtWork
<1>5. /\ Table \in Users /\ New \in Users /\ Pend \in Users /\ Rest \in Users
      /\ Table # New /\ Table # Pend /\ Table # Rest /\ Table # Fixed
      /\ New # Fixed /\ Pend # Fixed /\ Fixed \in Users
  BY UsersAre
<1>6. /\ Whole(fat, T) /\ T # <<>> /\ T[1] = sb.fat_start /\ T[Len(T)] = sb.fat_end
      /\ fs = FAT_PER_BLOCK * Len(T) /\ \A k \in 1..Len(T) : T[k] < k * FAT_PER_BLOCK
  BY <1>3 DEF SystemChains, TableShape
<1>7. /\ Len(T) \in 1..Len(T) /\ 1 \in 1..Len(T) /\ sb.fat_end \in DOMAIN fat
      /\ sb.fat_end \in Live
  <2>1. Len(T) \in 1..Len(T) /\ 1 \in 1..Len(T)
    BY <1>5, <1>6, FinalIs
  <2>2. sb.fat_end \in DOMAIN fat
    BY <1>6 DEF Whole, Ends
  <2>3. sb.fat_end \in Live
    BY <1>5, <1>6, <2>1, Basics
  <2> QED
    BY <2>1, <2>2, <2>3
<1>8. r.new \in Live /\ r.new \in Nat /\ r.new < b /\ r.new >= fs
  <2>1. 1 \in 1..Len(C[Pend]) /\ C[Pend][1] = r.new
    BY <1>4
  <2>2. r.new \in Live
    BY <1>5, <2>1, Basics
  <2>3. r.new \in Nat
    BY <1>2, FatAssumption DEF Locals, Blocks
  <2> QED
    BY <1>1, <1>2, <2>2, <2>3 DEF Live
<1>9. freed = {} /\ NewBlock = b /\ b \notin Live /\ b < MaxBlocks /\ b \in Blocks
  <2>1. freed = {}
    BY <1>1, <1>3, <1>8 DEF Allocator
  <2>2. NewBlock = b /\ b \notin Live
    BY <2>1, NewBlockIs
  <2> QED
    BY <1>1, <1>2, <2>1, <2>2, FatAssumption DEF Blocks
<1>10. b > fs /\ b <= fs + 2 /\ FAT_PER_BLOCK \in Nat /\ FAT_PER_BLOCK > 2
  <2>1. b <= fs + (IF N # <<>> /\ N[1] >= fs THEN 1 ELSE 0)
                + (IF pc[t] = "place" /\ r.new >= fs THEN 1 ELSE 0)
    BY <1>3 DEF Allocator
  <2>2. b <= fs + 1 + 1
    <3>1. CASE N # <<>> /\ N[1] >= fs
      BY <1>1, <1>8, <2>1, <3>1
    <3>2. CASE ~(N # <<>> /\ N[1] >= fs)
      <4>1. b <= fs + 0 + 1
        BY <1>1, <1>8, <2>1, <3>2
      <4> QED
        BY <1>2, <4>1
    <3> QED
      BY <3>1, <3>2
  <2> QED
    BY <1>2, <1>8, <2>2, FatAssumption
<1>11. next_alloc' = b + 1 /\ freed' = {} /\ Live' = Live \cup {b}
  <2>1. next_alloc' = b + 1 /\ freed' = {}
    BY <1>1, <1>9
  <2>2. Live = {x \in Blocks : x < b} /\ Live' = {x \in Blocks : x < b + 1}
    BY <1>9, <2>1 DEF Live
  <2> QED
    BY <1>2, <1>9, <2>1, <2>2, FatAssumption DEF Blocks
<1>12. /\ sb'.fat_size = fs + FAT_PER_BLOCK /\ sb'.fat_start = sb.fat_start /\ sb'.fat_end = b
       /\ sb'.free_blocks = sb.free_blocks + FAT_PER_BLOCK - 1
       /\ sb' \in [free_blocks : Int, fat_size : Nat, fat_start : Blocks, fat_end : Blocks]
  <2>1. PICK size : size = sb.fat_size + FAT_PER_BLOCK
    OBVIOUS
  <2>2. PICK free : free = sb.free_blocks + FAT_PER_BLOCK - 1
    OBVIOUS
  <2>3. sb' = [sb EXCEPT !.fat_end = b, !.fat_size = size, !.free_blocks = free]
    BY <1>1, <1>9, <2>1, <2>2 DEF Grown
  <2>4. size \in Nat /\ free \in Int
    BY <1>2, <1>10, <2>1, <2>2 DEF Types
  <2>5. /\ sb'.fat_size = size /\ sb'.fat_start = sb.fat_start /\ sb'.fat_end = b
        /\ sb'.free_blocks = free
        /\ sb' \in [free_blocks : Int, fat_size : Nat, fat_start : Blocks, fat_end : Blocks]
    BY <1>9, <2>3, <2>4 DEF Types
  <2> QED
    BY <2>1, <2>2, <2>5
<1>13. /\ DOMAIN fat' = 0..(fs + FAT_PER_BLOCK - 1)
       /\ fat'[sb.fat_end] = b
       /\ \A i \in DOMAIN fat : i # sb.fat_end => fat'[i] = fat[i]
       /\ fat'[b] = FAT_NULL
       /\ DOMAIN fat \subseteq DOMAIN fat' /\ b \in DOMAIN fat'
       /\ fat' \in [0..(sb'.fat_size - 1) -> Blocks \cup {Cut}]
  <2>1. fat' = [i \in 0..(fs + FAT_PER_BLOCK - 1) |->
                  IF i = sb.fat_end THEN b ELSE IF i \in DOMAIN fat THEN fat[i] ELSE FAT_NULL]
    BY <1>1, <1>9 DEF Longer
  <2>2. DOMAIN fat \subseteq 0..(fs + FAT_PER_BLOCK - 1) /\ b \in 0..(fs + FAT_PER_BLOCK - 1)
        /\ b \notin DOMAIN fat
    BY <1>2, <1>10
  <2>3. b # sb.fat_end
    BY <1>7, <1>9
  <2>4. \A i \in DOMAIN fat : fat[i] \in Blocks \cup {Cut}
    BY DEF Types
  <2>5. FAT_NULL \in Blocks
    BY FatAssumption DEF FAT_NULL, Blocks
  <2> HIDE DEF fs, b
  <2>6. DOMAIN fat' = 0..(fs + FAT_PER_BLOCK - 1)
    BY <2>1
  <2>7. fat' \in [0..(fs + FAT_PER_BLOCK - 1) -> Blocks \cup {Cut}]
    BY <1>9, <2>1, <2>4, <2>5
  <2>8. sb'.fat_size - 1 = fs + FAT_PER_BLOCK - 1
    <3>1. sb'.fat_size = fs + FAT_PER_BLOCK
      BY <1>12
    <3>2. fs \in Int /\ FAT_PER_BLOCK \in Int
      BY <1>2, <1>10
    <3> QED
      BY <3>1, <3>2
  <2> QED
    BY <1>7, <2>1, <2>2, <2>3, <2>6, <2>7, <2>8
<1>14. Types'
  <2>1. b + 1 \in 0..MaxBlocks
    BY <1>2, <1>9, FatAssumption
  <2> QED
    BY <1>1, <1>11, <1>12, <1>13, <2>1 DEF Types
<1>15. /\ Own(D, Live') /\ D[Table] = Append(T, b)
       /\ \A x \in Users : x # Table => D[x] = C[x]
  <2>1. DOMAIN C = Users
    BY <1>3 DEF Own
  <2>2. Own(D, Live')
    BY <1>0, <1>3, <1>5, <1>9, <1>11, OwnAdd
  <2> QED
    BY <1>0, <1>5, <2>1, <2>2 DEF Added
<1>16. ASSUME NEW u \in Users, u # Table
       PROVE  /\ Links(fat, C[u]) => Links(fat', C[u])
              /\ Whole(fat, C[u]) => Whole(fat', C[u])
  <2>1. ASSUME NEW i \in 1..Len(C[u]) PROVE C[u][i] # sb.fat_end
    <3> SUFFICES ASSUME C[u][i] = T[Len(T)] PROVE FALSE
      BY <1>6
    <3> QED
      BY <1>3, <1>5, <1>7, <1>16, OwnOnce
  <2>2. \A i \in 1..Len(C[u]) : C[u][i] \in DOMAIN fat =>
           C[u][i] \in DOMAIN fat' /\ fat'[C[u][i]] = fat[C[u][i]]
    BY <1>13, <2>1
  <2>3. C[u] \in Seq(Blocks)
    BY <1>2
  <2> QED
    BY <2>2, <2>3, LinksKept
<1>17. /\ D[Table] \in Seq(Blocks) /\ Len(D[Table]) = Len(T) + 1 /\ D[Table][Len(T) + 1] = b
       /\ \A i \in 1..Len(T) : D[Table][i] = T[i]
       /\ D[Table] # <<>>
  <2>1. T \in Seq(Blocks) /\ b \in Blocks /\ Len(T) \in Nat
    BY <1>2, <1>5, <1>9
  <2>2. /\ Append(T, b) \in Seq(Blocks) /\ Len(Append(T, b)) = Len(T) + 1
        /\ Append(T, b)[Len(T) + 1] = b /\ Append(T, b) # <<>>
        /\ \A i \in 1..Len(T) : Append(T, b)[i] = T[i]
    BY <2>1, AppendProperties
  <2> QED
    BY <1>15, <2>2
<1>18. PICK m : m = Len(T)
  OBVIOUS
<1>19. m \in Nat /\ m \in 1..m /\ m # 0
  BY <1>2, <1>5, <1>7, <1>18
<1>20. Whole(fat', D[Table])
  <2>1. ASSUME NEW i \in 1..m
        PROVE  D[Table][i] \in DOMAIN fat' /\ fat'[D[Table][i]] = D[Table][i + 1]
    <3>1. CASE i = m
      BY <1>6, <1>7, <1>13, <1>17, <1>18, <1>19, <3>1
    <3>2. CASE i # m
      <4>1. i \in 1..(m - 1) /\ i + 1 \in 1..m
        BY <1>19, <3>2
      <4>2. T[i] \in DOMAIN fat /\ fat[T[i]] = T[i + 1]
        BY <1>6, <1>18, <4>1 DEF Whole, Links
      <4>3. T[i] # sb.fat_end
        <5> SUFFICES ASSUME T[i] = T[m] PROVE FALSE
          BY <1>6, <1>18
        <5> QED
          BY <1>3, <1>5, <1>18, <1>19, <3>2, OwnOnce
      <4> QED
        BY <1>13, <1>17, <1>18, <4>1, <4>2, <4>3
    <3> QED
      BY <3>1, <3>2
  <2>2. (m + 1) - 1 = m
    BY <1>19
  <2>3. Links(fat', D[Table])
    BY <1>17, <1>18, <2>1, <2>2 DEF Links
  <2>4. Ends(fat', D[Table])
    BY <1>13, <1>17 DEF Ends
  <2> QED
    BY <2>3, <2>4 DEF Whole
<1>21. TableShape(D[Table])'
  <2>1. FAT_PER_BLOCK * (m + 1) = FAT_PER_BLOCK * m + FAT_PER_BLOCK
        /\ (m + 1) * FAT_PER_BLOCK = FAT_PER_BLOCK * m + FAT_PER_BLOCK
    BY <1>10, <1>19
  <2>2. fs + FAT_PER_BLOCK = FAT_PER_BLOCK * (m + 1) /\ b < (m + 1) * FAT_PER_BLOCK
    <3>1. fs = FAT_PER_BLOCK * m
      BY <1>6, <1>18
    <3>2. b < fs + FAT_PER_BLOCK
      BY <1>2, <1>10
    <3> QED
      BY <2>1, <3>1, <3>2
  <2>3. ASSUME NEW k \in 1..(m + 1) PROVE D[Table][k] < k * FAT_PER_BLOCK
    <3>1. CASE k = m + 1
      BY <1>17, <1>18, <2>2, <3>1
    <3>2. CASE k # m + 1
      <4>1. k \in 1..m
        BY <1>19, <3>2
      <4> QED
        BY <1>6, <1>17, <1>18, <4>1
    <3> QED
      BY <3>1, <3>2
  <2>4. D[Table][1] = T[1]
    BY <1>7, <1>17
  <2> QED
    BY <1>6, <1>12, <1>17, <1>18, <2>2, <2>3, <2>4 DEF TableShape
<1>22. /\ D[New] = N /\ D[Pend] = C[Pend] /\ D[Rest] = C[Rest] /\ D[Fixed] = C[Fixed]
  BY <1>5, <1>15
<1>23. FileChains(t, D)'
  <2> SUFFICES ASSUME NEW g \in Files
               PROVE  Whole(fat', D[File(g)]) /\ Matches(D[File(g)], Coming(t, g)')
    BY DEF FileChains
  <2>1. D[File(g)] = C[File(g)] /\ File(g) \in Users /\ File(g) # Table
    BY <1>15, UsersAre
  <2>2. Coming(t, g)' = Coming(t, g)
    BY <1>1 DEF Coming
  <2> QED
    BY <1>3, <1>16, <2>1, <2>2 DEF FileChains
<1>24. SystemChains(D)'
  <2>1. Whole(fat', C[Rest])
    BY <1>3, <1>5, <1>16 DEF SystemChains
  <2> QED
    BY <1>3, <1>20, <1>21, <1>22, <2>1 DEF SystemChains
<1>25. Allocator(t, D[New])'
  <2>1. N # <<>> => N[1] \in Nat /\ N[1] < b
    <3>1. N # <<>> => N[1] \in Live
      BY <1>5, FinalIs, Basics
    <3> QED
      BY <3>1, FatAssumption DEF Live, Blocks
  <2>2. ~(N # <<>> /\ N[1] >= fs + FAT_PER_BLOCK) /\ ~(r.new >= fs + FAT_PER_BLOCK)
        /\ b + 1 <= fs + FAT_PER_BLOCK + 0 + 0
    BY <1>2, <1>8, <1>10, <2>1
  <2> QED
    BY <1>1, <1>11, <1>12, <1>22, <2>2 DEF Allocator
<1>26. AtWork(t, D)'
  <2>1. Links(fat', N)
    BY <1>4, <1>5, <1>16 DEF Allocating
  <2>2. Final(N) \notin DOMAIN fat' => Len(N) = 1
    BY <1>4, <1>13 DEF Allocating
  <2>3. Allocating(t, N)'
    BY <1>1, <1>4, <2>1, <2>2 DEF Allocating
  <2> QED
    BY <1>1, <1>4, <1>22, <2>3 DEF AtWork
<1>27. Counted(t, D)'
  <2>1. PICK c : c = Cardinality(Live)
    OBVIOUS
  <2>2. PICK held : held = Len(N) + Len(C[Pend])
    OBVIOUS
  <2>3. PICK free : free = sb.free_blocks
    OBVIOUS
  <2>4. PICK size : size = fs
    OBVIOUS
  <2>5. c \in Int /\ held \in Int /\ free \in Int /\ size \in Int /\ FAT_PER_BLOCK \in Int
    BY <1>2, <1>5, <1>10, <2>1, <2>2, <2>3, <2>4, LiveCounts DEF Types
  <2>6. free = size - c + held
    BY <1>1, <1>3, <2>1, <2>2, <2>3, <2>4 DEF Counted
  <2>7. free + FAT_PER_BLOCK - 1 = (size + FAT_PER_BLOCK) - (c + 1) + held
    BY <2>5, <2>6
  <2>8. Cardinality(Live') = c + 1
    BY <1>9, <1>11, <2>1, LiveCounts
  <2> QED
    BY <1>1, <1>12, <1>22, <2>2, <2>3, <2>4, <2>7, <2>8 DEF Counted
<1>28. Written(t)'
  BY <1>1 DEF Written
<1>29. \A f \in Files : AtTheEnd(C[File(f)], D[File(f)])
  BY <1>2, <1>15, UsersAre, SameAtTheEnd
<1>30. Shape(t, D)'
  BY <1>15, <1>23, <1>24, <1>25, <1>26, <1>27, <1>28 DEF Shape
<1>31. Passes(t, C, D)
  BY <1>0, <1>9 DEF Passes
<1> QED
  BY <1>1, <1>14, <1>29, <1>30, <1>31 DEF Follows

(* Quotient and remainder. *)
LEMMA Division ==
  ASSUME NEW n \in Nat, NEW d \in Nat, d > 0
  PROVE  /\ n \div d \in Nat /\ n % d \in 0..(d - 1)
         /\ n = d * (n \div d) + (n % d)
         /\ \A k \in Nat : n < k * d => n \div d < k
<1>1. /\ n \div d \in Nat /\ n % d \in 0..(d - 1)
      /\ n = d * (n \div d) + (n % d)
  OBVIOUS
<1>2. PICK q \in Nat : q = n \div d
  BY <1>1
<1>3. ASSUME NEW k \in Nat, n < k * d, ~(q < k) PROVE FALSE
  <2>1. PICK x \in Nat : q = k + x
    <3>1. q - k \in Nat /\ q = k + (q - k)
      BY <1>3
    <3> QED
      BY <3>1
  <2>2. d * (k + x) = k * d + d * x /\ d * x \in Nat /\ k * d \in Nat /\ d * q \in Nat
    OBVIOUS
  <2>3. n >= d * q
    <3>1. PICK r \in Nat : r = n % d
      BY <1>1
    <3>2. n = d * q + r
      BY <1>1, <1>2, <3>1
    <3> QED
      BY <2>2, <3>2
  <2> QED
    BY <1>3, <2>1, <2>2, <2>3
<1> QED
  BY <1>1, <1>2, <1>3

(* The chain of the table's blocks, as long as its size says, and the entry *)
(* that leads to each of them in a part before it.                         *)
Parted(T, size) ==
  /\ T \in Seq(Blocks) /\ T # <<>> /\ size = FAT_PER_BLOCK * Len(T)
  /\ \A i \in 1..Len(T) : T[i] # FAT_NULL /\ T[i] < i * FAT_PER_BLOCK
  /\ \A i, j \in 1..Len(T) : T[i] = T[j] => i = j

LEMMA PartedIs ==
  ASSUME NEW T, NEW size, Parted(T, size)
  PROVE  /\ Len(T) \in Nat /\ Len(T) # 0 /\ 1 \in 1..Len(T)
         /\ T = [i \in 1..Len(T) |-> T[i]] /\ DOMAIN T = 1..Len(T)
         /\ size \in Nat /\ size >= FAT_PER_BLOCK /\ size = FAT_PER_BLOCK * Len(T)
         /\ FAT_PER_BLOCK \in Nat /\ FAT_PER_BLOCK > 2
         /\ size \div FAT_PER_BLOCK = Len(T)
         /\ \A i \in 1..Len(T) : T[i] \in Blocks /\ T[i] \in Nat /\ T[i] # FAT_NULL /\ T[i] # Cut
<1>1. T \in Seq(Blocks) /\ T # <<>> /\ size = FAT_PER_BLOCK * Len(T)
  BY DEF Parted
<1>2. PICK m : m = Len(T)
  OBVIOUS
<1>3. m \in Nat /\ m # 0
  BY <1>1, <1>2, LenProperties, EmptySeq
<1>4. FAT_PER_BLOCK \in Nat /\ FAT_PER_BLOCK > 2
  BY FatAssumption
<1>5. size \in Nat /\ size >= FAT_PER_BLOCK /\ size \div FAT_PER_BLOCK = m
  <2>1. \A x, y \in Nat : y # 0 => x * y \in Nat /\ x * y >= x
    OBVIOUS
  <2>2. \A x, y \in Nat : x > 0 => (x * y) \div x = y
    OBVIOUS
  <2> QED
    BY <1>1, <1>2, <1>3, <1>4, <2>1, <2>2
<1>6. T = [i \in 1..m |-> T[i]] /\ DOMAIN T = 1..m
  BY <1>1, <1>2, LenProperties
<1>7. \A i \in 1..m : T[i] \in Blocks /\ T[i] \in Nat /\ T[i] # FAT_NULL /\ T[i] # Cut
  <2>1. \A i \in 1..m : T[i] \in Blocks /\ T[i] # FAT_NULL
    BY <1>1, <1>2, ElementOfSeq DEF Parted
  <2>2. \A b \in Blocks : b \in Nat /\ b # Cut
    BY FatAssumption DEF Blocks, Cut
  <2> QED
    BY <2>1, <2>2
<1> QED
  <2>1. /\ Len(T) \in Nat /\ Len(T) # 0 /\ 1 \in 1..Len(T) /\ size \div FAT_PER_BLOCK = Len(T)
        /\ T = [i \in 1..Len(T) |-> T[i]] /\ DOMAIN T = 1..Len(T)
        /\ \A i \in 1..Len(T) : T[i] \in Blocks /\ T[i] \in Nat /\ T[i] # FAT_NULL /\ T[i] # Cut
    <3>1. 1 \in 1..m
      BY <1>3
    <3> QED
      BY <1>2, <1>3, <1>5, <1>6, <1>7, <3>1, Zenon
  <2> QED
    BY <1>1, <1>4, <1>5, <2>1, Zenon

(* What write_fat writes: each part into its block, and nothing else.      *)
WritesTo(table, s, T) == Parted(T, s.fat_size) /\ ChainIn(table, s.fat_start) = T

HoldsParts(part, table, T) ==
  /\ DOMAIN part = {T[k] : k \in 1..Len(T)}
  /\ \A k \in 1..Len(T) : part[T[k]] = Part(table, k)

LEMMA PartsWritten ==
  ASSUME NEW table, NEW s, NEW T, WritesTo(table, s, T)
  PROVE  HoldsParts(write_fat(table, s), table, T)
<1>0. PICK size, start : /\ size = s.fat_size /\ start = s.fat_start
                         /\ Parted(T, size) /\ ChainIn(table, start) = T
  BY DEF WritesTo
<1> DEFINE F == FAT_PER_BLOCK
           m == Len(T)
           written == {j \in DOMAIN T : j * FAT_PER_BLOCK <= size}
<1>1. /\ m \in Nat /\ F \in Nat /\ size = F * m /\ DOMAIN T = 1..m
  BY <1>0, PartedIs
<1>2. write_fat(table, s) = [b \in {T[j] : j \in written} |->
                               Part(table, Max({j \in written : T[j] = b}))]
  BY <1>0 DEF write_fat
<1>3. written = 1..m
  <2>1. \A x, y \in Nat : x <= y => x * F <= F * y
    BY <1>1
  <2> QED
    BY <1>1, <2>1
<1>4. ASSUME NEW k \in 1..m
      PROVE  write_fat(table, s)[T[k]] = Part(table, k)
  <2>1. {j \in written : T[j] = T[k]} = {k}
    <3>1. \A j \in 1..m : T[j] = T[k] => j = k
      BY <1>0 DEF Parted
    <3> HIDE DEF written
    <3> QED
      BY <1>3, <3>1
  <2>2. Max({k}) = k
    <3>1. PICK S : S = {k}
      OBVIOUS
    <3>2. k >= k
      BY <1>1
    <3>3. \E x \in S : \A y \in S : x >= y
      BY <3>1, <3>2
    <3>4. Max(S) \in S
      BY <3>3, Zenon DEF Max
    <3> QED
      BY <3>1, <3>4
  <2>3. T[k] \in {T[j] : j \in written}
    <3> HIDE DEF written
    <3> QED
      BY <1>3
  <2> HIDE DEF written
  <2>4. write_fat(table, s)[T[k]] = Part(table, Max({j \in written : T[j] = T[k]}))
    BY <1>2, <2>3
  <2>5. Max({j \in written : T[j] = T[k]}) = k
    BY <2>1, <2>2
  <2> QED
    BY <2>4, <2>5
<1>5. DOMAIN write_fat(table, s) = {T[k] : k \in 1..m}
  <2> HIDE DEF written
  <2> QED
    BY <1>2, <1>3
<1> QED
  BY <1>4, <1>5 DEF HoldsParts

(* The part and the place in it that an entry has.                         *)
LEMMA PlaceOf ==
  ASSUME NEW n \in Nat, NEW m \in Nat, NEW i \in 0..(n - 1), n = FAT_PER_BLOCK * m
  PROVE  /\ PartOf(i) \in 1..m /\ PartOf(i) \in Nat /\ i % FAT_PER_BLOCK \in 0..(FAT_PER_BLOCK - 1)
         /\ (PartOf(i) - 1) * FAT_PER_BLOCK + (i % FAT_PER_BLOCK) = i
         /\ \A k \in Nat : i < k * FAT_PER_BLOCK => PartOf(i) <= k
<1> DEFINE F == FAT_PER_BLOCK
<1>1. F \in Nat /\ F > 0
  BY FatAssumption
<1>2. i \in Nat /\ i < m * F
  <2>1. F * m = m * F
    BY <1>1
  <2> QED
    BY <2>1
<1>3. /\ i \div F \in Nat /\ i % F \in 0..(F - 1) /\ i = F * (i \div F) + (i % F)
      /\ i \div F < m
      /\ \A k \in Nat : i < k * F => i \div F < k
  BY <1>1, <1>2, Division
<1>4. PartOf(i) \in 1..m /\ PartOf(i) \in Nat /\ PartOf(i) - 1 = i \div F
  BY <1>1, <1>3 DEF PartOf
<1>5. (PartOf(i) - 1) * F + (i % F) = i
  <2>1. (i \div F) * F = F * (i \div F)
    BY <1>1, <1>3
  <2> QED
    BY <1>3, <1>4, <2>1
<1>6. \A k \in Nat : i < k * F => PartOf(i) <= k
  BY <1>3, <1>4
<1> QED
  BY <1>3, <1>4, <1>5, <1>6

(* What read_fat reads, from whatever the blocks of the table's chain hold: *)
(* it finds that chain, if the entries in it are its links.                *)
Reads(T, table) ==
  /\ stored.sb.fat_start = T[1]
  /\ \A i \in 0..(stored.sb.fat_size - 1) :
       PartIn(T[PartOf(i)])[i % FAT_PER_BLOCK] = table[i]
  /\ \A k \in 1..(Len(T) - 1) : T[k] \in 0..(stored.sb.fat_size - 1) /\ table[T[k]] = T[k + 1]

LEMMA PartsRead ==
  ASSUME NEW T, NEW table, Parted(T, stored.sb.fat_size), Reads(T, table)
  PROVE  /\ read_fat = [i \in 0..(stored.sb.fat_size - 1) |-> table[i]]
         /\ DOMAIN table_blocks = 1..Len(T)
         /\ \A k \in 1..Len(T) : table_blocks[k] = T[k]
<1> DEFINE F == FAT_PER_BLOCK
           m == Len(T)
           size == stored.sb.fat_size
           step(q) == [k \in 1..(stored.sb.fat_size \div FAT_PER_BLOCK) |->
                         IF k = 1 THEN stored.sb.fat_start
                         ELSE LET b == q[k - 1]
                              IN IF b = Cut \/ PartOf(b) >= k THEN FAT_NULL
                                 ELSE PartIn(q[PartOf(b)])[b % FAT_PER_BLOCK]]
<1>1. /\ m \in Nat /\ m # 0 /\ 1 \in 1..m /\ F \in Nat /\ F > 0 /\ size \in Nat /\ size = F * m
      /\ T = [i \in 1..m |-> T[i]] /\ size \div F = m
      /\ \A i \in 1..m : T[i] \in Nat /\ T[i] # FAT_NULL /\ T[i] # Cut
  BY PartedIs
<1>2. \A k \in 1..m : T[k] < k * F
  BY DEF Parted
<1>3. stored.sb.fat_start = T[1]
  BY DEF Reads
<1>4. ASSUME NEW k \in 2..m
      PROVE  /\ k - 1 \in 1..m /\ T[k - 1] # Cut /\ PartOf(T[k - 1]) \in 1..(k - 1)
             /\ PartIn(T[PartOf(T[k - 1])])[T[k - 1] % F] = T[k]
  <2>1. k - 1 \in 1..m /\ k - 1 \in 1..(m - 1) /\ (k - 1) + 1 = k /\ k - 1 \in Nat
    BY <1>1
  <2>2. T[k - 1] \in 0..(size - 1) /\ table[T[k - 1]] = T[k]
    BY <2>1 DEF Reads
  <2>3. T[k - 1] < (k - 1) * F
    BY <1>2, <2>1
  <2>4. PartOf(T[k - 1]) \in 1..m /\ PartOf(T[k - 1]) <= k - 1
    BY <1>1, <2>1, <2>2, <2>3, PlaceOf
  <2>5. PartOf(T[k - 1]) \in 1..(k - 1)
    BY <2>1, <2>4
  <2>6. PartIn(T[PartOf(T[k - 1])])[T[k - 1] % F] = T[k]
    BY <2>2 DEF Reads
  <2> QED
    BY <1>1, <2>1, <2>5, <2>6
<1>5. T = step(T)
  <2>1. ASSUME NEW k \in 1..m PROVE T[k] = step(T)[k]
    <3>1. CASE k = 1
      BY <1>1, <1>3, <3>1
    <3>2. CASE k # 1
      <4>1. k \in 2..m
        BY <1>1, <3>2
      <4>2. /\ T[k - 1] # Cut /\ PartOf(T[k - 1]) \in 1..(k - 1)
            /\ PartIn(T[PartOf(T[k - 1])])[T[k - 1] % F] = T[k]
        BY <1>4, <4>1
      <4>3. ~(PartOf(T[k - 1]) >= k)
        BY <4>1, <4>2
      <4> QED
        BY <1>1, <3>2, <4>2, <4>3
    <3> QED
      BY <3>1, <3>2
  <2> QED
    BY <1>1, <2>1
<1>6. table_blocks = step(table_blocks)
  <2> DEFINE block == CHOOSE q : q = step(q)
  <2>1. block = step(block)
    <3> HIDE DEF step
    <3> QED
      BY <1>5
  <2>2. table_blocks = block
    BY DEF table_blocks
  <2> HIDE DEF block, step
  <2> QED
    BY <2>1, <2>2
<1>7. \A k \in Nat : \A j \in 1..k : j <= m => table_blocks[j] = T[j]
  <2> DEFINE S == {k \in Nat : \A j \in 1..k : j <= m => table_blocks[j] = T[j]}
  <2>1. 0 \in S
    OBVIOUS
  <2>2. ASSUME NEW k \in Nat, k \in S PROVE k + 1 \in S
    <3> SUFFICES ASSUME k + 1 <= m PROVE table_blocks[k + 1] = T[k + 1]
      BY <2>2
    <3>1. table_blocks[k + 1] = step(table_blocks)[k + 1] /\ k + 1 \in 1..m
      <4> HIDE DEF step
      <4> QED
        BY <1>1, <1>6
    <3>2. CASE k = 0
      BY <1>1, <1>3, <3>1, <3>2
    <3>3. CASE k # 0
      <4>1. k + 1 \in 2..m /\ (k + 1) - 1 = k /\ k \in 1..k /\ k <= m /\ k + 1 # 1
        BY <1>1, <3>3
      <4>2. table_blocks[k] = T[k]
        BY <2>2, <4>1
      <4>3. /\ T[k] # Cut /\ PartOf(T[k]) \in 1..k
            /\ PartIn(T[PartOf(T[k])])[T[k] % F] = T[k + 1]
        BY <1>4, <4>1
      <4>4. ~(PartOf(T[k]) >= k + 1) /\ PartOf(T[k]) <= m
        <5>1. PICK p : p = PartOf(T[k]) /\ p \in 1..k
          BY <4>3
        <5>2. k \in Nat /\ k <= m /\ m \in Nat
          BY <1>1, <2>2, <4>1
        <5> QED
          BY <5>1, <5>2
      <4>5. table_blocks[PartOf(T[k])] = T[PartOf(T[k])]
        BY <2>2, <4>3, <4>4
      <4> QED
        BY <1>1, <3>1, <4>1, <4>2, <4>3, <4>4, <4>5
    <3> QED
      BY <3>2, <3>3
  <2>3. Nat \subseteq S
    <3> HIDE DEF S
    <3> QED
      BY <2>1, <2>2, InductiveSet
  <2> QED
    BY <2>3
<1>8. \A k \in 1..m : table_blocks[k] = T[k]
  BY <1>1, <1>7
<1>9. ASSUME NEW i \in 0..(size - 1)
      PROVE  /\ table_blocks[PartOf(i)] = T[PartOf(i)] /\ T[PartOf(i)] # FAT_NULL
             /\ PartIn(T[PartOf(i)])[i % F] = table[i]
  <2>1. PartOf(i) \in 1..m
    BY <1>1, PlaceOf
  <2>2. PartIn(T[PartOf(i)])[i % F] = table[i]
    BY DEF Reads
  <2> QED
    BY <1>1, <1>8, <2>1, <2>2
<1>10. read_fat = [i \in 0..(size - 1) |-> table[i]]
  BY <1>9 DEF read_fat
<1>11. DOMAIN table_blocks = 1..m
  <2>1. DOMAIN step(table_blocks) = 1..m
    BY <1>1
  <2> HIDE DEF step
  <2> QED
    BY <1>6, <2>1
<1> QED
  BY <1>8, <1>10, <1>11

(* What write_fat has written, read_fat reads back. *)
LEMMA ReadsBack ==
  ASSUME NEW table, NEW s, NEW T, s.fat_size \in Nat,
         table \in [0..(s.fat_size - 1) -> Blocks \cup {Cut}],
         Parted(T, s.fat_size), Whole(table, T), T[1] = s.fat_start,
         stored = [part |-> write_fat(table, s), sb |-> s]
  PROVE  /\ Parted(T, stored.sb.fat_size) /\ Reads(T, table)
         /\ ChainIn(table, s.fat_start) = T
         /\ read_fat = table /\ stored.sb = s
<1> DEFINE F == FAT_PER_BLOCK
           size == s.fat_size
<1>1. /\ Len(T) \in Nat /\ Len(T) # 0 /\ 1 \in 1..Len(T) /\ size = F * Len(T)
      /\ T \in Seq(Blocks) /\ T # <<>>
      /\ \A i \in 1..Len(T) : T[i] \in Blocks /\ T[i] # FAT_NULL
      /\ \A i, j \in 1..Len(T) : T[i] = T[j] => i = j
  BY PartedIs DEF Parted
<1>2. ChainIn(table, s.fat_start) = T
  <2>1. ChainIn(table, First(T)) = T
    BY <1>1, ChainIs
  <2> QED
    BY <1>1, <2>1 DEF First
<1>3. stored.sb = s /\ stored.part = write_fat(table, s)
  OBVIOUS
<1>4. ASSUME NEW i \in 0..(size - 1)
      PROVE  PartIn(T[PartOf(i)])[i % F] = table[i]
  <2>1. /\ PartOf(i) \in 1..Len(T) /\ i % F \in 0..(F - 1)
        /\ (PartOf(i) - 1) * F + (i % F) = i
    BY <1>1, PlaceOf
  <2>2. PICK k \in 1..Len(T) : k = PartOf(i)
    BY <2>1
  <2>3. T[k] \in DOMAIN stored.part /\ stored.part[T[k]] = Part(table, k)
    <3>1. WritesTo(table, s, T)
      BY <1>2, Zenon DEF WritesTo
    <3>2. HoldsParts(stored.part, table, T)
      BY <1>3, <3>1, PartsWritten, Zenon
    <3> QED
      BY <3>2 DEF HoldsParts
  <2>4. PartIn(T[k]) = Part(table, k)
    BY <2>3 DEF PartIn
  <2> QED
    BY <2>1, <2>2, <2>4 DEF Part
<1>5. Reads(T, table)
  <2>1. DOMAIN table = 0..(size - 1)
    OBVIOUS
  <2>2. \A k \in 1..(Len(T) - 1) : T[k] \in DOMAIN table /\ table[T[k]] = T[k + 1]
    BY DEF Whole, Links
  <2>3. T[1] = stored.sb.fat_start /\ stored.sb.fat_size = size
    BY <1>3
  <2> HIDE DEF size
  <2> QED
    BY <1>4, <2>1, <2>2, <2>3 DEF Reads
<1>6. Parted(T, stored.sb.fat_size)
  BY <1>3
<1>7. read_fat = table
  <2>1. read_fat = [i \in 0..(size - 1) |-> table[i]]
    BY <1>3, <1>5, <1>6, PartsRead
  <2> QED
    BY <2>1
<1> QED
  BY <1>2, <1>3, <1>5, <1>6, <1>7

LEMMA TableParted ==
  ASSUME NEW t, Threads = {t}, Types, NEW C, Shape(t, C)
  PROVE  Parted(C[Table], sb.fat_size)
<1>1. /\ Table \in Users /\ Table # Fixed /\ C[Table] \in Seq(Blocks)
      /\ \A i \in 1..Len(C[Table]) : C[Table][i] # FAT_NULL
  BY UsersAre, Basics
<1>2. \A i, j \in 1..Len(C[Table]) : C[Table][i] = C[Table][j] => i = j
  BY <1>1, OwnOnce DEF Shape
<1>3. TableShape(C[Table])
  BY DEF Shape, SystemChains
<1> QED
  BY <1>1, <1>2, <1>3 DEF Parted, TableShape

LEMMA ReadBack ==
  ASSUME NEW t, Threads = {t}, Types, NEW C, Shape(t, C),
         stored = [part |-> write_fat(fat, sb), sb |-> sb]
  PROVE  read_fat = fat /\ stored.sb = sb
<1>1. sb.fat_size \in Nat /\ fat \in [0..(sb.fat_size - 1) -> Blocks \cup {Cut}]
  BY Basics DEF Types
<1>2. Whole(fat, C[Table]) /\ C[Table][1] = sb.fat_start
  BY DEF Shape, SystemChains, TableShape
<1> QED
  BY <1>1, <1>2, TableParted, ReadsBack

(* Mounting again changes nothing. *)
LEMMA RemountStep ==
  ASSUME NEW t, Threads = {t}, Types, NEW C, Shape(t, C), Remount
  PROVE  Follows(t, C)
<1>1. /\ fault = "none" /\ pc[t] = "idle"
      /\ fat' = read_fat /\ sb' = stored.sb
      /\ UNCHANGED <<next_alloc, freed, entry, stored, pc, reg, fault>>
  BY DEF Remount, At
<1>2. stored = [part |-> write_fat(fat, sb), sb |-> sb]
  BY <1>1 DEF Shape, Written
<1>3. fat' = fat /\ sb' = sb
  BY <1>1, <1>2, ReadBack
<1>4. Live' = Live
  BY <1>1 DEF Live
<1>5. Types'
  BY <1>1, <1>3 DEF Types
<1>6. Shape(t, C)'
  <2>1. Own(C, Live') /\ FileChains(t, C)' /\ SystemChains(C)' /\ Allocator(t, C[New])'
    BY <1>1, <1>3, <1>4 DEF Shape, FileChains, Coming, SystemChains, TableShape, Allocator
  <2>2. AtWork(t, C)' /\ Counted(t, C)' /\ Written(t)'
    BY <1>1, <1>3, <1>4 DEF Shape, AtWork, Allocating, Freeing, Counted, Written
  <2> QED
    BY <2>1, <2>2 DEF Shape
<1>7. \A f \in Files : AtTheEnd(C[File(f)], C[File(f)])
  BY Basics, UsersAre, SameAtTheEnd
<1>8. Passes(t, C, C)
  BY DEF Passes
<1> QED
  BY <1>1, <1>5, <1>6, <1>7, <1>8 DEF Follows

(* The first mount makes the superblock, the table and the root directory. *)
LEMMA StartsWell ==
  ASSUME NEW t, Threads = {t}, Init
  PROVE  Types /\ \E C : Shape(t, C)
<1> DEFINE F == FAT_PER_BLOCK
<1>0. PICK C : C = [h \in Users |-> IF h = Table THEN <<1>> ELSE IF h = Fixed THEN <<0, Root>> ELSE <<>>]
  OBVIOUS
<1>1. /\ fat = [i \in 0..(F - 1) |-> FAT_NULL]
      /\ sb = [free_blocks |-> F - 3, fat_size |-> F, fat_start |-> 1, fat_end |-> 1]
      /\ next_alloc = 3 /\ freed = {} /\ entry = [f \in Files |-> NoEntry]
      /\ stored = [part |-> write_fat(fat, sb), sb |-> sb]
      /\ pc = [u \in Threads |-> "idle"] /\ reg = [u \in Threads |-> NoLocals]
  BY DEF Init
<1>2. /\ 0 \in Blocks /\ 1 \in Blocks /\ 2 \in Blocks /\ 3 \in 0..MaxBlocks /\ F \in Nat /\ F > 2
      /\ \A b \in Blocks : b < 3 <=> b \in {0, 1, 2}
  BY FatAssumption DEF Blocks
<1>3. /\ sb.free_blocks = F - 3 /\ sb.fat_size = F /\ sb.fat_start = 1 /\ sb.fat_end = 1
      /\ sb \in [free_blocks : Int, fat_size : Nat, fat_start : Blocks, fat_end : Blocks]
  BY <1>1, <1>2
<1>4. NoEntry \in Entries /\ NoLocals \in Locals
  BY <1>2, FatAssumption DEF NoEntry, Entries, NoLocals, Locals, FAT_NULL
<1>5. Types
  <2>1. fat \in [0..(sb.fat_size - 1) -> Blocks \cup {Cut}]
    BY <1>1, <1>2, <1>3 DEF FAT_NULL
  <2> QED
    BY <1>1, <1>2, <1>3, <1>4, <2>1 DEF Types, Steps
<1>6. Live = {0, 1, 2}
  BY <1>1, <1>2 DEF Live
<1>7. /\ C[Table] = <<1>> /\ C[Fixed] = <<0, 2>> /\ C[New] = <<>> /\ C[Pend] = <<>> /\ C[Rest] = <<>>
      /\ \A f \in Files : C[File(f)] = <<>>
  BY <1>0, UsersAre DEF Root
<1>8. Own(C, Live)
  <2>1. C \in [Users -> Seq(Live)]
    <3>1. <<1>> \in Seq(Live) /\ <<0, 2>> \in Seq(Live) /\ <<>> \in Seq(Live)
      BY <1>6
    <3> QED
      BY <1>0, <3>1 DEF Root
  <2>2. \A h \in Users : \A i \in 1..Len(C[h]) :
          \/ h = Table /\ i = 1 /\ C[h][i] = 1
          \/ h = Fixed /\ i = 1 /\ C[h][i] = 0
          \/ h = Fixed /\ i = 2 /\ C[h][i] = 2
    <3> TAKE h \in Users
    <3>1. CASE h = Table
      <4>1. C[h] = <<1>> /\ Len(<<1>>) = 1 /\ <<1>>[1] = 1
        BY <1>7, <3>1
      <4>2. \A i \in 1..Len(C[h]) : i = 1
        BY <4>1
      <4> QED
        BY <3>1, <4>1, <4>2
    <3>2. CASE h = Fixed
      <4>1. C[h] = <<0, 2>> /\ Len(<<0, 2>>) = 2 /\ <<0, 2>>[1] = 0 /\ <<0, 2>>[2] = 2
        BY <1>7, <3>2
      <4>2. \A i \in 1..Len(C[h]) : i = 1 \/ i = 2
        BY <4>1
      <4> QED
        BY <3>2, <4>1, <4>2
    <3>3. CASE h # Table /\ h # Fixed
      BY <1>0, <3>3
    <3> QED
      BY <3>1, <3>2, <3>3
  <2>3. ASSUME NEW g \in Users, NEW h \in Users, NEW i \in 1..Len(C[g]), NEW j \in 1..Len(C[h]),
               C[g][i] = C[h][j]
        PROVE  g = h /\ i = j
    BY <2>2, <2>3
  <2>4. \A b \in Live : \E h \in Users : \E i \in 1..Len(C[h]) : C[h][i] = b
    <3>1. /\ 1 \in 1..Len(C[Table]) /\ 1 \in 1..Len(C[Fixed]) /\ 2 \in 1..Len(C[Fixed])
          /\ C[Table][1] = 1 /\ C[Fixed][1] = 0 /\ C[Fixed][2] = 2
      BY <1>7
    <3>2. Table \in Users /\ Fixed \in Users
      BY UsersAre
    <3> QED
      BY <1>6, <3>1, <3>2
  <2> QED
    BY <2>1, <2>3, <2>4, Zenon DEF Own
<1>9. pc[t] = "idle"
  BY <1>1
<1>10. Whole(fat, <<>>) /\ First(<<>>) = FAT_NULL /\ Len(<<>>) = 0
  <2>1. Len(<<>>) = 0
    OBVIOUS
  <2> QED
    BY <2>1 DEF Whole, Links, Ends, First
<1>11. FileChains(t, C)
  BY <1>1, <1>7, <1>9, <1>10 DEF FileChains, Coming, Matches, NoEntry
<1>12. SystemChains(C)
  <2>1. Whole(fat, <<1>>)
    <3>1. 1 \in DOMAIN fat /\ fat[1] = FAT_NULL
      BY <1>1, <1>2
    <3> QED
      BY <3>1 DEF Whole, Links, Ends
  <2>2. TableShape(<<1>>)
    BY <1>2, <1>3 DEF TableShape
  <2> QED
    BY <1>7, <1>10, <2>1, <2>2 DEF SystemChains, Root
<1>13. Allocator(t, C[New])
  <2>1. 3 <= F + 0 + 0
    BY <1>2
  <2> QED
    BY <1>1, <1>3, <1>7, <1>9, <2>1 DEF Allocator
<1>14. AtWork(t, C)
  BY <1>7, <1>9 DEF AtWork
<1>15. Counted(t, C)
  <2>1. Cardinality(0..2) = 2 - 0 + 1
    <3>1. Cardinality(0..2) = IF 0 > 2 THEN 0 ELSE 2 - 0 + 1
      <4>1. 0 \in Int /\ 2 \in Int
        OBVIOUS
      <4> QED
        BY <4>1, FS_Interval, Zenon
    <3> QED
      BY <3>1
  <2>2. 0..2 = {0, 1, 2}
    OBVIOUS
  <2>3. Cardinality(Live) = 3
    BY <1>6, <2>1, <2>2
  <2>4. F - 3 = F - 3 + (0 + 0)
    BY <1>2
  <2> QED
    BY <1>3, <1>7, <1>9, <1>10, <2>3, <2>4 DEF Counted
<1>16. Written(t)
  BY <1>1 DEF Written
<1> QED
  BY <1>5, <1>8, <1>11, <1>12, <1>13, <1>14, <1>15, <1>16 DEF Shape

(* Every step keeps the chains whole, or is the last one. *)
LEMMA EachStep ==
  ASSUME NEW t, Threads = {t}, Types, NEW C, Shape(t, C), Next
  PROVE  Follows(t, C) \/ Stops(t)
<1>1. CASE Remount
  BY <1>1, RemountStep
<1>2. CASE Begin(t)
  BY <1>2, MknodStep, UnlinkStep, GrowStep, ShrinkStep DEF Begin
<1>3. CASE Step(t)
  BY <1>3, TakeStep, AdvanceStep, PlaceFirstStep, ExpandStep, PlaceNextStep, EndChainStep,
     AttachStep, FreeNextStep, FreeDoneStep, SaveStep DEF Step
<1> QED
  BY <1>1, <1>2, <1>3 DEF Next

(* The invariant holds as long as the system runs. *)
LEMMA InvAlways ==
  ASSUME NEW t, Threads = {t}
  PROVE  Spec => []Inv(t)
<1>1. Init => Inv(t)
  BY StartsWell DEF Init, Inv, OverrunByLoneBlock
<1>2. Inv(t) /\ [Next]_vars => Inv(t)'
  <2> SUFFICES ASSUME Inv(t), [Next]_vars PROVE Inv(t)'
    OBVIOUS
  <2>1. CASE UNCHANGED vars
    <3>1. /\ UNCHANGED <<fat, sb, next_alloc, freed, entry, stored, pc, reg, fault>> /\ Live' = Live
      BY <2>1 DEF vars, Live
    <3>2. Types' /\ fault' \in {"none", "overrun", "wild"} /\ OverrunByLoneBlock'
      BY <3>1 DEF Inv, Types, OverrunByLoneBlock
    <3>3. ASSUME NEW C, Shape(t, C) PROVE Shape(t, C)'
      <4>1. Own(C, Live') /\ FileChains(t, C)' /\ SystemChains(C)' /\ Allocator(t, C[New])'
        BY <3>1, <3>3 DEF Shape, FileChains, Coming, SystemChains, TableShape, Allocator
      <4>2. AtWork(t, C)' /\ Counted(t, C)' /\ Written(t)'
        BY <3>1, <3>3 DEF Shape, AtWork, Allocating, Freeing, Counted, Written
      <4> QED
        BY <4>1, <4>2 DEF Shape
    <3> QED
      BY <3>1, <3>2, <3>3 DEF Inv
  <2>2. CASE Next
    <3>1. fault = "none"
      <4>1. CASE Remount
        BY <4>1 DEF Remount, At
      <4>2. CASE Begin(t)
        BY <4>2 DEF Begin, Mknod, Unlink, Grow, Shrink, At
      <4>3. CASE Step(t)
        BY <4>3 DEF Step, Take, Advance, PlaceFirst, Expand, PlaceNext, EndChain, Attach,
           FreeNext, FreeDone, Save, At
      <4> QED
        BY <2>2, <4>1, <4>2, <4>3 DEF Next
    <3>2. PICK C : Shape(t, C)
      BY <3>1 DEF Inv
    <3>3. Follows(t, C) \/ Stops(t)
      BY <2>2, <3>2, EachStep DEF Inv
    <3>4. CASE Follows(t, C)
      BY <3>4 DEF Follows, Inv, OverrunByLoneBlock
    <3>5. CASE Stops(t)
      BY <3>5 DEF Stops, Inv, OverrunByLoneBlock, Types
    <3> QED
      BY <3>3, <3>4, <3>5
  <2> QED
    BY <2>1, <2>2
<1> QED
  BY <1>1, <1>2, PTL DEF Spec

(* Between operations the thread holds no chain, and walking the table     *)
(* from a file's first block finds the file's chain.                       *)
LEMMA WhenQuiet ==
  ASSUME NEW t, Threads = {t}, Inv(t), Quiet
  PROVE  /\ pc[t] = "idle"
         /\ \E C : /\ Shape(t, C)
                   /\ C[New] = <<>> /\ C[Pend] = <<>> /\ C[Rest] = <<>>
                   /\ \A f \in Files : Blocked(f) = C[File(f)]
<1>1. fault = "none" /\ pc[t] = "idle" /\ Types
  BY DEF Quiet, Inv
<1>2. PICK C : Shape(t, C)
  BY <1>1 DEF Inv
<1>3. C[New] = <<>> /\ C[Pend] = <<>> /\ C[Rest] = <<>> /\ FileChains(t, C)
  BY <1>1, <1>2 DEF Shape, AtWork
<1>4. ASSUME NEW f \in Files PROVE Blocked(f) = C[File(f)]
  <2>1. Coming(t, f) = entry[f] /\ Matches(C[File(f)], entry[f])
    BY <1>1, <1>3 DEF FileChains, Coming
  <2>2. CASE Exists(f)
    BY <1>1, <1>2, <2>1, <2>2, FileIs DEF Blocked
  <2>3. CASE ~Exists(f)
    <3>1. Len(C[File(f)]) = 0 /\ File(f) \in Users
      BY <2>1, <2>3, UsersAre DEF Matches, Exists, NoEntry
    <3>2. C[File(f)] = <<>>
      BY <1>1, <1>2, <3>1, Basics
    <3> QED
      BY <2>3, <3>2 DEF Blocked
  <2> QED
    BY <2>2, <2>3
<1> QED
  BY <1>1, <1>2, <1>3, <1>4

(* Chains and sizes, between operations. *)
LEMMA QuietSizes ==
  ASSUME NEW t, Threads = {t}, Inv(t)
  PROVE  ChainsFitSizes
<1> SUFFICES ASSUME Quiet, NEW f \in Files, Exists(f)
             PROVE  Len(Blocked(f)) = entry[f].blocks
  BY DEF ChainsFitSizes
<1>1. pc[t] = "idle" /\ Types
  BY WhenQuiet DEF Inv
<1>2. PICK C : Shape(t, C) /\ \A g \in Files : Blocked(g) = C[File(g)]
  BY WhenQuiet
<1>3. Matches(C[File(f)], entry[f])
  BY <1>1, <1>2 DEF Shape, FileChains, Coming
<1>4. entry[f].blocks # -1
  BY <1>1, <1>2, ExistsIs
<1> QED
  BY <1>2, <1>3, <1>4 DEF Matches

(* The users of the invariant are the parts of the property. *)
LEMMA QuietPartition ==
  ASSUME NEW t, Threads = {t}, Inv(t)
  PROVE  BlocksPartitioned
<1> DEFINE Chains == {<<0>>, <<Root>>, Chain(sb.fat_start)} \cup {Blocked(f) : f \in Files}
<1> SUFFICES ASSUME Quiet
             PROVE  /\ UNION {ToSet(c) : c \in Chains} = Live
                    /\ \A c \in Chains : IsInjective(c)
                    /\ \A c, d \in Chains : c # d => ToSet(c) \cap ToSet(d) = {}
                    /\ \A f, g \in Files : f # g /\ Blocked(f) # <<>> => Blocked(f) # Blocked(g)
  BY Zenon DEF BlocksPartitioned
<1>1. pc[t] = "idle" /\ Types
  BY WhenQuiet DEF Inv
<1>2. PICK C : /\ Shape(t, C)
               /\ C[New] = <<>> /\ C[Pend] = <<>> /\ C[Rest] = <<>>
               /\ \A f \in Files : Blocked(f) = C[File(f)]
  BY WhenQuiet
<1>3. Own(C, Live) /\ C[Fixed] = <<0, Root>>
  BY <1>2 DEF Shape, SystemChains
<1>4. Chain(sb.fat_start) = C[Table]
  BY <1>1, <1>2, TableIs
<1>5. /\ \A h \in Users : Len(C[h]) \in Nat /\ DOMAIN C[h] = 1..Len(C[h])
      /\ \A h \in Users : C[h] = <<>> <=> Len(C[h]) = 0
      /\ \A h \in Users : \A i \in 1..Len(C[h]) : C[h][i] \in Live
  <2>1. /\ \A h \in Users : Len(C[h]) \in Nat /\ C[h] \in Seq(Live)
        /\ \A h \in Users : C[h] = <<>> <=> Len(C[h]) = 0
        /\ \A h \in Users : \A i \in 1..Len(C[h]) : C[h][i] \in Live
    BY <1>1, <1>2, Basics
  <2> QED
    BY <2>1, LenProperties
<1>6. /\ Len(C[Fixed]) = 2 /\ C[Fixed][1] = 0 /\ C[Fixed][2] = Root
      /\ 1 \in 1..Len(C[Fixed]) /\ 2 \in 1..Len(C[Fixed])
  BY <1>3
<1>7. /\ DOMAIN <<0>> = {1} /\ <<0>>[1] = 0
      /\ DOMAIN <<Root>> = {1} /\ <<Root>>[1] = Root
  OBVIOUS
(* Each entry of one of these chains is a place of a user's chain. *)
<1> DEFINE Placed(c, i, h, k) ==
             /\ k \in 1..Len(C[h]) /\ C[h][k] = c[i]
             /\ \/ h = Fixed /\ c = <<C[h][k]>> /\ i = 1
                \/ h # Fixed /\ c = C[h] /\ i = k
<1>9. ASSUME NEW c \in Chains, NEW i \in DOMAIN c
      PROVE  \E h \in Users : \E k : Placed(c, i, h, k)
  <2>1. CASE c = <<0>>
    <3>1. Placed(c, i, Fixed, 1)
      BY <1>6, <1>7, <2>1
    <3> QED
      BY <3>1, UsersAre
  <2>2. CASE c = <<Root>>
    <3>1. Placed(c, i, Fixed, 2)
      BY <1>6, <1>7, <2>2
    <3> QED
      BY <3>1, UsersAre
  <2>3. CASE c = C[Table]
    <3>1. Placed(c, i, Table, i)
      BY <1>5, <2>3, UsersAre
    <3> QED
      BY <3>1, UsersAre
  <2>4. ASSUME NEW f \in Files, c = C[File(f)]
        PROVE  \E h \in Users : \E k : Placed(c, i, h, k)
    <3>1. Placed(c, i, File(f), i)
      BY <1>5, <2>4, UsersAre
    <3> QED
      BY <3>1, UsersAre
  <2> QED
    BY <1>2, <1>4, <2>1, <2>2, <2>3, <2>4
<1>10. ASSUME NEW c \in Chains, NEW i \in DOMAIN c, NEW d \in Chains, NEW j \in DOMAIN d, c[i] = d[j]
       PROVE  c = d /\ i = j
  <2>1. PICK h \in Users : \E k : Placed(c, i, h, k)
    BY <1>9
  <2>2. PICK k : Placed(c, i, h, k)
    BY <2>1
  <2>3. PICK g \in Users : \E l : Placed(d, j, g, l)
    BY <1>9
  <2>4. PICK l : Placed(d, j, g, l)
    BY <2>3
  <2>5. C[h][k] = C[g][l] /\ k \in 1..Len(C[h]) /\ l \in 1..Len(C[g])
    BY <1>10, <2>2, <2>4
  <2>6. h = g /\ k = l
    BY <1>3, <2>5, OwnOnce
  <2> QED
    BY <2>2, <2>4, <2>6
<1>11. \A c \in Chains : IsInjective(c)
  BY <1>10, Zenon DEF IsInjective
<1>12. \A c, d \in Chains : c # d => ToSet(c) \cap ToSet(d) = {}
  BY <1>10 DEF ToSet
<1>13. UNION {ToSet(c) : c \in Chains} \subseteq Live
  <2> SUFFICES ASSUME NEW c \in Chains, NEW i \in DOMAIN c PROVE c[i] \in Live
    BY DEF ToSet
  <2> QED
    BY <1>5, <1>9
<1>14. Live \subseteq UNION {ToSet(c) : c \in Chains}
  <2> SUFFICES ASSUME NEW b \in Live PROVE \E c \in Chains : \E i \in DOMAIN c : c[i] = b
    BY DEF ToSet
  <2>1. PICK h \in Users : \E i \in 1..Len(C[h]) : C[h][i] = b
    BY <1>3, Zenon DEF Own
  <2>2. PICK i \in 1..Len(C[h]) : C[h][i] = b
    BY <2>1
  <2>3. h \notin {New, Pend, Rest}
    <3>1. Len(C[h]) # 0
      BY <1>5, <2>2
    <3> QED
      BY <1>2, <1>5, <3>1
  <2>4. CASE h = Table
    BY <1>4, <1>5, <2>2, <2>4
  <2>5. CASE h = Fixed
    <3>1. i = 1 \/ i = 2
      BY <1>6, <2>2, <2>5
    <3> QED
      BY <1>6, <1>7, <2>2, <2>5, <3>1
  <2>6. ASSUME NEW f \in Files, h = File(f) PROVE \E c \in Chains : \E j \in DOMAIN c : c[j] = b
    <3>1. C[h] \in Chains
      BY <1>2, <2>6
    <3> QED
      BY <1>5, <2>2, <3>1
  <2> QED
    BY <2>3, <2>4, <2>5, <2>6, UsersAre
<1>15. ASSUME NEW f \in Files, NEW g \in Files, f # g, Blocked(f) # <<>>
       PROVE  Blocked(f) # Blocked(g)
  <2> SUFFICES ASSUME Blocked(f) = Blocked(g) PROVE FALSE
    OBVIOUS
  <2>1. File(f) \in Users /\ File(g) \in Users /\ File(f) # File(g)
    BY <1>15, UsersAre
  <2>2. C[File(f)] = C[File(g)] /\ C[File(f)] # <<>>
    BY <1>2, <1>15
  <2>3. 1 \in 1..Len(C[File(f)]) /\ 1 \in 1..Len(C[File(g)]) /\ C[File(f)][1] = C[File(g)][1]
    BY <1>5, <2>1, <2>2
  <2> QED
    BY <1>3, <2>1, <2>3, OwnOnce
<1> QED
  BY <1>11, <1>12, <1>13, <1>14, <1>15

(* No chain is under construction, and all is written. *)
LEMMA QuietCounts ==
  ASSUME NEW t, Threads = {t}, Inv(t)
  PROVE  FreeBlocksCounted /\ TableReadable
<1> SUFFICES ASSUME Quiet
             PROVE  /\ sb.free_blocks = sb.fat_size - Cardinality(Live)
                    /\ read_fat = fat /\ stored.sb = sb
  BY DEF FreeBlocksCounted, TableReadable
<1>1. pc[t] = "idle" /\ Types
  BY WhenQuiet DEF Inv
<1>2. PICK C : Shape(t, C) /\ C[New] = <<>> /\ C[Pend] = <<>>
  BY WhenQuiet
<1>3. Counted(t, C) /\ Written(t)
  BY <1>2 DEF Shape
<1>4. read_fat = fat /\ stored.sb = sb
  BY <1>1, <1>2, <1>3, ReadBack DEF Written
<1>5. sb.free_blocks = sb.fat_size - Cardinality(Live)
  <2>1. sb.fat_size \in Int /\ sb.free_blocks \in Int /\ Cardinality(Live) \in Int
    BY <1>1, LiveCounts DEF Types
  <2>2. Len(C[New]) = 0 /\ Len(C[Pend]) = 0
    BY <1>2
  <2> QED
    BY <1>1, <1>3, <2>1, <2>2 DEF Counted
<1> QED
  BY <1>4, <1>5

(* A walk through the table is a sequence, and from FAT_NULL it is empty. *)
LEMMA ChainsAre ==
  ASSUME Types, NEW p
  PROVE  /\ AtTheEnd(Chain(p), Chain(p)) /\ Chain(FAT_NULL) = <<>>
         /\ AtTheEnd(<<>>, Chain(p)) /\ AtTheEnd(Chain(p), <<>>)
<1> DEFINE next == [b \in Blocks \cup {Cut} |->
                      IF b \in DOMAIN fat \ {FAT_NULL} THEN fat[b] ELSE FAT_NULL]
           step(w) == [k \in 0..MaxBlocks |-> IF k = 0 THEN p ELSE next[w[k - 1]]]
           walk == CHOOSE w : w = step(w)
           alive == {k \in 0..MaxBlocks : walk[k] \notin {FAT_NULL, Cut}}
<1>0. Chain(p) = [k \in 1..Cardinality(alive) |-> walk[k - 1]]
  BY DEF Chain, ChainIn
<1>1. PICK node : node = walk
  OBVIOUS
<1>2. PICK S : S = alive
  OBVIOUS
<1>3. Cardinality(S) \in Nat
  <2>1. IsFiniteSet(0..MaxBlocks)
    <3>1. 0 \in Int /\ MaxBlocks \in Int
      BY FatAssumption
    <3> QED
      BY <3>1, FS_Interval, Zenon
  <2>2. S \in SUBSET (0..MaxBlocks)
    BY <1>2
  <2>3. IsFiniteSet(S)
    BY <2>1, <2>2, FS_Subset
  <2> QED
    BY <2>3, FS_CardinalityType
<1>4. PICK n \in Nat : n = Cardinality(S)
  BY <1>3
<1>5. PICK s : s = Chain(p)
  OBVIOUS
<1>6. s = [k \in 1..n |-> node[k - 1]]
  <2> HIDE DEF walk
  <2> QED
    BY <1>0, <1>1, <1>2, <1>4, <1>5
<1>7. PICK E : E = {node[k - 1] : k \in 1..n}
  OBVIOUS
<1>8. s \in Seq(E)
  <2>1. s \in [1..n -> E]
    BY <1>6, <1>7
  <2> QED
    BY <2>1, SeqDef
<1>9. AtTheEnd(s, s) /\ AtTheEnd(s, <<>>) /\ AtTheEnd(<<>>, s)
  <2>1. 0 \in 0..Len(s)
    BY <1>8, LenProperties
  <2>2. AtTheEnd(s, SubSeq(s, 1, 0)) /\ SubSeq(s, 1, 0) = <<>>
    BY <1>8, <2>1, Parts, EmptySeq
  <2> QED
    BY <1>8, <2>2, SameAtTheEnd DEF AtTheEnd
<1>10. Chain(FAT_NULL) = <<>>
  <2>1. /\ First(<<>>) = FAT_NULL /\ <<>> \in Seq(Blocks) /\ Len(<<>>) = 0
        /\ Whole(fat, <<>>)
    BY DEF First, Whole, Links, Ends
  <2>2. sb.fat_size \in Nat /\ fat \in [0..(sb.fat_size - 1) -> Blocks \cup {Cut}]
    BY DEF Types
  <2>3. \A i \in 1..Len(<<>>) : FALSE
    BY <2>1
  <2>4. ChainIn(fat, First(<<>>)) = <<>>
    BY <2>1, <2>2, <2>3, ChainIs
  <2> QED
    BY <2>1, <2>4 DEF Chain
<1> QED
  BY <1>5, <1>9, <1>10

(* The files' chains of the invariant are the ones that walks find. *)
FilesFound(t) ==
  fault = "none" =>
    \A C : Shape(t, C) => \A f \in Files : Chain(Coming(t, f).start) = C[File(f)]

(* It follows from the invariant. *)
LEMMA FilesAreFound ==
  ASSUME NEW t, Threads = {t}, Inv(t)
  PROVE  FilesFound(t)
BY FileIs DEF Inv, FilesFound

(* A file's chain changes at its end when a table entry is stored ...      *)
LEMMA StoredAtTheEnd ==
  ASSUME NEW t, Threads = {t}, Inv(t), FilesFound(t), FilesFound(t)', Next, fault' = "none",
         entry' = entry, fault = "none",
         \A g \in Files : /\ Coming(t, g).start = entry[g].start
                          /\ Coming(t, g)'.start = entry[g].start,
         NEW f \in Files, Exists(f)
  PROVE  AtTheEnd(Blocked(f), Blocked(f)')
<1>1. PICK C : Shape(t, C)
  BY DEF Inv
<1>2. ~Stops(t)
  BY DEF Stops
<1>3. Follows(t, C)
  BY <1>1, <1>2, EachStep DEF Inv
<1>4. PICK D : Shape(t, D)' /\ AtTheEnd(C[File(f)], D[File(f)])
  BY <1>3 DEF Follows
<1>5. Blocked(f) = C[File(f)]
  BY <1>1 DEF FilesFound, Blocked
<1>6. Blocked(f)' = D[File(f)]
  BY <1>4 DEF FilesFound, Blocked, Exists
<1> QED
  BY <1>4, <1>5, <1>6

(* ... and when an entry is saved, and at no other step. *)
LEMMA ChangesAtTheEnd ==
  ASSUME NEW t, Threads = {t}, Inv(t), FilesFound(t), FilesFound(t)', [Next]_vars,
         NEW f \in Files, Exists(f), Exists(f)'
  PROVE  AtTheEnd(Blocked(f), Blocked(f)')
<1>1. Types /\ t \in Threads /\ pc[t] \in Steps
  BY DEF Inv, Types
<1>2. CASE fat' = fat /\ entry'[f] = entry[f]
  <2>1. Blocked(f)' = Blocked(f)
    BY <1>2 DEF Blocked, Exists, Chain, ChainIn
  <2> QED
    BY <1>1, <2>1, ChainsAre DEF Blocked
<1>3. CASE Save(t)
  <2>1. /\ pc[t] = "save" /\ fault = "none" /\ fat' = fat
        /\ entry' = [entry EXCEPT ![reg[t].file] =
                       IF reg[t].op = "truncate" /\ Exists(reg[t].file)
                       THEN [start |-> reg[t].de.start, blocks |-> reg[t].want] ELSE NoEntry]
    BY <1>3 DEF Save, At
  <2>2. CASE f # reg[t].file
    BY <1>1, <1>2, <2>1, <2>2 DEF Types
  <2>3. CASE f = reg[t].file
    <3>1. PICK C : Shape(t, C)
      BY <2>1 DEF Inv
    <3>2. Freeing(t, C[Rest])
      BY <2>1, <3>1 DEF Shape, AtWork
    <3>3. reg[t].op = "truncate" /\ entry'[f] = [start |-> reg[t].de.start, blocks |-> reg[t].want]
      BY <1>1, <2>1, <2>3 DEF Types, Exists
    <3>4. Blocked(f) = Chain(entry[f].start) /\ Blocked(f)' = Chain(reg[t].de.start)
      <4>1. Blocked(f)' = ChainIn(fat', entry'[f].start)
        BY DEF Blocked, Chain
      <4>2. Blocked(f) = ChainIn(fat, entry[f].start)
        BY DEF Blocked, Chain
      <4> QED
        BY <2>1, <3>3, <4>1, <4>2 DEF Chain
    <3>5. \/ reg[t].de.start = entry[f].start
          \/ reg[t].de.start = FAT_NULL
          \/ entry[f].start = FAT_NULL
      BY <2>3, <3>2, <3>3 DEF Freeing
    <3> QED
      BY <1>1, <3>4, <3>5, ChainsAre
  <2> QED
    BY <2>2, <2>3
<1>4. CASE \E g \in Files : Mknod(t, g)
  <2>1. PICK g \in Files : Mknod(t, g)
    BY <1>4
  <2>2. g # f
    BY <2>1 DEF Mknod
  <2> QED
    BY <1>1, <1>2, <2>1, <2>2 DEF Mknod, Types
<1>5. CASE PlaceNext(t) \/ Expand(t) \/ EndChain(t)
  <2>1. CASE fat' = fat
    BY <1>2, <1>5, <2>1 DEF PlaceNext, Expand, EndChain, Fails
  <2>2. CASE fat' # fat
    <3>1. /\ fault = "none" /\ fault' = "none" /\ entry' = entry /\ pc[t] \in {"place", "alloc"}
      BY <1>5, <2>2 DEF PlaceNext, Expand, EndChain, Fails, At
    <3>2. pc'[t] \in {"place", "alloc", "attach"}
      BY <1>1, <1>5, <2>2 DEF PlaceNext, Expand, EndChain, Fails, At, Goto, Types
    <3>3. \A g \in Files : /\ Coming(t, g).start = entry[g].start
                           /\ Coming(t, g)'.start = entry[g].start
      BY <3>1, <3>2 DEF Coming
    <3>4. Next
      BY <1>1, <1>5 DEF Next, Step
    <3> QED
      BY <3>1, <3>3, <3>4, StoredAtTheEnd
  <2> QED
    BY <2>1, <2>2
<1>6. CASE Attach(t)
  <2>1. CASE fat' = fat
    BY <1>2, <1>6, <2>1 DEF Attach, Fails
  <2>2. CASE fat' # fat
    <3>1. /\ fault = "none" /\ fault' = "none" /\ entry' = entry /\ pc[t] = "attach" /\ reg' = reg
          /\ pc' = [pc EXCEPT ![t] = "save"]
      BY <1>6, <2>2 DEF Attach, Fails, At, Goto
    <3>2. PICK C : Shape(t, C)
      BY <3>1 DEF Inv
    <3>3. reg[t].de = entry[reg[t].file] /\ reg[t].op = "truncate"
      BY <3>1, <3>2 DEF Shape, AtWork, Allocating
    <3>4. \A g \in Files : /\ Coming(t, g).start = entry[g].start
                           /\ Coming(t, g)'.start = entry[g].start
      BY <3>1, <3>3 DEF Coming
    <3>5. Next
      BY <1>1, <1>6 DEF Next, Step
    <3> QED
      BY <3>1, <3>4, <3>5, StoredAtTheEnd
  <2> QED
    BY <2>1, <2>2
<1>7. CASE \E g \in Files : \E n \in 0..MaxFile : Shrink(t, g, n)
  <2>1. PICK g \in Files, n \in 0..MaxFile : Shrink(t, g, n)
    BY <1>7
  <2>2. CASE fat' = fat
    BY <1>2, <2>1, <2>2 DEF Shrink, Fails
  <2>3. CASE fat' # fat
    <3> DEFINE r == [NoLocals EXCEPT !.op = "truncate", !.file = g, !.want = n]
    <3>1. PICK c : /\ fault = "none" /\ fault' = "none" /\ entry' = entry /\ pc[t] = "idle"
                   /\ pc' = [pc EXCEPT ![t] = "free"]
                   /\ reg' = [reg EXCEPT ![t] = [r EXCEPT !.de = entry[g], !.cur = c]]
      BY <2>1, <2>3 DEF Shrink, Fails, At, Goto, Set
    <3>2. /\ pc'[t] = "free" /\ reg'[t].op = "truncate" /\ reg'[t].file = g
          /\ reg'[t].de = entry[g]
      BY <1>1, <3>1 DEF Types, NoLocals
    <3>3. \A h \in Files : /\ Coming(t, h).start = entry[h].start
                           /\ Coming(t, h)'.start = entry[h].start
      BY <3>1, <3>2 DEF Coming
    <3>4. Next
      BY <1>1, <2>1 DEF Next, Begin
    <3> QED
      BY <3>1, <3>3, <3>4, StoredAtTheEnd
  <2> QED
    BY <2>2, <2>3
<1>8. CASE UNCHANGED vars
  BY <1>2, <1>8 DEF vars
<1>9. CASE Remount
  <2>1. PICK C : Shape(t, C)
    BY <1>9 DEF Remount, At, Inv
  <2>2. stored = [part |-> write_fat(fat, sb), sb |-> sb]
    BY <1>1, <1>9, <2>1 DEF Shape, Written, Remount, At
  <2>3. fat' = fat /\ entry' = entry
    BY <1>1, <1>9, <2>1, <2>2, ReadBack DEF Remount
  <2> QED
    BY <1>2, <2>3
<1>10. CASE \E g \in Files : Unlink(t, g) \/ \E n \in 0..MaxFile : Grow(t, g, n)
  BY <1>2, <1>10 DEF Unlink, Grow
<1>11. CASE Take(t) \/ Advance(t) \/ PlaceFirst(t) \/ FreeNext(t) \/ FreeDone(t)
  BY <1>2, <1>11 DEF Take, Advance, PlaceFirst, FreeNext, FreeDone, Fails
<1>12. CASE Next
  <2>1. CASE Begin(t)
    BY <1>4, <1>7, <1>10, <2>1 DEF Begin
  <2>2. CASE Step(t)
    BY <1>3, <1>5, <1>6, <1>11, <2>2 DEF Step
  <2> QED
    BY <1>9, <1>12, <2>1, <2>2 DEF Next
<1> QED
  BY <1>8, <1>12

-----------------------------------------------------------------------------
(* The theorems. *)

(* Every variable keeps its type, and the table as many entries as the     *)
(* superblock says (realloc_fat, fatfs.c).                                 *)
THEOREM TableTypes ==
  ASSUME NEW t, Threads = {t}
  PROVE  Spec => []TypeOK
<1>1. Inv(t) => TypeOK
  <2> SUFFICES ASSUME Inv(t) PROVE TypeOK
    OBVIOUS
  <2>1. Types /\ fault \in {"none", "overrun", "wild"}
    BY DEF Inv
  <2> QED
    BY <2>1 DEF Types, TypeOK, Steps, Locals, Entries
<1> QED
  BY <1>1, InvAlways, PTL

(* Whatever sequence of operations has ended, each file has as many blocks *)
(* as its directory entry says (fatfs_truncate, fatfs_unlink).             *)
THEOREM SizesAlwaysFit ==
  ASSUME NEW t, Threads = {t}
  PROVE  Spec => []ChainsFitSizes
<1>1. Inv(t) => ChainsFitSizes
  BY QuietSizes
<1> QED
  BY <1>1, InvAlways, PTL

(* When no operation is under way, the blocks in use are those of the      *)
(* superblock, the root directory, the table and the files, each of one    *)
(* owner: alloc_blocks and free_blocks neither leak nor share a block.     *)
THEOREM PartitionStays ==
  ASSUME NEW t, Threads = {t}
  PROVE  Spec => []BlocksPartitioned
<1>1. Inv(t) => BlocksPartitioned
  BY QuietPartition
<1> QED
  BY <1>1, InvAlways, PTL

(* The superblock's free_blocks is the number of table entries that are    *)
(* not of blocks in use, however the table has grown.                      *)
THEOREM CountIsRight ==
  ASSUME NEW t, Threads = {t}
  PROVE  Spec => []FreeBlocksCounted
<1>1. Inv(t) => FreeBlocksCounted
  BY QuietCounts
<1> QED
  BY <1>1, InvAlways, PTL

(* Whenever the file system may be unmounted, read_fat finds the table as  *)
(* it was in memory: every part lies behind an entry read before it.       *)
THEOREM TableIsReadBack ==
  ASSUME NEW t, Threads = {t}
  PROVE  Spec => []TableReadable
<1>1. Inv(t) => TableReadable
  BY QuietCounts
<1> QED
  BY <1>1, InvAlways, PTL

(* free_blocks never gives the block layer a number it has already.        *)
THEOREM NothingFreedTwice ==
  ASSUME NEW t, Threads = {t}
  PROVE  Spec => []NeverFreedTwice
<1>1. Inv(t) => NeverFreedTwice
  BY DEF Inv, NeverFreedTwice
<1> QED
  BY <1>1, InvAlways, PTL

(* Only the entry of a chain's one block may be stored behind the table,   *)
(* for alloc_blocks compares no first block with the table's size.         *)
THEOREM OnlyLoneBlocksOverrun ==
  ASSUME NEW t, Threads = {t}
  PROVE  Spec => []OverrunByLoneBlock
<1>1. Inv(t) => OverrunByLoneBlock
  BY DEF Inv
<1> QED
  BY <1>1, InvAlways, PTL

(* No step takes a block out of the middle of a file's chain, or puts one  *)
(* there.                                                                  *)
THEOREM ChainsKeepTheirBlocks ==
  ASSUME NEW t, Threads = {t}
  PROVE  Spec => ChainsChangeAtTheEnd
<1>1. Inv(t) => FilesFound(t)
  BY FilesAreFound
<1>2. Inv(t) /\ FilesFound(t) /\ FilesFound(t)' /\ [Next]_vars =>
        [\A f \in Files : Exists(f) /\ Exists(f)' =>
           \/ IsPrefix(Blocked(f), Blocked(f)')
           \/ IsPrefix(Blocked(f)', Blocked(f))]_vars
  BY ChangesAtTheEnd DEF AtTheEnd
<1> QED
  BY <1>1, <1>2, InvAlways, PTL DEF Spec, ChainsChangeAtTheEnd
=============================================================================
