---------------------------- MODULE FatFsProofs ----------------------------
(***************************************************************************)
(* Theorems about directories.                                             *)
(*                                                                         *)
(* The invariant DirsInv says that the disk is Tidy for some set X of      *)
(* directories, a function C from each of them to the blocks of its chain, *)
(* and a set E that has the entry which unlink, rmdir or rename is about to*)
(* delete, while one waits.  Each part has a name:                         *)
(*                                                                         *)
(*   Layout   the disk has its type; blocks 0 and 1 are in use;            *)
(*   Own      a chain starts at its directory, follows the table to its    *)
(*            end, and shares no block with another;                       *)
(*   Dots     entries lie in chains; each directory starts with "." and    *)
(*            "..", and "." has the number of its blocks;                  *)
(*   Leads    an entry leads to a directory, to the block of a link that   *)
(*            nothing else has, or nowhere, and                            *)
(*   Single   no two entries lead to the same block;                       *)
(*   Lost     leaked blocks are in use, in no directory;                   *)
(*   Waits    what E is, and what became of the blocks it led to;          *)
(*   Covers   each block in use is leaked, in a directory or in a link;    *)
(*   Reach    the entries lead from the root to every directory;           *)
(*   Unique   a directory has no two entries with one name.                *)
(*                                                                         *)
(* Below, one lemma for each function of the module FatFs says what it does*)
(* to these parts, one for each operation that it keeps them all.  The last*)
(* section proves that the names on the disk implement the module Names:   *)
(* Graph lists the names as rows, and each step adds, drops or replaces one.*)
(***************************************************************************)
EXTENDS FatFs, TLAPS, WellFoundedInduction, FiniteSetTheorems, SequenceTheorems

(* Every set of natural numbers that is not empty has a least element.     *)
LEMMA LeastNumber ==
  ASSUME NEW S, S \subseteq Nat, S # {}
  PROVE  \E m \in S : \A x \in S : m <= x
<1>1. IsWellFoundedOn(OpToRel(<, Nat), Nat)
  BY NatLessThanWellFounded
<1>2. PICK m \in S : \A x \in S : ~(<<x, m>> \in OpToRel(<, Nat))
  BY <1>1, WFMin
<1>3. \A x \in S : ~(x < m)
  <2> TAKE x \in S
  <2>1. x \in Nat /\ m \in Nat
    OBVIOUS
  <2>2. x < m => <<x, m>> \in OpToRel(<, Nat)
    BY <2>1, Zenon DEF OpToRel
  <2> QED
    BY <1>2, <2>2
<1> QED
  BY <1>3

(* A set of natural numbers below a bound has a greatest element, unless   *)
(* it is empty.                                                            *)
LEMMA GreatestNumber ==
  ASSUME NEW n \in Nat, NEW S, S \subseteq 0..n, S # {}
  PROVE  \E m \in S : \A x \in S : x <= m
<1> DEFINE R == {n - x : x \in S}
<1>0. PICK x0 \in S : TRUE
  OBVIOUS
<1>1. R \subseteq Nat /\ n - x0 \in R
  BY <1>0
<1>2. PICK r \in R : \A y \in R : r <= y
  BY <1>1, LeastNumber
<1>3. PICK m \in S : r = n - m
  OBVIOUS
<1>4. \A x \in S : n - m <= n - x
  BY <1>2, <1>3
<1> QED
  BY <1>4

(* Induction without an operator parameter: a set of natural numbers that  *)
(* has 0, and the successor of each of its numbers, has them all.          *)
LEMMA InductiveSet ==
  ASSUME NEW S, 0 \in S, \A i \in Nat : i \in S => i + 1 \in S
  PROVE  Nat \subseteq S
<1> DEFINE T == Nat \ S
<1>1. SUFFICES ASSUME T # {} PROVE FALSE
  OBVIOUS
<1>2. PICK m \in T : \A x \in T : m <= x
  BY <1>1, LeastNumber
<1>3. m # 0 /\ m - 1 \in Nat /\ m - 1 \notin T
  BY <1>2
<1> QED
  BY <1>3

-----------------------------------------------------------------------------
Entries == [name : Sources, kind : Kinds, perm : Perms,
            start : Blocks, size : 0..MaxBlocks]
Disks == [used : SUBSET Blocks, fat : [Blocks -> Blocks], dir : [Blocks -> Seq(Entries)]]

(* The table leads from each block of a chain to the next; there it ends.  *)
Linked(k, s) ==
  /\ s # <<>>
  /\ \A i \in 1..(Len(s) - 1) : k.fat[s[i]] = s[i + 1]
  /\ k.fat[s[Len(s)]] = FAT_NULL
Distinct(s) == \A i, j \in 1..Len(s) : s[i] = s[j] => i = j

(* Directories X have the chains C, and no block is in two of them.        *)
Holds(X, C, b) == \E d \in X : b \in ToSet(C[d])
Own(k, X, C) ==
  /\ X \subseteq Blocks /\ RootDir \in X
  /\ C \in [X -> Seq(k.used \ {0, 1})]
  /\ \A d \in X : Linked(k, C[d]) /\ C[d][1] = d
  /\ \A d, e \in X : \A i \in 1..Len(C[d]), j \in 1..Len(C[e]) :
       C[d][i] = C[e][j] => d = e /\ i = j

(* The first two blocks are never freed, and a block has so many entries.   *)
Layout(k) ==
  /\ k \in Disks /\ {0, 1} \subseteq k.used
  /\ \A b \in Blocks : Len(k.dir[b]) <= FILES_PER_DIR

(* Entries lie in the blocks of directories, the first two of each are ".", *)
(* with the directory's size, and ".."; users have named the others.       *)
Dots(k, X, C) ==
  /\ \A b \in Blocks : k.dir[b] # <<>> => Holds(X, C, b)
  /\ \A d \in X :
       /\ Len(k.dir[d]) >= 2
       /\ k.dir[d][1].name = "." /\ k.dir[d][2].name = ".."
       /\ k.dir[d][1].start = d /\ k.dir[d][1].size = Len(C[d])
  /\ \A b \in Blocks : \A i \in 1..Len(k.dir[b]) :
       k.dir[b][i].name \in NameSet \/ (b \in X /\ i \in {1, 2})

(* Places of entries that users have named.                                *)
Live(k) ==
  {p \in Blocks \X (1..FILES_PER_DIR) :
     p[2] <= Len(k.dir[p[1]]) /\ At(k, p).name \in NameSet}

(* A block in use, but in no directory.                                    *)
Loose(k, X, C, b) ==
  b \in k.used \ {0, 1} /\ ~Holds(X, C, b) /\ k.fat[b] = FAT_NULL

(* What entries lead to, except those in E: directories and links have one *)
(* entry, and the root has none; leaked blocks have none, either.          *)
LeadsTo(k, X, C, L, e) ==
  /\ e.kind = "dir" => e.start \in X \ {RootDir}
  /\ e.kind = "link" => Loose(k, X, C, e.start) /\ e.start \notin L
  /\ e.kind = "file" => e.start = FAT_NULL
Leads(k, X, C, E, L) == \A p \in Live(k) \ E : LeadsTo(k, X, C, L, At(k, p))
Single(k, E) ==
  \A p, q \in Live(k) \ E :
    At(k, p).start = At(k, q).start /\ At(k, p).start # FAT_NULL => p = q
Lost(k, X, C, L) == L \subseteq k.used \ {0, 1} /\ \A b \in L : ~Holds(X, C, b)

(* What the directories of a disk look like, but for the entries in E, when *)
(* the blocks in L are lost.                                                *)
Shape(k, X, C, E, L) ==
  /\ Layout(k) /\ Own(k, X, C) /\ Dots(k, X, C)
  /\ Leads(k, X, C, E, L) /\ Single(k, E) /\ Lost(k, X, C, L)

-----------------------------------------------------------------------------
(* A function can be applied again and again.                              *)
Orbit(f, A, F, a, n) ==
  f \in [0..n -> A] /\ f[0] = a /\ \A i \in 1..n : f[i] = F[f[i - 1]]
LEMMA Iterates ==
  ASSUME NEW A, NEW F, F \in [A -> A], NEW a \in A, NEW n \in Nat
  PROVE  \E f : Orbit(f, A, F, a, n)
<1> DEFINE Fits(f, m) == f[0] = a /\ \A i \in 1..m : f[i] = F[f[i - 1]]
           T == {m \in Nat : \E f : Orbit(f, A, F, a, m)}
<1>1. 0 \in T
  <2>1. [i \in 0..0 |-> a] \in [0..0 -> A] /\ Fits([i \in 0..0 |-> a], 0)
    OBVIOUS
  <2>2. Orbit([i \in 0..0 |-> a], A, F, a, 0)
    BY <2>1 DEF Orbit
  <2> QED
    BY <2>2
<1>2. ASSUME NEW m \in Nat, m \in T PROVE m + 1 \in T
  <2>0. PICK f : Orbit(f, A, F, a, m)
    BY <1>2
  <2>1. f \in [0..m -> A] /\ Fits(f, m)
    BY <2>0 DEF Orbit
  <2> DEFINE g == [i \in 0..(m + 1) |-> IF i <= m THEN f[i] ELSE F[f[m]]]
  <2>2. f[m] \in A /\ F[f[m]] \in A
    BY <2>1
  <2>3. g \in [0..(m + 1) -> A]
    BY <2>1, <2>2
  <2>4. g[0] = a
    BY <2>1
  <2>5. ASSUME NEW i \in 1..(m + 1) PROVE g[i] = F[g[i - 1]]
    <3>1. i - 1 \in 0..m /\ g[i - 1] = f[i - 1]
      OBVIOUS
    <3>2. CASE i <= m
      BY <2>1, <3>1, <3>2
    <3>3. CASE i = m + 1
      BY <2>2, <3>1, <3>3
    <3> QED
      BY <3>2, <3>3
  <2>6. Orbit(g, A, F, a, m + 1)
    <3> HIDE DEF g
    <3> QED
      BY <2>3, <2>4, <2>5 DEF Orbit
  <2> QED
    <3> HIDE DEF g
    <3> QED
      BY <2>6
<1>3. Nat \subseteq T
  <2> HIDE DEF T
  <2> QED
    BY <1>1, <1>2, InductiveSet
<1> QED
  BY <1>3

(* The walk along the table is there, and it gives sequences of blocks.    *)
Walked(k, n, w) ==
  [b \in Blocks |-> IF n = 0 \/ b = FAT_NULL THEN <<>> ELSE <<b>> \o w[n - 1][k.fat[b]]]
LEMMA Walks ==
  ASSUME NEW k \in Disks
  PROVE  \E w \in [0..MaxBlocks -> [Blocks -> Seq(Blocks)]] :
           /\ w = [n \in 0..MaxBlocks |-> Walked(k, n, w)]
           /\ \A start : Chain(k, start) = w[MaxBlocks][start]
<1> DEFINE A == [Blocks -> Seq(Blocks)]
           F == [v \in A |-> [b \in Blocks |->
                   IF b = FAT_NULL THEN <<>> ELSE <<b>> \o v[k.fat[b]]]]
           none == [b \in Blocks |-> <<>>]
           step(w) == [n \in 0..MaxBlocks |->
             [b \in Blocks |->
                IF n = 0 \/ b = FAT_NULL THEN <<>> ELSE <<b>> \o w[n - 1][k.fat[b]]]]
           walk == CHOOSE w : w = step(w)
<1>1. MaxBlocks \in Nat /\ k.fat \in [Blocks -> Blocks]
  BY FatFsAssumption DEF Disks
<1>2. F \in [A -> A]
  <2>1. ASSUME NEW v \in A, NEW b \in Blocks
        PROVE  (IF b = FAT_NULL THEN <<>> ELSE <<b>> \o v[k.fat[b]]) \in Seq(Blocks)
    <3>1. v[k.fat[b]] \in Seq(Blocks) /\ <<b>> \in Seq(Blocks) /\ <<>> \in Seq(Blocks)
      BY <1>1
    <3>2. <<b>> \o v[k.fat[b]] \in Seq(Blocks)
      BY <3>1, ConcatProperties
    <3> QED
      BY <3>1, <3>2
  <2> QED
    BY <2>1, Zenon
<1>3. none \in A
  OBVIOUS
<1>4. PICK f \in [0..MaxBlocks -> A] :
         f[0] = none /\ \A i \in 1..MaxBlocks : f[i] = F[f[i - 1]]
  <2> HIDE DEF A, F, none
  <2>1. \E f : Orbit(f, A, F, none, MaxBlocks)
    BY <1>1, <1>2, <1>3, Iterates
  <2> QED
    BY <2>1 DEF Orbit
<1>5. ASSUME NEW n \in 0..MaxBlocks PROVE f[n] = step(f)[n]
  <2>1. CASE n = 0
    BY <2>1, <1>4
  <2>2. CASE n # 0
    <3>1. n \in 1..MaxBlocks /\ n - 1 \in 0..MaxBlocks /\ f[n - 1] \in A
      <4> HIDE DEF A
      <4> QED
        BY <2>2, <1>1
    <3>2. f[n] = F[f[n - 1]]
      BY <1>4, <3>1
    <3>3. F[f[n - 1]] = [b \in Blocks |->
             IF b = FAT_NULL THEN <<>> ELSE <<b>> \o f[n - 1][k.fat[b]]]
      <4> HIDE DEF A
      <4> QED
        BY <3>1
    <3> QED
      BY <2>2, <3>2, <3>3
  <2> QED
    BY <2>1, <2>2
<1>6. f = step(f)
  <2> HIDE DEF A, F, none
  <2>1. DOMAIN step(f) = 0..MaxBlocks
    OBVIOUS
  <2> QED
    BY <1>5, <2>1
<1>7. walk = step(walk)
  <2> HIDE DEF step
  <2> QED
    BY <1>6
<1>8. walk = f
  <2> HIDE DEF walk, F
  <2> DEFINE T == {n \in Nat : n <= MaxBlocks => walk[n] = f[n]}
  <2>1. 0 \in T
    <3>1. walk[0] = [b \in Blocks |-> <<>>] /\ f[0] = [b \in Blocks |-> <<>>]
      BY <1>1, <1>4, <1>7
    <3> QED
      BY <3>1
  <2>2. ASSUME NEW n \in Nat, n \in T PROVE n + 1 \in T
    <3> SUFFICES ASSUME n + 1 <= MaxBlocks PROVE walk[n + 1] = f[n + 1]
      OBVIOUS
    <3>1. n + 1 \in 0..MaxBlocks /\ (n + 1) - 1 = n
      BY <1>1
    <3>2. walk[n] = f[n]
      BY <1>1, <2>2
    <3>3. walk[n + 1] = step(walk)[n + 1] /\ f[n + 1] = step(f)[n + 1]
      <4> HIDE DEF step
      <4> QED
        BY <1>6, <1>7
    <3> QED
      BY <3>1, <3>2, <3>3
  <2>3. Nat \subseteq T
    <3> HIDE DEF T
    <3> QED
      BY <2>1, <2>2, InductiveSet
  <2>4. \A n \in 0..MaxBlocks : walk[n] = f[n]
    BY <1>1, <2>3
  <2>5. walk = [n \in 0..MaxBlocks |-> walk[n]] /\ f = [n \in 0..MaxBlocks |-> f[n]]
    BY <1>7
  <2> QED
    BY <2>4, <2>5
<1>9. \A start : Chain(k, start) = walk[MaxBlocks][start]
  BY DEF Chain
<1>10. f = [n \in 0..MaxBlocks |-> Walked(k, n, f)]
  BY <1>6 DEF Walked
<1> QED
  <2> HIDE DEF walk, F, none, step
  <2> QED
    BY <1>4, <1>8, <1>9, <1>10

(* A list of blocks without repetition is no longer than there are blocks. *)
LEMMA Short ==
  ASSUME NEW s \in Seq(Blocks), Distinct(s)
  PROVE  Len(s) <= MaxBlocks
<1>1. Len(s) \in Nat /\ s \in [1..Len(s) -> Blocks]
  BY LenProperties
<1>2. IsFiniteSet(1..Len(s)) /\ Cardinality(1..Len(s)) = Len(s)
  <2>1. 1 \in Int /\ Len(s) \in Int
    BY <1>1
  <2>2. /\ IsFiniteSet(1..Len(s))
        /\ Cardinality(1..Len(s)) = IF 1 > Len(s) THEN 0 ELSE Len(s) - 1 + 1
    BY <2>1, FS_Interval, Zenon
  <2> QED
    BY <1>1, <2>2
<1>3. IsFiniteSet(Blocks) /\ Cardinality(Blocks) = MaxBlocks
  BY FatFsAssumption, FS_Interval DEF Blocks
<1> SUFFICES ASSUME ~(Len(s) <= MaxBlocks) PROVE FALSE
  OBVIOUS
<1>4. Cardinality(Blocks) < Cardinality(1..Len(s))
  BY <1>1, <1>2, <1>3, FatFsAssumption
<1>5. \E x, y \in 1..Len(s) : x # y /\ s[x] = s[y]
  <2> HIDE DEF Blocks
  <2> QED
    BY <1>1, <1>2, <1>3, <1>4, FS_PigeonHole
<1> QED
  BY <1>5 DEF Distinct

(* Walking the table along a chain finds that chain.                       *)
LEMMA ChainIs ==
  ASSUME NEW k \in Disks, NEW s \in Seq(Blocks \ {FAT_NULL}), Linked(k, s), Distinct(s)
  PROVE  Chain(k, s[1]) = s
<1> DEFINE m == Len(s)
<1>1. m \in Nat /\ m # 0 /\ s \in Seq(Blocks) /\ \A i \in 1..m : s[i] \in Blocks \ {FAT_NULL}
  <2>1. s # <<>>
    BY DEF Linked
  <2>2. \A i \in 1..m : s[i] \in Blocks \ {FAT_NULL}
    BY ElementOfSeq
  <2>3. m \in Nat /\ m # 0 /\ s \in [1..m -> Blocks \ {FAT_NULL}]
    BY <2>1, LenProperties, EmptySeq
  <2>4. s \in Seq(Blocks)
    <3>1. s \in [1..m -> Blocks]
      BY <2>3
    <3> QED
      BY <2>3, <3>1, SeqDef
  <2> QED
    BY <2>2, <2>3, <2>4
<1>2. m <= MaxBlocks /\ MaxBlocks \in Nat
  BY <1>1, Short, FatFsAssumption
<1>3. PICK w \in [0..MaxBlocks -> [Blocks -> Seq(Blocks)]] :
         /\ w = [n \in 0..MaxBlocks |-> Walked(k, n, w)]
         /\ \A start : Chain(k, start) = w[MaxBlocks][start]
  BY Walks
<1>4. \A n \in 0..MaxBlocks, b \in Blocks :
        w[n][b] = IF n = 0 \/ b = FAT_NULL THEN <<>> ELSE <<b>> \o w[n - 1][k.fat[b]]
  <2> TAKE n \in 0..MaxBlocks, b \in Blocks
  <2>1. w[n] = Walked(k, n, w)
    BY <1>3
  <2> QED
    BY <2>1 DEF Walked
<1> DEFINE T == {n \in Nat : \A j \in 1..m :
                    n <= MaxBlocks /\ m - j + 1 <= n => w[n][s[j]] = SubSeq(s, j, m)}
<1>5. 0 \in T
  BY <1>1
<1>6. ASSUME NEW n \in Nat, n \in T PROVE n + 1 \in T
  <2> SUFFICES ASSUME NEW j \in 1..m, n + 1 <= MaxBlocks, m - j + 1 <= n + 1
               PROVE  w[n + 1][s[j]] = SubSeq(s, j, m)
    OBVIOUS
  <2>0. SubSeq(s, j, m) = <<s[j]>> \o SubSeq(s, j + 1, m)
    <3>1. j \in 1..Len(s) /\ m \in j..Len(s)
      BY <1>1
    <3> QED
      BY <1>1, <3>1, SubSeqRecursiveFirst, Zenon
  <2>1. n + 1 \in 0..MaxBlocks /\ (n + 1) - 1 = n /\ n \in 0..MaxBlocks /\ n + 1 # 0
    BY <1>2
  <2>2. w[n + 1][s[j]] = <<s[j]>> \o w[n][k.fat[s[j]]]
    <3>1. s[j] \in Blocks /\ s[j] # FAT_NULL
      BY <1>1
    <3> QED
      BY <1>4, <2>1, <3>1, ZenonT(30)
  <2>3. CASE j = m
    <3>1. w[n][k.fat[s[j]]] = <<>>
      <4>1. k.fat[s[j]] = FAT_NULL /\ FAT_NULL \in Blocks
        BY <1>2, <2>3, FatFsAssumption DEF Linked, Blocks, FAT_NULL
      <4> QED
        BY <1>4, <2>1, <4>1
    <3>2. SubSeq(s, j + 1, m) = <<>>
      BY <1>1, <2>3, SubSeqEmpty
    <3> QED
      BY <2>0, <2>2, <3>1, <3>2
  <2>4. CASE j # m
    <3>1. j + 1 \in 1..m /\ j \in 1..(m - 1) /\ m - (j + 1) + 1 <= n
      BY <1>1, <2>4
    <3>2. k.fat[s[j]] = s[j + 1]
      BY <3>1 DEF Linked
    <3>3. w[n][s[j + 1]] = SubSeq(s, j + 1, m)
      BY <1>6, <2>1, <3>1
    <3>4. <<s[j]>> \o SubSeq(s, j + 1, m) = SubSeq(s, j, m)
      BY <2>0
    <3> QED
      BY <2>2, <3>2, <3>3, <3>4
  <2> QED
    BY <2>3, <2>4
<1>7. Nat \subseteq T
  <2> HIDE DEF T
  <2> QED
    BY <1>5, <1>6, InductiveSet
<1>8. w[MaxBlocks][s[1]] = SubSeq(s, 1, m)
  <2>1. MaxBlocks \in T /\ 1 \in 1..m /\ m - 1 + 1 <= MaxBlocks
    <3> HIDE DEF T
    <3> QED
      BY <1>1, <1>2, <1>7
  <2>2. \A j \in 1..m : m - j + 1 <= MaxBlocks => w[MaxBlocks][s[j]] = SubSeq(s, j, m)
    BY <1>2, <2>1
  <2> QED
    BY <2>1, <2>2
<1>9. SubSeq(s, 1, m) = s
  BY <1>1, SubSeqFull
<1> QED
  BY <1>3, <1>8, <1>9

(* Whatever the table is, a walk gives blocks; from FAT_NULL it has none.  *)
LEMMA ChainsAre ==
  ASSUME NEW k \in Disks
  PROVE  /\ Chain(k, FAT_NULL) = <<>>
         /\ \A b \in Blocks : Chain(k, b) \in Seq(Blocks)
<1>1. PICK w \in [0..MaxBlocks -> [Blocks -> Seq(Blocks)]] :
         /\ w = [n \in 0..MaxBlocks |-> Walked(k, n, w)]
         /\ \A start : Chain(k, start) = w[MaxBlocks][start]
  BY Walks
<1>2. MaxBlocks \in 0..MaxBlocks /\ FAT_NULL \in Blocks
  BY FatFsAssumption DEF Blocks, FAT_NULL
<1>3. w[MaxBlocks] = Walked(k, MaxBlocks, w)
  BY <1>1, <1>2
<1>4. w[MaxBlocks][FAT_NULL] = <<>>
  BY <1>2, <1>3 DEF Walked
<1> QED
  BY <1>1, <1>2, <1>4

(* The members of a sequence.                                              *)
LEMMA Members ==
  ASSUME NEW S, NEW s \in Seq(S)
  PROVE  /\ Len(s) \in Nat /\ DOMAIN s = 1..Len(s) /\ ToSet(s) \subseteq S
         /\ \A b : b \in ToSet(s) <=> \E i \in 1..Len(s) : s[i] = b
         /\ \A i \in 1..Len(s) : s[i] \in S
<1>1. Len(s) \in Nat /\ s \in [1..Len(s) -> S]
  BY LenProperties
<1>2. \A i \in 1..Len(s) : s[i] \in S
  BY ElementOfSeq
<1> QED
  BY <1>1, <1>2 DEF ToSet

(* The places in a list of blocks.                                         *)
LEMMA PlacesAre ==
  ASSUME NEW k \in Disks, NEW s \in Seq(Blocks)
  PROVE  /\ \A b, j : <<b, j>> \in PlacesIn(k, s) <=>
                        b \in ToSet(s) /\ j \in 1..Len(k.dir[b])
         /\ \A p \in PlacesIn(k, s) :
              /\ p = <<p[1], p[2]>> /\ p[1] \in ToSet(s) /\ p[1] \in Blocks
              /\ p[2] \in 1..Len(k.dir[p[1]])
              /\ At(k, p) \in Entries
<1>1. ToSet(s) \subseteq Blocks
  BY Members
<1>2. \A b \in Blocks : DOMAIN k.dir[b] = 1..Len(k.dir[b]) /\ k.dir[b] \in Seq(Entries)
  <2> TAKE b \in Blocks
  <2>1. k.dir[b] \in Seq(Entries)
    BY DEF Disks
  <2> QED
    BY <2>1, Members
<1>3. ASSUME NEW b, NEW j
      PROVE  <<b, j>> \in PlacesIn(k, s) <=> b \in ToSet(s) /\ j \in 1..Len(k.dir[b])
  <2>1. <<b, j>> \in PlacesIn(k, s) <=> \E d \in ToSet(s) : b = d /\ j \in DOMAIN k.dir[d]
    BY DEF PlacesIn
  <2> QED
    BY <1>1, <1>2, <2>1
<1>4. ASSUME NEW p \in PlacesIn(k, s)
      PROVE  /\ p = <<p[1], p[2]>> /\ p[1] \in ToSet(s) /\ p[1] \in Blocks
             /\ p[2] \in 1..Len(k.dir[p[1]])
             /\ At(k, p) \in Entries
  <2>1. PICK d \in ToSet(s) : p \in {d} \X DOMAIN k.dir[d]
    BY DEF PlacesIn
  <2>2. p = <<p[1], p[2]>> /\ p[1] = d /\ p[2] \in DOMAIN k.dir[d]
    BY <2>1
  <2>3. k.dir[d][p[2]] \in Entries
    BY <1>1, <1>2, <2>2, ElementOfSeq
  <2> QED
    BY <1>1, <1>2, <2>2, <2>3 DEF At
<1> QED
  BY <1>3, <1>4

(* The first of some places is one of them.                                *)
LEMMA FirstIs ==
  ASSUME NEW k \in Disks, NEW s \in Seq(Blocks), NEW S, S \subseteq PlacesIn(k, s), S # {}
  PROVE  First(s, S) \in S
<1> DEFINE I == {i \in 1..Len(s) : \E p \in S : p[1] = s[i]}
<1>1. /\ Len(s) \in Nat /\ DOMAIN s = 1..Len(s)
      /\ \A b : b \in ToSet(s) <=> \E i \in 1..Len(s) : s[i] = b
      /\ \A i \in 1..Len(s) : s[i] \in Blocks
  BY Members
<1>2. \A p \in S : /\ p = <<p[1], p[2]>> /\ p[2] \in 1..Len(k.dir[p[1]])
                   /\ p[1] \in Blocks
                   /\ \E i \in I : s[i] = p[1]
  BY <1>1, PlacesAre
<1>3. I # {} /\ I \subseteq Nat
  BY <1>1, <1>2
<1>4. PICK i \in I : \A x \in I : i <= x
  <2> HIDE DEF I
  <2> QED
    BY <1>3, LeastNumber
<1> DEFINE J == {p[2] : p \in {q \in S : q[1] = s[i]}}
<1>5. J # {} /\ J \subseteq Nat
  <2>1. \A p \in S : p[2] \in Nat
    <3> TAKE p \in S
    <3>1. k.dir[p[1]] \in Seq(Entries)
      BY <1>2 DEF Disks
    <3>2. Len(k.dir[p[1]]) \in Nat
      BY <3>1, LenProperties
    <3>3. p[2] \in 1..Len(k.dir[p[1]])
      BY <1>2
    <3> QED
      BY <3>2, <3>3
  <2>2. \E p \in S : p[1] = s[i]
    BY <1>4
  <2> QED
    BY <2>1, <2>2
<1>6. PICK j \in J : \A x \in J : j <= x
  <2> HIDE DEF J
  <2> QED
    BY <1>5, LeastNumber
<1>7. PICK p \in S : p[1] = s[i] /\ p[2] = j
  BY <1>6
<1>8. ASSUME NEW q \in S \ {p} PROVE Before(s, p, q)
  <2>1. PICK x \in I : s[x] = q[1]
    BY <1>2
  <2>2. CASE x = i
    <3>1. q[1] = p[1] /\ q[2] \in J
      BY <1>7, <2>1, <2>2
    <3>2. p[2] <= q[2] /\ p[2] # q[2]
      BY <1>2, <1>6, <1>7, <3>1
    <3>3. p[2] \in Nat /\ q[2] \in Nat
      BY <1>5, <1>7, <3>1
    <3>4. p[2] < q[2]
      BY <3>2, <3>3
    <3> QED
      BY <3>1, <3>4 DEF Before
  <2>3. CASE x # i
    <3>1. i <= x /\ i \in 1..Len(s) /\ x \in 1..Len(s)
      BY <1>4, <2>1
    <3>2. i < x
      BY <1>1, <2>3, <3>1
    <3> QED
      BY <1>1, <1>7, <2>1, <3>1, <3>2 DEF Before
  <2> QED
    BY <2>2, <2>3
<1>9. p \in Firsts(s, S)
  BY <1>8 DEF Firsts
<1>10. First(s, S) \in Firsts(s, S)
  BY <1>9 DEF First
<1> QED
  BY <1>10 DEF Firsts

(* Only the order among the places matters.                                *)
LEMMA SameFirst ==
  ASSUME NEW s, NEW t, NEW S, \A p, q \in S : Before(s, p, q) <=> Before(t, p, q)
  PROVE  First(s, S) = First(t, S)
<1>1. Firsts(s, S) = Firsts(t, S)
  BY DEF Firsts
<1> QED
  BY <1>1 DEF First

(* A block added behind a chain changes nothing about what comes first.    *)
LEMMA FirstOfMore ==
  ASSUME NEW k \in Disks, NEW s \in Seq(Blocks), NEW b \in Blocks, b \notin ToSet(s),
         NEW S, S \subseteq PlacesIn(k, s)
  PROVE  First(Append(s, b), S) = First(s, S)
<1> DEFINE t == Append(s, b)
<1>1. /\ Len(s) \in Nat /\ DOMAIN s = 1..Len(s)
      /\ \A x : x \in ToSet(s) <=> \E i \in 1..Len(s) : s[i] = x
  BY Members
<1>2. /\ DOMAIN t = 1..(Len(s) + 1) /\ t[Len(s) + 1] = b
      /\ \A i \in 1..Len(s) : t[i] = s[i]
  <2>1. t \in Seq(Blocks) /\ Len(t) = Len(s) + 1 /\ t[Len(s) + 1] = b
        /\ \A i \in 1..Len(s) : t[i] = s[i]
    BY AppendProperties
  <2> QED
    BY <2>1, LenProperties
<1>3. ASSUME NEW p \in S, NEW q \in S PROVE Before(s, p, q) <=> Before(t, p, q)
  <2>1. p[1] # b /\ q[1] # b
    BY PlacesAre
  <2>2. (\E i, j \in DOMAIN s : i < j /\ s[i] = p[1] /\ s[j] = q[1]) <=>
        (\E i, j \in DOMAIN t : i < j /\ t[i] = p[1] /\ t[j] = q[1])
    <3> HIDE DEF t
    <3>1. \A i \in DOMAIN t : t[i] # b => i \in DOMAIN s /\ t[i] = s[i]
      BY <1>1, <1>2
    <3>2. \A i \in DOMAIN s : i \in DOMAIN t /\ t[i] = s[i]
      BY <1>1, <1>2
    <3> QED
      BY <2>1, <3>1, <3>2
  <2> QED
    BY <2>2 DEF Before
<1>4. First(s, S) = First(t, S)
  <2> HIDE DEF t
  <2> QED
    BY <1>3, SameFirst
<1> QED
  BY <1>4

-----------------------------------------------------------------------------
(* The chains of directories.                                              *)
LEMMA Owners ==
  ASSUME NEW k, NEW X, NEW C, k \in Disks, Own(k, X, C)
  PROVE  \A d \in X :
           /\ C[d] \in Seq(Blocks) /\ C[d] \in Seq(Blocks \ {FAT_NULL}) /\ Distinct(C[d])
           /\ Len(C[d]) \in Nat /\ Len(C[d]) > 0 /\ C[d][1] = d /\ d \in ToSet(C[d])
           /\ d \in k.used \ {0, 1}
           /\ ToSet(C[d]) \subseteq k.used \ {0, 1}
           /\ Chain(k, d) = C[d]
<1> TAKE d \in X
<1>1. C[d] \in Seq(k.used \ {0, 1}) /\ k.used \subseteq Blocks
  BY DEF Own, Disks
<1>2. C[d] \in Seq(Blocks) /\ C[d] \in Seq(Blocks \ {FAT_NULL})
  <2>1. k.used \ {0, 1} \subseteq Blocks /\ k.used \ {0, 1} \subseteq Blocks \ {FAT_NULL}
    BY <1>1 DEF FAT_NULL
  <2> QED
    BY <1>1, <2>1, SeqMonotonic
<1>3. Len(C[d]) \in Nat /\ C[d] # <<>> /\ C[d][1] = d /\ Linked(k, C[d])
  BY <1>1, LenProperties DEF Own, Linked
<1>4. Len(C[d]) > 0
  BY <1>1, <1>3, EmptySeq
<1>5. Distinct(C[d])
  BY DEF Own, Distinct
<1>6. d \in ToSet(C[d]) /\ ToSet(C[d]) \subseteq k.used \ {0, 1}
  <2>1. 1 \in 1..Len(C[d])
    BY <1>3, <1>4
  <2> QED
    BY <1>1, <1>3, <2>1, Members
<1>7. Chain(k, d) = C[d]
  BY <1>2, <1>3, <1>5, ChainIs
<1> QED
  BY <1>2, <1>3, <1>4, <1>5, <1>6, <1>7

(* The same entries, apart from sizes; and from permissions, too.          *)
Alike(k, h) ==
  \A b \in Blocks :
    /\ Len(h.dir[b]) = Len(k.dir[b])
    /\ \A i \in 1..Len(k.dir[b]) :
         /\ h.dir[b][i].name = k.dir[b][i].name
         /\ h.dir[b][i].kind = k.dir[b][i].kind
         /\ h.dir[b][i].start = k.dir[b][i].start
View(k, h) ==
  /\ Alike(k, h)
  /\ \A b \in Blocks : \A i \in 1..Len(k.dir[b]) : h.dir[b][i].perm = k.dir[b][i].perm

(* Then the two disks have the same entries of users.                       *)
LEMMA SameLive ==
  ASSUME NEW k, NEW h, k \in Disks, h \in Disks, Alike(k, h)
  PROVE  /\ Live(h) = Live(k)
         /\ \A p \in Live(k) : /\ At(h, p).name = At(k, p).name
                               /\ At(h, p).kind = At(k, p).kind
                               /\ At(h, p).start = At(k, p).start
<1>1. ASSUME NEW p \in Blocks \X (1..FILES_PER_DIR), p[2] <= Len(k.dir[p[1]])
      PROVE  /\ At(h, p).name = At(k, p).name
             /\ At(h, p).kind = At(k, p).kind
             /\ At(h, p).start = At(k, p).start
  <2>1. p[1] \in Blocks /\ p[2] \in 1..FILES_PER_DIR /\ FILES_PER_DIR \in Nat
    BY FatFsAssumption
  <2>2. Len(k.dir[p[1]]) \in Nat
    <3>1. k.dir[p[1]] \in Seq(Entries)
      BY <2>1 DEF Disks
    <3> QED
      BY <3>1, LenProperties
  <2>3. p[2] \in 1..Len(k.dir[p[1]])
    BY <1>1, <2>1, <2>2
  <2> QED
    BY <2>1, <2>3 DEF Alike, At
<1>2. \A p \in Blocks \X (1..FILES_PER_DIR) : Len(h.dir[p[1]]) = Len(k.dir[p[1]])
  BY DEF Alike
<1> QED
  BY <1>1, <1>2 DEF Live

(* Chains and sizes may change where the entries lie the same.              *)
LEMMA SameEntries ==
  ASSUME NEW k, NEW h, NEW X, NEW C, NEW D, NEW E, NEW L,
         Shape(k, X, C, E, L), h \in Disks, k.used \subseteq h.used, Alike(k, h),
         Own(h, X, D),
         \A b \in Blocks : Holds(X, C, b) => Holds(X, D, b),
         \A b \in Blocks : Holds(X, D, b) => Holds(X, C, b) \/ b \notin k.used,
         \A b \in k.used : ~Holds(X, C, b) => h.fat[b] = k.fat[b],
         \A d \in X : h.dir[d][1].size = Len(D[d])
  PROVE  Shape(h, X, D, E, L)
<1>1. k \in Disks /\ k.used \subseteq Blocks
  BY DEF Shape, Layout, Disks
<1>2. Layout(h)
  BY DEF Shape, Layout, Alike
<1>3. Dots(h, X, D)
  <2>1. ASSUME NEW b \in Blocks, h.dir[b] # <<>> PROVE Holds(X, D, b)
    <3>1. h.dir[b] \in Seq(Entries) /\ k.dir[b] \in Seq(Entries)
      BY <1>1 DEF Disks
    <3>2. k.dir[b] # <<>>
      BY <2>1, <3>1, EmptySeq DEF Alike
    <3> QED
      BY <3>2 DEF Shape, Dots
  <2>2. ASSUME NEW d \in X
        PROVE  /\ Len(h.dir[d]) >= 2
               /\ h.dir[d][1].name = "." /\ h.dir[d][2].name = ".."
               /\ h.dir[d][1].start = d /\ h.dir[d][1].size = Len(D[d])
    <3>1. d \in Blocks /\ Len(k.dir[d]) \in Nat /\ Len(k.dir[d]) >= 2
      <4>1. d \in Blocks /\ Len(k.dir[d]) >= 2
        BY DEF Shape, Own, Dots
      <4>2. k.dir[d] \in Seq(Entries)
        BY <1>1, <4>1 DEF Disks
      <4> QED
        BY <4>1, <4>2, LenProperties
    <3>2. 1 \in 1..Len(k.dir[d]) /\ 2 \in 1..Len(k.dir[d])
      BY <3>1
    <3> QED
      BY <3>1, <3>2, SMTT(30) DEF Shape, Dots, Alike
  <2>3. ASSUME NEW b \in Blocks, NEW i \in 1..Len(h.dir[b])
        PROVE  h.dir[b][i].name \in NameSet \/ (b \in X /\ i \in {1, 2})
    BY DEF Shape, Dots, Alike
  <2> QED
    BY <2>1, <2>2, <2>3 DEF Dots
<1>4. Live(h) = Live(k) /\ \A p \in Live(k) : /\ At(h, p).kind = At(k, p).kind
                                              /\ At(h, p).start = At(k, p).start
  BY <1>1, SameLive
<1>5. ASSUME NEW b \in k.used \ {0, 1}, ~Holds(X, C, b)
      PROVE  b \in h.used \ {0, 1} /\ ~Holds(X, D, b) /\ h.fat[b] = k.fat[b]
  BY <1>1, <1>5
<1>6. Leads(h, X, D, E, L)
  <2> SUFFICES ASSUME NEW p \in Live(h) \ E PROVE LeadsTo(h, X, D, L, At(h, p))
    BY DEF Leads
  <2>1. LeadsTo(k, X, C, L, At(k, p))
    BY <1>4 DEF Shape, Leads
  <2> QED
    BY <1>4, <1>5, <2>1 DEF LeadsTo, Loose
<1>7. Single(h, E)
  BY <1>4 DEF Shape, Single
<1>8. Lost(h, X, D, L)
  BY <1>5 DEF Shape, Lost
<1> QED
  BY <1>2, <1>3, <1>6, <1>7, <1>8 DEF Shape

(* What k.dir[b] is: a short list of entries.                              *)
LEMMA Lists ==
  ASSUME NEW k, Layout(k), NEW b \in Blocks
  PROVE  /\ k.dir[b] \in Seq(Entries) /\ Len(k.dir[b]) \in Nat
         /\ Len(k.dir[b]) <= FILES_PER_DIR /\ FILES_PER_DIR \in Nat
         /\ DOMAIN k.dir[b] = 1..Len(k.dir[b])
         /\ \A i \in 1..Len(k.dir[b]) : k.dir[b][i] \in Entries
<1>1. k.dir[b] \in Seq(Entries) /\ Len(k.dir[b]) <= FILES_PER_DIR
  BY DEF Layout, Disks
<1> QED
  BY <1>1, Members, FatFsAssumption

(* The places of named entries.                                            *)
LEMMA Alive ==
  ASSUME NEW k, Layout(k)
  PROVE  \A b, i : <<b, i>> \in Live(k) <=>
           b \in Blocks /\ i \in 1..Len(k.dir[b]) /\ k.dir[b][i].name \in NameSet
<1> TAKE b, i
<1>1. ASSUME b \in Blocks, i \in 1..Len(k.dir[b]) PROVE i \in 1..FILES_PER_DIR
  <2>1. Len(k.dir[b]) \in Nat /\ Len(k.dir[b]) <= FILES_PER_DIR /\ FILES_PER_DIR \in Nat
    BY <1>1, Lists
  <2> QED
    BY <1>1, <2>1
<1>2. ASSUME b \in Blocks, i \in 1..FILES_PER_DIR, i <= Len(k.dir[b])
      PROVE  i \in 1..Len(k.dir[b])
  <2>1. Len(k.dir[b]) \in Nat /\ FILES_PER_DIR \in Nat
    BY <1>2, Lists
  <2> QED
    BY <1>2, <2>1
<1>3. ASSUME b \in Blocks, i \in 1..Len(k.dir[b]) PROVE i <= Len(k.dir[b])
  <2>1. Len(k.dir[b]) \in Nat
    BY <1>3, Lists
  <2> QED
    BY <1>3, <2>1
<1> QED
  BY <1>1, <1>2, <1>3 DEF Live, At

(* A place is a pair of a block and a number.                               *)
LEMMA AlivePair ==
  ASSUME NEW k, NEW p \in Live(k)
  PROVE  p = <<p[1], p[2]>>
BY DEF Live

(* An entry is put behind the others of a block.                           *)
Gains(k, h, b, e) ==
  LET n == Len(k.dir[b])
      q == <<b, n + 1>>
  IN /\ Layout(h) /\ h.used = k.used /\ h.fat = k.fat
     /\ \A x \in Blocks \ {b} : h.dir[x] = k.dir[x]
     /\ Len(h.dir[b]) = n + 1
     /\ \A i \in 1..n : h.dir[b][i] = k.dir[b][i]
     /\ h.dir[b][n + 1] = e
     /\ q \notin Live(k)
     /\ Live(h) = Live(k) \cup {q}
     /\ \A p \in Live(k) : At(h, p) = At(k, p)
     /\ At(h, q) = e
LEMMA Appended ==
  ASSUME NEW k, Layout(k), NEW b \in Blocks, Len(k.dir[b]) < FILES_PER_DIR,
         NEW e \in Entries, e.name \in NameSet
  PROVE  Gains(k, [k EXCEPT !.dir[b] = Append(@, e)], b, e)
<1> DEFINE h == [k EXCEPT !.dir[b] = Append(@, e)]
<1> DEFINE n == Len(k.dir[b])
           q == <<b, n + 1>>
<1>1. /\ k.dir[b] \in Seq(Entries) /\ n \in Nat /\ FILES_PER_DIR \in Nat
      /\ k \in Disks
  BY Lists DEF Layout
<1>2. /\ Append(k.dir[b], e) \in Seq(Entries) /\ Len(Append(k.dir[b], e)) = n + 1
      /\ \A i \in 1..n : Append(k.dir[b], e)[i] = k.dir[b][i]
      /\ Append(k.dir[b], e)[n + 1] = e
  BY <1>1, AppendProperties
<1>3. /\ h.used = k.used /\ h.fat = k.fat /\ h.dir = [k.dir EXCEPT ![b] = Append(@, e)]
      /\ h = [used |-> h.used, fat |-> h.fat, dir |-> h.dir]
  <2>1. k = [used |-> k.used, fat |-> k.fat, dir |-> k.dir]
    BY <1>1 DEF Disks
  <2>2. h = [used |-> k.used, fat |-> k.fat, dir |-> [k.dir EXCEPT ![b] = Append(@, e)]]
    BY <2>1, SMTT(30)
  <2> HIDE DEF h
  <2> QED
    BY <2>2
<1>4. k.dir \in [Blocks -> Seq(Entries)] /\ k.used \in SUBSET Blocks /\ k.fat \in [Blocks -> Blocks]
  BY <1>1 DEF Disks
<1>5. h.dir[b] = Append(k.dir[b], e) /\ \A x \in Blocks \ {b} : h.dir[x] = k.dir[x]
  BY <1>3, <1>4
<1>6. h \in Disks
  <2>1. h.dir \in [Blocks -> Seq(Entries)]
    BY <1>2, <1>3, <1>4
  <2> QED
    BY <1>3, <1>4, <2>1 DEF Disks
<1>7. Layout(h)
  <2>1. Len(h.dir[b]) <= FILES_PER_DIR
    BY <1>1, <1>2, <1>5
  <2> QED
    BY <1>3, <1>5, <1>6, <2>1 DEF Layout
<1>8. q \notin Live(k)
  <2>1. n + 1 \notin 1..n
    BY <1>1
  <2> QED
    BY <2>1, Alive
<1>9. \A x, i : <<x, i>> \in Live(h) <=> <<x, i>> \in Live(k) \cup {q}
  <2> TAKE x, i
  <2>1. CASE x = b
    <3>1. i \in 1..(n + 1) <=> i \in 1..n \/ i = n + 1
      BY <1>1
    <3>2. <<b, i>> \in Live(h) <=> i \in 1..(n + 1) /\ h.dir[b][i].name \in NameSet
      BY <1>2, <1>5, <1>7, Alive
    <3>3. <<b, i>> \in Live(k) <=> i \in 1..n /\ k.dir[b][i].name \in NameSet
      BY Alive
    <3> QED
      BY <1>2, <1>5, <2>1, <3>1, <3>2, <3>3
  <2>2. CASE x # b
    <3>1. <<x, i>> \in Live(h) <=>
            x \in Blocks /\ i \in 1..Len(h.dir[x]) /\ h.dir[x][i].name \in NameSet
      BY <1>7, Alive
    <3>2. <<x, i>> \in Live(k) <=>
            x \in Blocks /\ i \in 1..Len(k.dir[x]) /\ k.dir[x][i].name \in NameSet
      BY Alive
    <3>3. x \in Blocks => h.dir[x] = k.dir[x]
      BY <1>5, <2>2
    <3> QED
      BY <2>2, <3>1, <3>2, <3>3
  <2> QED
    BY <2>1, <2>2
<1>10. Live(h) = Live(k) \cup {q}
  <2>1. ASSUME NEW p \in Live(h) PROVE p \in Live(k) \cup {q}
    <3>1. p = <<p[1], p[2]>>
      BY AlivePair
    <3> HIDE DEF q
    <3> QED
      BY <1>9, <3>1
  <2>2. ASSUME NEW p \in Live(k) \cup {q} PROVE p \in Live(h)
    <3>1. p = <<p[1], p[2]>>
      BY AlivePair
    <3> HIDE DEF q
    <3> QED
      BY <1>9, <3>1
  <2> HIDE DEF q
  <2> QED
    BY <2>1, <2>2
<1>11. ASSUME NEW p \in Live(k) PROVE At(h, p) = At(k, p)
  <2>1. p = <<p[1], p[2]>> /\ p[1] \in Blocks /\ p[2] \in 1..Len(k.dir[p[1]])
    <3>1. p = <<p[1], p[2]>>
      BY AlivePair
    <3> QED
      BY <3>1, Alive
  <2>2. h.dir[p[1]][p[2]] = k.dir[p[1]][p[2]]
    BY <1>2, <1>5, <2>1
  <2> QED
    BY <2>2 DEF At
<1>12. At(h, q) = e
  BY <1>2, <1>5 DEF At
<1>13. Gains(k, h, b, e)
  <2> HIDE DEF h
  <2> QED
    BY <1>2, <1>3, <1>5, <1>7, <1>8, <1>10, <1>11, <1>12 DEF Gains
<1> QED
  BY <1>13
LEMMA Put ==
  ASSUME NEW k, NEW X, NEW C, NEW E, NEW L, Shape(k, X, C, E, L),
         NEW b \in Blocks, Holds(X, C, b), Len(k.dir[b]) < FILES_PER_DIR,
         NEW e, NEW h, e.name \in NameSet, Gains(k, h, b, e)
  PROVE  Shape(h, X, C, E \cup {<<b, Len(k.dir[b]) + 1>>}, L)
<1> DEFINE q == <<b, Len(k.dir[b]) + 1>>
<1>1. Layout(k)
  BY DEF Shape
<1>2. /\ Layout(h) /\ h.used = k.used /\ h.fat = k.fat
      /\ \A x \in Blocks \ {b} : h.dir[x] = k.dir[x]
      /\ Len(h.dir[b]) = Len(k.dir[b]) + 1
      /\ \A i \in 1..Len(k.dir[b]) : h.dir[b][i] = k.dir[b][i]
      /\ h.dir[b][Len(k.dir[b]) + 1] = e
      /\ Live(h) = Live(k) \cup {q} /\ q \notin Live(k)
      /\ \A p \in Live(k) : At(h, p) = At(k, p)
  BY DEF Gains
<1>3. Len(k.dir[b]) \in Nat
  BY <1>1, Lists
<1>4. Own(h, X, C)
  BY <1>2 DEF Shape, Own, Linked
<1>5. Dots(h, X, C)
  <2>1. ASSUME NEW x \in Blocks, h.dir[x] # <<>> PROVE Holds(X, C, x)
    BY <1>2, <2>1 DEF Shape, Dots
  <2>2. ASSUME NEW d \in X
        PROVE  /\ Len(h.dir[d]) >= 2
               /\ h.dir[d][1].name = "." /\ h.dir[d][2].name = ".."
               /\ h.dir[d][1].start = d /\ h.dir[d][1].size = Len(C[d])
    <3>1. d \in Blocks /\ Len(k.dir[d]) >= 2
      BY DEF Shape, Own, Dots
    <3>2. /\ Len(h.dir[d]) >= 2
          /\ h.dir[d][1] = k.dir[d][1] /\ h.dir[d][2] = k.dir[d][2]
      BY <1>2, <1>3, <3>1
    <3> QED
      BY <3>2 DEF Shape, Dots
  <2>3. ASSUME NEW x \in Blocks, NEW i \in 1..Len(h.dir[x])
        PROVE  h.dir[x][i].name \in NameSet \/ (x \in X /\ i \in {1, 2})
    <3>1. CASE x # b
      <4>1. h.dir[x] = k.dir[x]
        BY <1>2, <3>1
      <4>2. i \in 1..Len(k.dir[x])
        BY <4>1
      <4>3. k.dir[x][i].name \in NameSet \/ (x \in X /\ i \in {1, 2})
        BY <4>2 DEF Shape, Dots
      <4> QED
        BY <4>1, <4>3
    <3>2. CASE x = b
      <4>1. i \in 1..Len(k.dir[b]) \/ i = Len(k.dir[b]) + 1
        BY <1>2, <1>3, <3>2
      <4> QED
        BY <1>2, <3>2, <4>1 DEF Shape, Dots
    <3> QED
      BY <3>1, <3>2
  <2> QED
    BY <2>1, <2>2, <2>3 DEF Dots
<1>6. Live(h) \ (E \cup {q}) = Live(k) \ (E \cup {q})
  BY <1>2
<1> HIDE DEF q
<1>7. Leads(h, X, C, E \cup {q}, L)
  <2> SUFFICES ASSUME NEW p \in Live(h) \ (E \cup {q}) PROVE LeadsTo(h, X, C, L, At(h, p))
    BY DEF Leads
  <2>1. p \in Live(k) \ E /\ At(h, p) = At(k, p)
    BY <1>2
  <2>2. LeadsTo(k, X, C, L, At(k, p))
    BY <2>1 DEF Shape, Leads
  <2> QED
    BY <1>2, <2>1, <2>2 DEF LeadsTo, Loose
<1>8. Single(h, E \cup {q})
  <2>1. ASSUME NEW p \in Live(h) \ (E \cup {q}) PROVE p \in Live(k) \ E /\ At(h, p) = At(k, p)
    BY <1>2
  <2> QED
    BY <2>1 DEF Shape, Single
<1>9. Lost(h, X, C, L)
  BY <1>2 DEF Shape, Lost
<1> QED
  BY <1>2, <1>4, <1>5, <1>7, <1>8, <1>9 DEF Shape, q

(* Fewer entries count, or one more that leads where no other does.        *)
LEMMA Excepted ==
  ASSUME NEW k, NEW X, NEW C, NEW E, NEW F, NEW L, Shape(k, X, C, E, L), E \subseteq F
  PROVE  Shape(k, X, C, F, L)
BY DEF Shape, Leads, Single

(* until what it leads to is its own.                                       *)
LEMMA Admitted ==
  ASSUME NEW k, NEW X, NEW C, NEW E, NEW L, NEW q,
         Shape(k, X, C, E \cup {q}, L), LeadsTo(k, X, C, L, At(k, q)),
         \A p \in Live(k) \ (E \cup {q}) :
           At(k, p).start = At(k, q).start => At(k, p).start = FAT_NULL
  PROVE  Shape(k, X, C, E, L)
<1>1. Leads(k, X, C, E, L)
  BY DEF Shape, Leads
<1>2. Single(k, E)
  BY DEF Shape, Single
<1> QED
  BY <1>1, <1>2 DEF Shape

(* The last entry of a block moves into the gap of the deleted one.        *)
Removes(k, h, b, i) ==
  LET n == Len(k.dir[b])
  IN /\ Layout(h) /\ h.used = k.used /\ h.fat = k.fat
     /\ \A x \in Blocks \ {b} : h.dir[x] = k.dir[x]
     /\ n \in Nat /\ i \in 1..n /\ Len(h.dir[b]) = n - 1
     /\ \A j \in 1..(n - 1) : h.dir[b][j] = IF j = i THEN k.dir[b][n] ELSE k.dir[b][j]
LEMMA Gone ==
  ASSUME NEW k, Layout(k), NEW b \in Blocks, NEW i \in 1..Len(k.dir[b])
  PROVE  Removes(k, [k EXCEPT !.dir[b] = Deleted(@, i)], b, i)
<1> DEFINE s == k.dir[b]
           n == Len(s)
           t == Deleted(s, i)
           h == [k EXCEPT !.dir[b] = Deleted(@, i)]
<1>1. /\ s \in Seq(Entries) /\ n \in Nat /\ n <= FILES_PER_DIR /\ FILES_PER_DIR \in Nat
      /\ k \in Disks /\ i \in 1..n /\ n \in 1..n
      /\ \A j \in 1..n : s[j] \in Entries
  BY Lists DEF Layout
<1>2. /\ t \in Seq(Entries) /\ Len(t) = n - 1
      /\ \A j \in 1..(n - 1) : t[j] = IF j = i THEN s[n] ELSE s[j]
  <2> DEFINE u == [s EXCEPT ![i] = s[n]]
  <2>1. u \in Seq(Entries) /\ Len(u) = n /\ \A j \in 1..n : u[j] = IF j = i THEN s[n] ELSE s[j]
    BY <1>1, ExceptSeq
  <2>2. t = SubSeq(u, 1, n - 1)
    BY <2>1 DEF Deleted, Front, Last
  <2>3. \A j \in 1..(n - 1) : u[j] \in Entries
    BY <1>1, <2>1
  <2> HIDE DEF u, t, n
  <2>4. 1 \in Int /\ n - 1 \in Int
    BY <1>1
  <2>5. /\ SubSeq(u, 1, n - 1) \in Seq(Entries)
        /\ Len(SubSeq(u, 1, n - 1)) = IF 1 <= n - 1 THEN n - 1 - 1 + 1 ELSE 0
        /\ \A j \in 1..(n - 1 - 1 + 1) : SubSeq(u, 1, n - 1)[j] = u[1 + j - 1]
    BY <2>3, <2>4, SubSeqProperties
  <2> QED
    BY <1>1, <2>1, <2>2, <2>5
<1>3. /\ h.used = k.used /\ h.fat = k.fat /\ h.dir = [k.dir EXCEPT ![b] = t]
      /\ h = [used |-> h.used, fat |-> h.fat, dir |-> h.dir]
  <2>1. k = [used |-> k.used, fat |-> k.fat, dir |-> k.dir]
    BY <1>1 DEF Disks
  <2>2. h = [used |-> k.used, fat |-> k.fat, dir |-> [k.dir EXCEPT ![b] = t]]
    BY <2>1
  <2> HIDE DEF h
  <2> QED
    BY <2>2
<1>4. k.dir \in [Blocks -> Seq(Entries)] /\ k.used \in SUBSET Blocks /\ k.fat \in [Blocks -> Blocks]
  BY <1>1 DEF Disks
<1> HIDE DEF h, t
<1>5. h.dir[b] = t /\ \A x \in Blocks \ {b} : h.dir[x] = k.dir[x]
  BY <1>3, <1>4
<1>6. h \in Disks
  <2>1. h.dir \in [Blocks -> Seq(Entries)]
    BY <1>2, <1>3, <1>4
  <2> QED
    BY <1>3, <1>4, <2>1 DEF Disks
<1>7. Layout(h)
  <2>1. Len(h.dir[b]) <= FILES_PER_DIR
    BY <1>1, <1>2, <1>5
  <2> QED
    BY <1>1, <1>3, <1>5, <1>6, <2>1 DEF Layout
<1>8. Removes(k, h, b, i)
  BY <1>1, <1>2, <1>3, <1>5, <1>7 DEF Removes
<1> QED
  BY <1>8 DEF h

(* Where the entry at x was before.                                        *)
Was(k, b, i, x) == IF x = <<b, i>> THEN <<b, Len(k.dir[b])>> ELSE x
LEMMA Moved ==
  ASSUME NEW k, Layout(k), NEW b \in Blocks, NEW i, <<b, i>> \in Live(k),
         NEW h, Removes(k, h, b, i), k.dir[b][Len(k.dir[b])].name \in NameSet
  PROVE  /\ \A x \in Live(h) : /\ Was(k, b, i, x) \in Live(k) \ {<<b, i>>}
                               /\ At(h, x) = At(k, Was(k, b, i, x))
                               /\ Was(k, b, i, x)[1] = x[1]
         /\ \A x, y \in Live(h) : Was(k, b, i, x) = Was(k, b, i, y) => x = y
         /\ \A y \in Live(k) \ {<<b, i>>} : \E x \in Live(h) : Was(k, b, i, x) = y
<1> DEFINE n == Len(k.dir[b])
<1>1. /\ n \in Nat /\ i \in 1..n /\ Layout(h) /\ Len(h.dir[b]) = n - 1
      /\ \A x \in Blocks \ {b} : h.dir[x] = k.dir[x]
      /\ \A j \in 1..(n - 1) : h.dir[b][j] = IF j = i THEN k.dir[b][n] ELSE k.dir[b][j]
  BY DEF Removes
<1>2. <<b, n>> \in Live(k)
  <2>1. n \in 1..n
    BY <1>1
  <2> QED
    BY <2>1, Alive
<1>3. ASSUME NEW x \in Live(h)
      PROVE  /\ Was(k, b, i, x) \in Live(k) \ {<<b, i>>}
             /\ At(h, x) = At(k, Was(k, b, i, x))
             /\ Was(k, b, i, x)[1] = x[1]
             /\ x # <<b, n>>
  <2>1. x = <<x[1], x[2]>> /\ x[1] \in Blocks /\ x[2] \in 1..Len(h.dir[x[1]])
        /\ h.dir[x[1]][x[2]].name \in NameSet
    <3>1. x = <<x[1], x[2]>>
      BY AlivePair
    <3> QED
      BY <1>1, <3>1, Alive
  <2>2. CASE x[1] # b
    <3>1. x # <<b, i>> /\ x # <<b, n>>
      BY <2>1, <2>2
    <3>2. <<x[1], x[2]>> \in Live(k) /\ h.dir[x[1]] = k.dir[x[1]]
      BY <1>1, <2>1, <2>2, Alive
    <3> QED
      BY <2>1, <3>1, <3>2 DEF Was, At
  <2>3. CASE x[1] = b /\ x[2] = i
    <3>1. x = <<b, i>> /\ i \in 1..(n - 1) /\ i # n
      BY <1>1, <2>1, <2>3
    <3>2. Was(k, b, i, x) = <<b, n>> /\ <<b, n>> # <<b, i>> /\ x # <<b, n>>
      BY <3>1 DEF Was
    <3>3. At(h, x) = h.dir[b][i] /\ At(k, <<b, n>>) = k.dir[b][n]
      BY <2>3 DEF At
    <3>4. h.dir[b][i] = k.dir[b][n] /\ <<b, n>>[1] = x[1]
      BY <1>1, <2>3, <3>1
    <3> QED
      BY <1>2, <3>2, <3>3, <3>4
  <2>4. CASE x[1] = b /\ x[2] # i
    <3>1. x # <<b, i>> /\ x[2] \in 1..(n - 1) /\ x[2] \in 1..n /\ x # <<b, n>>
      BY <1>1, <2>1, <2>4
    <3>2. h.dir[b][x[2]] = k.dir[b][x[2]]
      BY <1>1, <2>4, <3>1
    <3>3. <<b, x[2]>> \in Live(k)
      BY <2>1, <2>4, <3>1, <3>2, Alive
    <3> QED
      BY <2>1, <2>4, <3>1, <3>2, <3>3 DEF Was, At
  <2> QED
    BY <2>2, <2>3, <2>4
<1>4. ASSUME NEW x \in Live(h), NEW y \in Live(h), Was(k, b, i, x) = Was(k, b, i, y)
      PROVE  x = y
  <2>1. x # <<b, n>> /\ y # <<b, n>>
    BY <1>3
  <2> QED
    BY <1>4, <2>1 DEF Was
<1>5. ASSUME NEW y \in Live(k) \ {<<b, i>>} PROVE \E x \in Live(h) : Was(k, b, i, x) = y
  <2>1. y = <<y[1], y[2]>> /\ y[1] \in Blocks /\ y[2] \in 1..Len(k.dir[y[1]])
        /\ k.dir[y[1]][y[2]].name \in NameSet
    <3>1. y = <<y[1], y[2]>>
      BY AlivePair
    <3> QED
      BY <3>1, Alive
  <2>2. CASE y[1] # b
    <3>1. <<y[1], y[2]>> \in Live(h)
      BY <1>1, <2>1, <2>2, Alive
    <3> QED
      BY <2>1, <3>1 DEF Was
  <2>3. CASE y[1] = b /\ y[2] = n
    <3>1. i # n
      BY <2>1, <2>3
    <3>2. i \in 1..(n - 1)
      BY <1>1, <3>1
    <3>3. <<b, i>> \in Live(h)
      BY <1>1, <2>1, <2>3, <3>2, Alive
    <3>4. Was(k, b, i, <<b, i>>) = <<b, n>>
      BY DEF Was
    <3> QED
      BY <2>1, <2>3, <3>3, <3>4
  <2>4. CASE y[1] = b /\ y[2] # n
    <3>1. y[2] # i /\ y[2] \in 1..(n - 1)
      BY <1>1, <2>1, <2>4
    <3>2. <<b, y[2]>> \in Live(h)
      BY <1>1, <2>1, <2>4, <3>1, Alive
    <3> QED
      BY <2>1, <2>4, <3>2 DEF Was
  <2> QED
    BY <2>2, <2>3, <2>4
<1> QED
  BY <1>3, <1>4, <1>5

(* So the disk keeps its shape without the entry.                           *)
LEMMA Delete ==
  ASSUME NEW k, NEW X, NEW C, NEW L, NEW b \in Blocks, NEW i, NEW h,
         Shape(k, X, C, {<<b, i>>}, L), <<b, i>> \in Live(k), Removes(k, h, b, i)
  PROVE  Shape(h, X, C, {}, L)
<1> DEFINE n == Len(k.dir[b])
<1>1. /\ n \in Nat /\ i \in 1..n /\ Layout(h) /\ Len(h.dir[b]) = n - 1
      /\ h.used = k.used /\ h.fat = k.fat
      /\ \A x \in Blocks \ {b} : h.dir[x] = k.dir[x]
      /\ \A j \in 1..(n - 1) : h.dir[b][j] = IF j = i THEN k.dir[b][n] ELSE k.dir[b][j]
  BY DEF Removes
<1>2. Layout(k) /\ k.dir[b][i].name \in NameSet /\ "." \notin NameSet /\ ".." \notin NameSet
  BY Alive, FatFsAssumption DEF Shape
<1>3. Holds(X, C, b)
  <2>1. k.dir[b] # <<>>
    BY <1>1
  <2> QED
    BY <2>1 DEF Shape, Dots
<1>4. b \in X => i > 2
  <2> SUFFICES ASSUME b \in X PROVE i # 1 /\ i # 2
    BY <1>1
  <2> QED
    BY <1>2 DEF Shape, Dots
<1>5. Own(h, X, C)
  BY <1>1 DEF Shape, Own, Linked
<1>6. Dots(h, X, C)
  <2>1. ASSUME NEW x \in Blocks, h.dir[x] # <<>> PROVE Holds(X, C, x)
    BY <1>1, <1>3, <2>1 DEF Shape, Dots
  <2>2. ASSUME NEW d \in X
        PROVE  /\ Len(h.dir[d]) >= 2
               /\ h.dir[d][1].name = "." /\ h.dir[d][2].name = ".."
               /\ h.dir[d][1].start = d /\ h.dir[d][1].size = Len(C[d])
    <3>1. d \in Blocks /\ Len(k.dir[d]) >= 2
      BY DEF Shape, Own, Dots
    <3>2. /\ Len(h.dir[d]) >= 2
          /\ h.dir[d][1] = k.dir[d][1] /\ h.dir[d][2] = k.dir[d][2]
      <4>1. CASE d # b
        BY <1>1, <3>1, <4>1
      <4>2. CASE d = b
        <5>1. n > 2 /\ 1 \in 1..(n - 1) /\ 2 \in 1..(n - 1) /\ 1 # i /\ 2 # i
          BY <1>1, <1>4, <4>2
        <5> QED
          BY <1>1, <4>2, <5>1
      <4> QED
        BY <4>1, <4>2
    <3> QED
      BY <3>2 DEF Shape, Dots
  <2>3. ASSUME NEW x \in Blocks, NEW j \in 1..Len(h.dir[x])
        PROVE  h.dir[x][j].name \in NameSet \/ (x \in X /\ j \in {1, 2})
    <3>1. CASE x # b
      <4>1. h.dir[x] = k.dir[x]
        BY <1>1, <3>1
      <4>2. j \in 1..Len(k.dir[x])
        BY <4>1
      <4>3. k.dir[x][j].name \in NameSet \/ (x \in X /\ j \in {1, 2})
        BY <4>2 DEF Shape, Dots
      <4> QED
        BY <4>1, <4>3
    <3>2. CASE x = b
      <4>1. j \in 1..(n - 1) /\ j \in 1..n /\ n \in 1..n
        BY <1>1, <3>2
      <4>2. \A m \in 1..n : k.dir[b][m].name \in NameSet \/ (b \in X /\ m \in {1, 2})
        BY DEF Shape, Dots
      <4>3. CASE j # i
        BY <1>1, <3>2, <4>1, <4>2, <4>3
      <4>4. CASE j = i
        <5>1. h.dir[b][j] = k.dir[b][n]
          BY <1>1, <4>1, <4>4
        <5>2. b \in X => n \notin {1, 2}
          BY <1>1, <1>4, <4>1, <4>4
        <5> QED
          BY <3>2, <4>1, <4>2, <5>1, <5>2
      <4> QED
        BY <4>3, <4>4
    <3> QED
      BY <3>1, <3>2
  <2> QED
    BY <2>1, <2>2, <2>3 DEF Dots
<1>7. k.dir[b][n].name \in NameSet
  <2>0. n \in 1..n
    BY <1>1
  <2>1. n \in 1..n /\ ~(b \in X /\ n \in {1, 2})
    <3>1. CASE b \in X
      <4>1. i > 2
        BY <1>4, <3>1
      <4>2. n > 2
        BY <1>1, <4>1
      <4>3. n # 1 /\ n # 2
        <5>1. \A m \in Nat : m > 2 => m # 1 /\ m # 2
          OBVIOUS
        <5>2. n \in Nat
          BY <1>1
        <5> HIDE DEF n
        <5> QED
          BY <4>2, <5>1, <5>2
      <4> QED
        <5> HIDE DEF n
        <5> QED
          BY <2>0, <4>3
    <3> QED
      BY <2>0, <3>1
  <2> QED
    BY <2>1 DEF Shape, Dots
<1>8. /\ \A x \in Live(h) : /\ Was(k, b, i, x) \in Live(k) \ {<<b, i>>}
                            /\ At(h, x) = At(k, Was(k, b, i, x))
      /\ \A x, y \in Live(h) : Was(k, b, i, x) = Was(k, b, i, y) => x = y
  BY <1>2, <1>7, Moved
<1>9. Leads(h, X, C, {}, L)
  <2> SUFFICES ASSUME NEW x \in Live(h) PROVE LeadsTo(h, X, C, L, At(h, x))
    BY DEF Leads
  <2>1. LeadsTo(k, X, C, L, At(h, x))
    BY <1>8 DEF Shape, Leads
  <2> QED
    BY <1>1, <2>1 DEF LeadsTo, Loose
<1>10. Single(h, {})
  BY <1>8 DEF Shape, Single
<1>11. Lost(h, X, C, L)
  BY <1>1 DEF Shape, Lost
<1> QED
  BY <1>1, <1>5, <1>6, <1>9, <1>10, <1>11 DEF Shape

(* The blocks gone are free, and empty.                                    *)
Frees(k, h, gone) ==
  /\ Layout(h) /\ h.used = k.used \ gone /\ h.fat = k.fat
  /\ \A b \in Blocks : h.dir[b] = IF b \in gone THEN <<>> ELSE k.dir[b]
LEMMA Freed ==
  ASSUME NEW k, Layout(k), NEW start, ToSet(Chain(k, start)) \cap {0, 1} = {}
  PROVE  Frees(k, free_blocks(k, start), ToSet(Chain(k, start)))
<1> DEFINE gone == ToSet(Chain(k, start))
           h == free_blocks(k, start)
<1>1. k \in Disks /\ {0, 1} \subseteq k.used
  BY DEF Layout
<1>2. h = [used |-> k.used \ gone, fat |-> k.fat,
           dir |-> [b \in Blocks |-> IF b \in gone THEN <<>> ELSE k.dir[b]]]
  <2>1. k = [used |-> k.used, fat |-> k.fat, dir |-> k.dir]
    BY <1>1 DEF Disks
  <2>2. h = [k EXCEPT !.used = @ \ gone,
               !.dir = [b \in Blocks |-> IF b \in gone THEN <<>> ELSE k.dir[b]]]
    BY DEF free_blocks
  <2> HIDE DEF gone, h
  <2> QED
    BY <2>1, <2>2
<1> HIDE DEF gone, h
<1>3. \A b \in Blocks : k.dir[b] \in Seq(Entries) /\ <<>> \in Seq(Entries)
                        /\ Len(k.dir[b]) <= FILES_PER_DIR
  BY DEF Layout, Disks
<1>4. h \in Disks
  BY <1>1, <1>2, <1>3 DEF Disks
<1>5. \A b \in Blocks : h.dir[b] = IF b \in gone THEN <<>> ELSE k.dir[b]
  BY <1>2
<1>6. Layout(h)
  <2>1. {0, 1} \subseteq h.used
    BY <1>1, <1>2 DEF gone
  <2>2. ASSUME NEW b \in Blocks PROVE Len(h.dir[b]) <= FILES_PER_DIR
    <3>1. Len(<<>>) = 0 /\ 0 <= FILES_PER_DIR
      BY FatFsAssumption
    <3> QED
      BY <1>3, <1>5, <3>1
  <2> QED
    BY <1>4, <2>1, <2>2 DEF Layout
<1>7. Frees(k, h, gone)
  BY <1>2, <1>5, <1>6 DEF Frees
<1> QED
  BY <1>7 DEF gone, h

(* The blocks that an unlink gives back: those of the directories that are *)
(* not in Y, or of a link; nothing else leads to them.                     *)
Apart(k, X, C, L, p, gone, Y) ==
  /\ {0, 1} \cap gone = {} /\ L \cap gone = {}
  /\ RootDir \in Y /\ Y \subseteq X
  /\ \A x \in Y : ToSet(C[x]) \cap gone = {}
  /\ \A x \in X \ Y : ToSet(C[x]) \subseteq gone
  /\ \A q \in Live(k) : q[1] \notin gone
  /\ \A q \in Live(k) \ {p} : /\ At(k, q).kind = "dir" => At(k, q).start \in Y
                              /\ At(k, q).kind = "link" => At(k, q).start \notin gone
  /\ At(k, p).kind = "dir" => At(k, p).start \in X \ Y
  /\ At(k, p).kind = "link" => At(k, p).start \in gone

(* Blocks without live entries are freed; p alone still leads to some.     *)
LEMMA Free ==
  ASSUME NEW k, NEW h, NEW X, NEW C, NEW L, NEW gone, NEW p, NEW Y,
         Shape(k, X, C, {}, L), Frees(k, h, gone), Apart(k, X, C, L, p, gone, Y)
  PROVE  Shape(h, Y, Restrict(C, Y), {p}, L)
<1>0. /\ {0, 1} \cap gone = {} /\ L \cap gone = {}
      /\ RootDir \in Y /\ Y \subseteq X
      /\ \A d \in Y : ToSet(C[d]) \cap gone = {}
      /\ \A d \in X \ Y : ToSet(C[d]) \subseteq gone
      /\ \A q \in Live(k) : q[1] \notin gone
      /\ \A q \in Live(k) \ {p} :
           /\ At(k, q).kind = "dir" => At(k, q).start \in Y
           /\ At(k, q).kind = "link" => At(k, q).start \notin gone
  BY DEF Apart
<1> DEFINE D == Restrict(C, Y)
<1>1. /\ Layout(h) /\ h.used = k.used \ gone /\ h.fat = k.fat
      /\ \A b \in Blocks : h.dir[b] = IF b \in gone THEN <<>> ELSE k.dir[b]
      /\ Layout(k) /\ k \in Disks /\ Own(k, X, C)
  BY DEF Frees, Shape, Layout
<1>2. \A d \in Y : D[d] = C[d] /\ d \in X /\ d \in ToSet(C[d]) /\ d \notin gone
  BY <1>0, <1>1, Owners DEF Restrict
<1>3. \A b : Holds(Y, D, b) <=> Holds(X, C, b) /\ b \notin gone
  <2> HIDE DEF D
  <2> QED
    BY <1>0, <1>2 DEF Holds
<1>4. Own(h, Y, D)
  <2>1. ASSUME NEW d \in Y PROVE D[d] \in Seq(h.used \ {0, 1})
    <3>1. C[d] \in Seq(k.used \ {0, 1})
      BY <1>0, <1>1, <1>2 DEF Own
    <3>2. \A i \in 1..Len(C[d]) : C[d][i] \in h.used \ {0, 1}
      <4>1. \A i \in 1..Len(C[d]) : C[d][i] \in k.used \ {0, 1} /\ C[d][i] \in ToSet(C[d])
        BY <3>1, Members
      <4> QED
        BY <1>0, <1>1, <4>1
    <3>3. Len(C[d]) \in Nat /\ C[d] \in [1..Len(C[d]) -> k.used \ {0, 1}]
      BY <3>1, LenProperties
    <3>4. C[d] \in [1..Len(C[d]) -> h.used \ {0, 1}]
      BY <3>2, <3>3
    <3>5. C[d] \in Seq(h.used \ {0, 1})
      BY <3>3, <3>4, SeqDef
    <3> QED
      BY <1>2, <3>5
  <2>2. D \in [Y -> Seq(h.used \ {0, 1})]
    BY <2>1 DEF Restrict
  <2>3. \A d \in Y : Linked(h, D[d]) /\ D[d][1] = d
    BY <1>0, <1>1, <1>2 DEF Own, Linked
  <2>4. \A d, e \in Y : \A i \in 1..Len(D[d]), j \in 1..Len(D[e]) :
          D[d][i] = D[e][j] => d = e /\ i = j
    BY <1>0, <1>1, <1>2 DEF Own
  <2>5. Y \subseteq Blocks /\ RootDir \in Y
    BY <1>0, <1>1 DEF Own
  <2> HIDE DEF D
  <2> QED
    BY <2>2, <2>3, <2>4, <2>5 DEF Own
<1> HIDE DEF D
<1>5. Dots(h, Y, D)
  <2>1. ASSUME NEW b \in Blocks, h.dir[b] # <<>> PROVE Holds(Y, D, b)
    <3>1. b \notin gone /\ k.dir[b] # <<>>
      BY <1>0, <1>1, <2>1
    <3> QED
      BY <1>3, <3>1 DEF Shape, Dots
  <2>2. ASSUME NEW d \in Y
        PROVE  /\ Len(h.dir[d]) >= 2
               /\ h.dir[d][1].name = "." /\ h.dir[d][2].name = ".."
               /\ h.dir[d][1].start = d /\ h.dir[d][1].size = Len(D[d])
    <3>1. d \in X /\ d \in Blocks /\ h.dir[d] = k.dir[d] /\ D[d] = C[d]
      BY <1>0, <1>1, <1>2 DEF Own
    <3> QED
      BY <3>1 DEF Shape, Dots
  <2>3. ASSUME NEW b \in Blocks, NEW i \in 1..Len(h.dir[b])
        PROVE  h.dir[b][i].name \in NameSet \/ (b \in Y /\ i \in {1, 2})
    <3>1. b \notin gone
      <4>1. CASE b \in gone
        <5>1. h.dir[b] = <<>> /\ Len(<<>>) = 0
          BY <1>0, <1>1, <4>1
        <5> QED
          BY <5>1
      <4> QED
        BY <4>1
    <3>2. h.dir[b] = k.dir[b]
      BY <1>0, <1>1, <3>1
    <3>3. k.dir[b][i].name \in NameSet \/ (b \in X /\ i \in {1, 2})
      BY <3>2 DEF Shape, Dots
    <3>4. b \in X => b \in Y
      <4>1. \A d \in X : d \in ToSet(C[d])
        BY <1>0, <1>1, Owners
      <4> QED
        BY <1>0, <3>1, <4>1
    <3> QED
      BY <3>2, <3>3, <3>4
  <2> QED
    BY <2>1, <2>2, <2>3 DEF Dots
<1>6. ASSUME NEW q \in Live(h) PROVE q \in Live(k) /\ At(h, q) = At(k, q)
  <2>1. q = <<q[1], q[2]>>
    BY AlivePair
  <2>2. q[1] \in Blocks /\ q[2] \in 1..Len(h.dir[q[1]]) /\ h.dir[q[1]][q[2]].name \in NameSet
    BY <1>0, <1>1, <2>1, Alive
  <2>3. q[1] \notin gone
    <3>1. CASE q[1] \in gone
      <4>1. h.dir[q[1]] = <<>> /\ Len(<<>>) = 0
        BY <1>0, <1>1, <2>2, <3>1
      <4> QED
        BY <2>2, <4>1
    <3> QED
      BY <3>1
  <2>4. h.dir[q[1]] = k.dir[q[1]]
    BY <1>0, <1>1, <2>2, <2>3
  <2>5. <<q[1], q[2]>> \in Live(k)
    BY <1>0, <1>1, <2>2, <2>4, Alive
  <2> QED
    BY <2>1, <2>4, <2>5 DEF At
<1>7. Leads(h, Y, D, {p}, L)
  <2> SUFFICES ASSUME NEW q \in Live(h) \ {p} PROVE LeadsTo(h, Y, D, L, At(h, q))
    BY DEF Leads
  <2>1. q \in Live(k) \ {p} /\ At(h, q) = At(k, q)
    BY <1>6
  <2>2. LeadsTo(k, X, C, L, At(k, q))
    BY <2>1 DEF Shape, Leads
  <2> QED
    BY <1>0, <1>1, <1>3, <2>1, <2>2 DEF LeadsTo, Loose
<1>8. Single(h, {p})
  BY <1>0, <1>6 DEF Shape, Single
<1>9. Lost(h, Y, D, L)
  BY <1>0, <1>1, <1>3 DEF Shape, Lost
<1> QED
  BY <1>0, <1>1, <1>4, <1>5, <1>7, <1>8, <1>9 DEF Shape, D

-----------------------------------------------------------------------------
(* The allocator's next block is free, as long as there is room.           *)
LEMMA NewBlockIs ==
  ASSUME NEW k, Layout(k), Cardinality(k.used) + 1 <= MaxBlocks
  PROVE  /\ NewBlock(k) \in Blocks /\ NewBlock(k) \notin k.used
         /\ Cardinality(k.used \cup {NewBlock(k)}) = Cardinality(k.used) + 1
         /\ Cardinality(k.used) \in Nat
<1> DEFINE U == k.used
           holes == 0..Max(U) \ U
<1>1. U \subseteq 0..(MaxBlocks - 1) /\ 0 \in U /\ MaxBlocks \in Nat /\ MaxBlocks - 1 \in Nat
  BY FatFsAssumption DEF Layout, Disks, Blocks
<1>2. \E m \in U : \A x \in U : x <= m
  <2> HIDE DEF U
  <2> QED
    BY <1>1, GreatestNumber
<1>3. Max(U) \in U /\ \A x \in U : Max(U) >= x
  <2>1. \E m \in U : \A x \in U : m >= x
    BY <1>1, <1>2
  <2> HIDE DEF U
  <2> QED
    BY <2>1 DEF Max
<1>4. PICK m \in Nat : m = Max(U) /\ m \in 0..(MaxBlocks - 1)
  BY <1>1, <1>3
<1>5. IsFiniteSet(U) /\ Cardinality(U) \in Nat
  <2>1. IsFiniteSet(0..(MaxBlocks - 1))
    <3>1. 0 \in Int /\ MaxBlocks - 1 \in Int
      BY <1>1
    <3> QED
      BY <3>1, FS_Interval, Zenon
  <2> HIDE DEF U
  <2>2. IsFiniteSet(U)
    BY <1>1, <2>1, FS_Subset
  <2> QED
    BY <2>2, FS_CardinalityType
<1>6. CASE holes = {}
  <2>1. NewBlock(k) = m + 1
    BY <1>4, <1>6 DEF NewBlock
  <2>2. U = 0..m
    <3> HIDE DEF U
    <3>1. 0..m \subseteq U
      BY <1>4, <1>6
    <3>2. U \subseteq 0..m
      BY <1>1, <1>3, <1>4
    <3> QED
      BY <3>1, <3>2
  <2>3. Cardinality(U) = m + 1
    <3>1. 0 \in Int /\ m \in Int
      BY <1>4
    <3>2. Cardinality(0..m) = IF 0 > m THEN 0 ELSE m - 0 + 1
      BY <3>1, FS_Interval, Zenon
    <3> QED
      BY <1>4, <2>2, <3>2
  <2>4. m + 1 \in 0..(MaxBlocks - 1) /\ m + 1 \notin U
    <3>1. PICK c : c = Cardinality(U)
      OBVIOUS
    <3>2. c + 1 <= MaxBlocks /\ c = m + 1
      BY <2>3, <3>1
    <3>3. m + 1 \in 0..(MaxBlocks - 1) /\ m + 1 \notin 0..m
      BY <1>1, <1>4, <3>2
    <3> HIDE DEF U
    <3> QED
      BY <2>2, <3>3
  <2>5. Cardinality(U \cup {m + 1}) = Cardinality(U) + 1
    <3> HIDE DEF U
    <3> QED
      BY <1>5, <2>4, FS_AddElement
  <2> QED
    BY <1>5, <2>1, <2>4, <2>5 DEF Blocks
<1>7. CASE holes # {}
  <2>1. NewBlock(k) = Max(holes)
    BY <1>7 DEF NewBlock
  <2>2. holes \subseteq 0..m
    BY <1>4
  <2>3. PICK g \in holes : \A x \in holes : x <= g
    <3> HIDE DEF holes
    <3> QED
      BY <1>4, <1>7, <2>2, GreatestNumber
  <2>4. Max(holes) \in holes
    <3>1. \A x \in holes : g >= x
      BY <2>2, <2>3
    <3> HIDE DEF holes
    <3> QED
      BY <3>1, <2>3 DEF Max
  <2>5. PICK n : n = NewBlock(k) /\ n \in 0..m /\ n \notin U
    BY <1>4, <2>1, <2>4
  <2>6. n \in 0..(MaxBlocks - 1)
    BY <1>1, <1>4, <2>5
  <2>7. Cardinality(U \cup {n}) = Cardinality(U) + 1
    <3> HIDE DEF U
    <3> QED
      BY <1>5, <2>5, FS_AddElement
  <2> QED
    BY <1>5, <2>5, <2>6, <2>7 DEF Blocks
<1> QED
  BY <1>6, <1>7

(* A new block is alone, and empty.                                        *)
LEMMA Allocated ==
  ASSUME NEW k, Layout(k), NewBlock(k) \in Blocks \ k.used, k.dir[NewBlock(k)] = <<>>
  PROVE  /\ Layout(alloc_block(k))
         /\ alloc_block(k).used = k.used \cup {NewBlock(k)}
         /\ alloc_block(k).fat = [k.fat EXCEPT ![NewBlock(k)] = FAT_NULL]
         /\ alloc_block(k).dir = k.dir
         /\ View(k, alloc_block(k))
<1> DEFINE b == NewBlock(k)
           h == alloc_block(k)
<1>1. h = [used |-> k.used \cup {b}, fat |-> [k.fat EXCEPT ![b] = FAT_NULL],
           dir |-> [k.dir EXCEPT ![b] = <<>>]]
  BY DEF alloc_block
<1>2. k \in Disks /\ b \in Blocks /\ k.dir[b] = <<>> /\ {0, 1} \subseteq k.used
      /\ \A x \in Blocks : Len(k.dir[x]) <= FILES_PER_DIR
  BY DEF Layout
<1> HIDE DEF b, h
<1>3. [k.dir EXCEPT ![b] = <<>>] = k.dir
  BY <1>2 DEF Disks
<1>4. FAT_NULL \in Blocks
  BY FatFsAssumption DEF Blocks, FAT_NULL
<1>5. h \in Disks
  BY <1>1, <1>2, <1>3, <1>4 DEF Disks
<1>6. Layout(h) /\ View(k, h)
  BY <1>1, <1>2, <1>3, <1>5 DEF Layout, View, Alike
<1> QED
  BY <1>1, <1>3, <1>6 DEF b, h

(* alloc_block gives a block that no entry leads to.                        *)
LEMMA Alone ==
  ASSUME NEW k, NEW X, NEW C, NEW E, NEW L, Shape(k, X, C, E, L),
         NewBlock(k) \in Blocks \ k.used
  PROVE  /\ Shape(alloc_block(k), X, C, E, L)
         /\ Loose(alloc_block(k), X, C, NewBlock(k)) /\ NewBlock(k) \notin L
         /\ k.dir[NewBlock(k)] = <<>>
         /\ ~Holds(X, C, NewBlock(k))
         /\ \A p \in Live(k) \ E : At(k, p).kind # "file" => At(k, p).start # NewBlock(k)
<1> DEFINE b == NewBlock(k)
           h == alloc_block(k)
<1>1. Layout(k) /\ k \in Disks /\ Own(k, X, C) /\ b \in Blocks /\ b \notin k.used
      /\ {0, 1} \subseteq k.used
  BY DEF Shape, Layout
<1>2. ~Holds(X, C, b)
  BY <1>1, Owners DEF Holds
<1>3. k.dir[b] = <<>>
  BY <1>1, <1>2 DEF Shape, Dots
<1>4. /\ Layout(h) /\ h.used = k.used \cup {b} /\ h.fat = [k.fat EXCEPT ![b] = FAT_NULL]
      /\ h.dir = k.dir /\ View(k, h)
  BY <1>1, <1>3, Allocated
<1> HIDE DEF b, h
<1>5. h.fat[b] = FAT_NULL /\ \A x \in k.used : h.fat[x] = k.fat[x]
  BY <1>1, <1>4 DEF Disks
<1>6. Own(h, X, C)
  <2>1. \A d \in X : C[d] \in Seq(h.used \ {0, 1})
    <3> TAKE d \in X
    <3>1. C[d] \in Seq(k.used \ {0, 1}) /\ k.used \ {0, 1} \subseteq h.used \ {0, 1}
      BY <1>1, <1>4 DEF Own
    <3> QED
      BY <3>1, SeqMonotonic
  <2>2. C \in [X -> Seq(h.used \ {0, 1})]
    BY <1>1, <2>1 DEF Own
  <2>3. ASSUME NEW d \in X PROVE Linked(h, C[d]) /\ C[d][1] = d
    <3>1. /\ C[d] \in Seq(k.used \ {0, 1}) /\ Linked(k, C[d]) /\ C[d][1] = d
      BY <1>1 DEF Own
    <3>2. \A i \in 1..Len(C[d]) : C[d][i] \in k.used
      BY <3>1, Members
    <3>3. Len(C[d]) \in Nat /\ Len(C[d]) \in 1..Len(C[d])
          /\ \A i \in 1..(Len(C[d]) - 1) : i \in 1..Len(C[d])
      <4>1. Len(C[d]) \in Nat /\ Len(C[d]) > 0
        BY <1>1, Owners
      <4> QED
        BY <4>1
    <3>4. \A i \in 1..Len(C[d]) : h.fat[C[d][i]] = k.fat[C[d][i]]
      BY <1>5, <3>2
    <3> QED
      BY <3>1, <3>3, <3>4 DEF Linked
  <2> QED
    BY <1>1, <2>2, <2>3 DEF Own
<1>7. Shape(h, X, C, E, L)
  <2>1. \A d \in X : h.dir[d][1].size = Len(C[d])
    BY <1>4 DEF Shape, Dots
  <2>2. h \in Disks /\ k.used \subseteq h.used
    BY <1>4 DEF Layout
  <2> QED
    BY <1>4, <1>5, <1>6, <2>1, <2>2, SameEntries DEF View
<1>8. b \notin L
  BY <1>1 DEF Shape, Lost
<1>9. Loose(h, X, C, b)
  BY <1>1, <1>2, <1>4, <1>5 DEF Loose
<1>10. ASSUME NEW p \in Live(k) \ E, At(k, p).kind # "file" PROVE At(k, p).start # b
  <2>1. LeadsTo(k, X, C, L, At(k, p))
    BY DEF Shape, Leads
  <2>2. At(k, p).kind \in Kinds
    <3>1. p = <<p[1], p[2]>>
      BY AlivePair
    <3>2. p[1] \in Blocks /\ p[2] \in 1..Len(k.dir[p[1]])
      BY <1>1, <3>1, Alive
    <3>3. k.dir[p[1]][p[2]] \in Entries
      BY <1>1, <3>2, Lists
    <3> QED
      BY <3>3 DEF At, Entries
  <2>3. At(k, p).start \in X \/ At(k, p).start \in k.used
    BY <1>10, <2>1, <2>2 DEF LeadsTo, Loose, Kinds
  <2>4. X \subseteq k.used
    BY <1>1, Owners
  <2> QED
    BY <1>1, <2>3, <2>4
<1> QED
  BY <1>2, <1>3, <1>7, <1>8, <1>9, <1>10 DEF b, h

-----------------------------------------------------------------------------
(* Every directory has a first block that modify_dir_size can work on.     *)
Rooted(k, X, C) ==
  /\ Layout(k) /\ Own(k, X, C)
  /\ \A d \in X : /\ Len(k.dir[d]) >= 2
                  /\ k.dir[d][1].name = "." /\ k.dir[d][1].start = d
  /\ \A b \in Blocks : \A i \in 1..Len(k.dir[b]) :
       IF k.dir[b][i].name \in NameSet
       THEN k.dir[b][i].kind = "dir" => k.dir[b][i].start \in X
       ELSE b \in X /\ i \in {1, 2}

(* The disk h differs from k in sizes, and in those of "." for d only.     *)
Sized(k, h, X, d, size) ==
  /\ Layout(h) /\ View(k, h) /\ h.used = k.used /\ h.fat = k.fat
  /\ \A x \in X : h.dir[x][1].size = IF x = d THEN size ELSE k.dir[x][1].size

(* What keeps the tree of directories keeps it rooted.                      *)
LEMMA RootedView ==
  ASSUME NEW k, NEW h, NEW X, NEW C, Rooted(k, X, C), Layout(h), View(k, h),
         h.used = k.used, h.fat = k.fat
  PROVE  Rooted(h, X, C)
<1>1. Own(h, X, C)
  <2>1. Own(k, X, C)
    BY DEF Rooted
  <2> QED
    BY <2>1 DEF Own, Linked
<1>2. ASSUME NEW d \in X
      PROVE  /\ Len(h.dir[d]) >= 2
             /\ h.dir[d][1].name = "." /\ h.dir[d][1].start = d
  <2>1. d \in Blocks /\ Len(k.dir[d]) >= 2 /\ Layout(k)
    BY DEF Rooted, Own
  <2>2. Len(k.dir[d]) \in Nat
    BY <2>1, Lists
  <2>3. 1 \in 1..Len(k.dir[d])
    BY <2>1, <2>2
  <2> QED
    BY <2>1, <2>3 DEF Rooted, View, Alike
<1>3. ASSUME NEW b \in Blocks, NEW i \in 1..Len(h.dir[b])
      PROVE  IF h.dir[b][i].name \in NameSet
             THEN h.dir[b][i].kind = "dir" => h.dir[b][i].start \in X
             ELSE b \in X /\ i \in {1, 2}
  BY SMTT(30) DEF Rooted, View, Alike
<1> QED
  BY <1>1, <1>2, <1>3 DEF Rooted

(* An entry is replaced; its size or its permissions are set.              *)
Replaces(k, h, b, i, e) ==
  /\ Layout(h) /\ h.used = k.used /\ h.fat = k.fat
  /\ \A x \in Blocks : Len(h.dir[x]) = Len(k.dir[x])
  /\ \A x \in Blocks : \A j \in 1..Len(k.dir[x]) :
       h.dir[x][j] = IF x = b /\ j = i THEN e ELSE k.dir[x][j]
LEMMA Replaced ==
  ASSUME NEW k, Layout(k), NEW b \in Blocks, NEW i \in 1..Len(k.dir[b]), NEW e \in Entries
  PROVE  Replaces(k, [k EXCEPT !.dir[b][i] = e], b, i, e)
<1> DEFINE h == [k EXCEPT !.dir[b][i] = e]
           s == k.dir[b]
           t == [s EXCEPT ![i] = e]
<1>1. s \in Seq(Entries) /\ Len(s) \in Nat /\ k \in Disks
  BY Lists DEF Layout
<1>2. /\ t \in Seq(Entries) /\ Len(t) = Len(s) /\ t[i] = e
      /\ \A j \in 1..Len(s) : j # i => t[j] = s[j]
  <2>1. i \in 1..Len(s)
    OBVIOUS
  <2> HIDE DEF s
  <2> QED
    BY <1>1, <2>1, ExceptSeq
<1>3. /\ h.used = k.used /\ h.fat = k.fat /\ h.dir = [k.dir EXCEPT ![b] = t]
      /\ h = [used |-> h.used, fat |-> h.fat, dir |-> h.dir]
  <2>1. k = [used |-> k.used, fat |-> k.fat, dir |-> k.dir]
    BY <1>1 DEF Disks
  <2>2. h = [used |-> k.used, fat |-> k.fat, dir |-> [k.dir EXCEPT ![b][i] = e]]
    <3> HIDE DEF s, t
    <3>1. PICK g : g = [k.dir EXCEPT ![b][i] = e]
      OBVIOUS
    <3>2. h = [k EXCEPT !.dir = g]
      BY <3>1
    <3> HIDE DEF h
    <3>3. [k EXCEPT !.dir = g] = [used |-> k.used, fat |-> k.fat, dir |-> g]
      BY <2>1
    <3> QED
      BY <3>1, <3>2, <3>3
  <2>3. [k.dir EXCEPT ![b][i] = e] = [k.dir EXCEPT ![b] = t]
    OBVIOUS
  <2> HIDE DEF h
  <2> QED
    BY <2>2, <2>3
<1>4. k.dir \in [Blocks -> Seq(Entries)] /\ k.used \in SUBSET Blocks /\ k.fat \in [Blocks -> Blocks]
  BY <1>1 DEF Disks
<1> HIDE DEF h, t
<1>5. h.dir[b] = t /\ \A x \in Blocks \ {b} : h.dir[x] = k.dir[x]
  BY <1>3, <1>4
<1>6. h \in Disks
  <2>1. h.dir \in [Blocks -> Seq(Entries)]
    BY <1>2, <1>3, <1>4
  <2> QED
    BY <1>3, <1>4, <2>1 DEF Disks
<1>7. \A x \in Blocks : Len(h.dir[x]) = Len(k.dir[x])
  BY <1>2, <1>5
<1>8. Layout(h)
  BY <1>3, <1>6, <1>7 DEF Layout
<1>9. ASSUME NEW x \in Blocks, NEW j \in 1..Len(k.dir[x])
      PROVE  h.dir[x][j] = IF x = b /\ j = i THEN e ELSE k.dir[x][j]
  <2>1. CASE x = b /\ j = i
    BY <1>2, <1>5, <2>1
  <2>2. CASE x = b /\ j # i
    BY <1>2, <1>5, <2>2
  <2>3. CASE x # b
    BY <1>5, <2>3
  <2> QED
    BY <2>1, <2>2, <2>3
<1>10. Replaces(k, h, b, i, e)
  BY <1>3, <1>7, <1>8, <1>9 DEF Replaces
<1> QED
  BY <1>10 DEF h

(* One entry has another size; nothing else changes.                        *)
SizeAt(k, h, b, i, size) ==
  /\ Layout(h) /\ View(k, h) /\ h.used = k.used /\ h.fat = k.fat
  /\ \A x \in Blocks : \A j \in 1..Len(k.dir[x]) :
       h.dir[x][j].size = IF x = b /\ j = i THEN size ELSE k.dir[x][j].size
LEMMA SizeSet ==
  ASSUME NEW k, Layout(k), NEW b \in Blocks, NEW i \in 1..Len(k.dir[b]),
         NEW size \in 0..MaxBlocks
  PROVE  SizeAt(k, [k EXCEPT !.dir[b][i].size = size], b, i, size)
<1> DEFINE h == [k EXCEPT !.dir[b][i].size = size]
           e == [k.dir[b][i] EXCEPT !.size = size]
<1>1. /\ e \in Entries /\ e.size = size /\ e.name = k.dir[b][i].name
      /\ e.kind = k.dir[b][i].kind /\ e.start = k.dir[b][i].start
      /\ e.perm = k.dir[b][i].perm
  <2>1. k.dir[b][i] \in Entries
    BY Lists
  <2> QED
    BY <2>1 DEF Entries
<1>2. h = [k EXCEPT !.dir[b][i] = e]
  OBVIOUS
<1> HIDE DEF h, e
<1>3. Replaces(k, h, b, i, e)
  BY <1>1, <1>2, Replaced
<1> QED
  BY <1>1, <1>3, SMTT(30) DEF SizeAt, View, Alike, Replaces, h

(* One entry has other permissions; nothing else changes.                   *)
PermAt(k, h, b, i, perm) ==
  /\ Layout(h) /\ Alike(k, h) /\ h.used = k.used /\ h.fat = k.fat
  /\ \A x \in Blocks : \A j \in 1..Len(k.dir[x]) :
       /\ h.dir[x][j].perm = IF x = b /\ j = i THEN perm ELSE k.dir[x][j].perm
       /\ h.dir[x][j].size = k.dir[x][j].size
LEMMA PermSet ==
  ASSUME NEW k, Layout(k), NEW b \in Blocks, NEW i \in 1..Len(k.dir[b]), NEW perm \in Perms
  PROVE  PermAt(k, [k EXCEPT !.dir[b][i].perm = perm], b, i, perm)
<1> DEFINE h == [k EXCEPT !.dir[b][i].perm = perm]
           e == [k.dir[b][i] EXCEPT !.perm = perm]
<1>1. /\ e \in Entries /\ e.size = k.dir[b][i].size /\ e.name = k.dir[b][i].name
      /\ e.kind = k.dir[b][i].kind /\ e.start = k.dir[b][i].start
      /\ e.perm = perm
  <2>1. k.dir[b][i] \in Entries
    BY Lists
  <2> QED
    BY <2>1 DEF Entries
<1>2. h = [k EXCEPT !.dir[b][i] = e]
  OBVIOUS
<1> HIDE DEF h, e
<1>3. Replaces(k, h, b, i, e)
  BY <1>1, <1>2, Replaced
<1> QED
  BY <1>1, <1>3, SMTT(30) DEF PermAt, Alike, Replaces, h

(* Steps that keep the view of a disk follow one another.                   *)
LEMMA SameView ==
  ASSUME NEW f, NEW g, NEW h, View(f, g), View(g, h)
  PROVE  View(f, h)
BY DEF View, Alike

(* modify_dir_size: the entry in the parent gets the new size,              *)
LEMMA SizedInParent ==
  ASSUME NEW k, NEW X, NEW C, Rooted(k, X, C), NEW d \in X, NEW size \in 0..MaxBlocks,
         k.dir[d][1].size = size
  PROVE  Sized(k, ResizedInParent(k, d, size), X, d, size)
<1> DEFINE h == ResizedInParent(k, d, size)
           c == Chain(k, Parent(k, d))
           p == First(c, InParent(k, d))
<1>1. /\ Layout(k) /\ k \in Disks /\ X \subseteq Blocks
      /\ \A x \in X : Len(k.dir[x]) >= 2 /\ k.dir[x][1].start = x
  BY DEF Rooted, Own, Layout
<1>2. \A x \in X : Len(k.dir[x]) \in Nat /\ 1 \in 1..Len(k.dir[x]) /\ 2 \in 1..Len(k.dir[x])
  <2> TAKE x \in X
  <2>1. Len(k.dir[x]) \in Nat /\ Len(k.dir[x]) >= 2
    BY <1>1, Lists
  <2> QED
    BY <2>1
<1>3. c \in Seq(Blocks)
  <2>1. k.dir[d][2] \in Entries
    BY <1>1, <1>2, Lists
  <2>2. Parent(k, d) \in Blocks
    BY <2>1 DEF Parent, Entries
  <2> QED
    BY <1>1, <2>2, ChainsAre
<1>4. CASE InParent(k, d) = {}
  <2>1. h = k
    BY <1>4 DEF ResizedInParent
  <2>2. View(k, k)
    BY DEF View, Alike
  <2> HIDE DEF h
  <2>3. Sized(k, h, X, d, size)
    BY <1>1, <2>1, <2>2 DEF Sized
  <2> QED
    BY <2>3 DEF h
<1>5. CASE InParent(k, d) # {}
  <2>1. h = [k EXCEPT !.dir[p[1]][p[2]].size = size]
    BY <1>5 DEF ResizedInParent
  <2>2. InParent(k, d) \subseteq PlacesIn(k, c)
    BY DEF InParent, Places
  <2>3. p \in InParent(k, d)
    <3> HIDE DEF c
    <3> QED
      BY <1>1, <1>3, <1>5, <2>2, FirstIs
  <2>4. At(k, p).start = d /\ p[1] \in Blocks /\ p[2] \in 1..Len(k.dir[p[1]])
    <3>1. p \in PlacesIn(k, c) /\ At(k, p).start = d
      BY <2>3 DEF InParent, Places
    <3> HIDE DEF p, c
    <3> QED
      BY <1>1, <1>3, <3>1, PlacesAre
  <2> HIDE DEF h, p
  <2>5. /\ Layout(h) /\ View(k, h) /\ h.used = k.used /\ h.fat = k.fat
        /\ \A x \in Blocks : \A j \in 1..Len(k.dir[x]) :
             h.dir[x][j].size = IF x = p[1] /\ j = p[2] THEN size ELSE k.dir[x][j].size
    <3>1. SizeAt(k, h, p[1], p[2], size)
      BY <1>1, <2>1, <2>4, SizeSet
    <3> QED
      BY <3>1 DEF SizeAt
  <2>6. ASSUME NEW x \in X
        PROVE  h.dir[x][1].size = IF x = d THEN size ELSE k.dir[x][1].size
    <3>1. h.dir[x][1].size = IF x = p[1] /\ 1 = p[2] THEN size ELSE k.dir[x][1].size
      BY <1>1, <1>2, <2>5
    <3>2. x = p[1] /\ 1 = p[2] => x = d
      BY <1>1, <2>4 DEF At
    <3> QED
      BY <3>1, <3>2
  <2>7. Sized(k, h, X, d, size)
    BY <2>5, <2>6 DEF Sized
  <2> QED
    BY <2>7 DEF h
<1> QED
  BY <1>4, <1>5

(* and so does the ".." of each directory below.                            *)
LEMMA SizedBelow ==
  ASSUME NEW k, NEW X, NEW C, Rooted(k, X, C), NEW d \in X, NEW size \in 0..MaxBlocks,
         k.dir[d][1].size = size
  PROVE  Sized(k, ResizedBelow(k, d, size), X, d, size)
<1> DEFINE skipped == {<<d, 1>>, <<d, 2>>}
           subdirs == {At(k, p).start : p \in
                         {q \in Places(k, d) \ skipped : At(k, q).kind = "dir"}}
           new(b) == IF b \in subdirs THEN [k.dir[b] EXCEPT ![2].size = size] ELSE k.dir[b]
           h == ResizedBelow(k, d, size)
<1>1. /\ Layout(k) /\ k \in Disks /\ X \subseteq Blocks /\ Own(k, X, C)
      /\ \A x \in X : Len(k.dir[x]) >= 2
  BY DEF Rooted, Own, Layout
<1>2. Chain(k, d) = C[d] /\ C[d] \in Seq(Blocks)
  BY <1>1, Owners
<1>3. subdirs \subseteq X
  <2> SUFFICES ASSUME NEW p \in Places(k, d) \ skipped, At(k, p).kind = "dir"
               PROVE  At(k, p).start \in X
    OBVIOUS
  <2>1. /\ p = <<p[1], p[2]>> /\ p[1] \in ToSet(C[d]) /\ p[1] \in Blocks
        /\ p[2] \in 1..Len(k.dir[p[1]])
    <3>1. p \in PlacesIn(k, C[d])
      BY <1>2 DEF Places
    <3> QED
      BY <1>1, <1>2, <3>1, PlacesAre
  <2>2. p[1] \in X => p[1] = d
    <3> SUFFICES ASSUME p[1] \in X PROVE p[1] = d
      OBVIOUS
    <3>1. PICK i \in 1..Len(C[d]) : C[d][i] = p[1]
      BY <1>2, <2>1, Members
    <3>2. C[p[1]][1] = p[1] /\ 1 \in 1..Len(C[p[1]])
      <4>1. C[p[1]][1] = p[1] /\ Len(C[p[1]]) \in Nat /\ Len(C[p[1]]) > 0
        BY <1>1, Owners
      <4> QED
        BY <4>1
    <3> QED
      BY <1>1, <3>1, <3>2 DEF Own
  <2>3. ~(p[1] \in X /\ p[2] \in {1, 2})
    BY <2>1, <2>2
  <2>4. IF k.dir[p[1]][p[2]].name \in NameSet
        THEN k.dir[p[1]][p[2]].kind = "dir" => k.dir[p[1]][p[2]].start \in X
        ELSE p[1] \in X /\ p[2] \in {1, 2}
    BY <2>1 DEF Rooted
  <2> QED
    BY <2>3, <2>4 DEF At
<1>4. h = [k EXCEPT !.dir = [b \in Blocks |-> new(b)]]
  BY DEF ResizedBelow
<1>5. h = [used |-> k.used, fat |-> k.fat, dir |-> [b \in Blocks |-> new(b)]]
  <2>1. PICK g : g = [b \in Blocks |-> new(b)]
    OBVIOUS
  <2>2. h = [k EXCEPT !.dir = g]
    BY <1>4, <2>1
  <2>3. k = [used |-> k.used, fat |-> k.fat, dir |-> k.dir]
    BY <1>1 DEF Disks
  <2> HIDE DEF h, new
  <2>4. [k EXCEPT !.dir = g] = [used |-> k.used, fat |-> k.fat, dir |-> g]
    BY <2>3
  <2> QED
    BY <2>1, <2>2, <2>4
<1> HIDE DEF h, subdirs
<1>6. ASSUME NEW b \in Blocks
      PROVE  /\ h.dir[b] \in Seq(Entries) /\ Len(h.dir[b]) = Len(k.dir[b])
             /\ \A j \in 1..Len(k.dir[b]) :
                  /\ h.dir[b][j].name = k.dir[b][j].name
                  /\ h.dir[b][j].kind = k.dir[b][j].kind
                  /\ h.dir[b][j].start = k.dir[b][j].start
                  /\ h.dir[b][j].perm = k.dir[b][j].perm
             /\ 1 \in 1..Len(k.dir[b]) => h.dir[b][1].size = k.dir[b][1].size
  <2> DEFINE s == k.dir[b]
             e == [s[2] EXCEPT !.size = size]
             t == [s EXCEPT ![2] = e]
  <2>1. s \in Seq(Entries) /\ Len(s) \in Nat /\ \A j \in 1..Len(s) : s[j] \in Entries
    BY <1>1, Lists
  <2>2. CASE b \in subdirs
    <3>1. 2 \in 1..Len(s)
      BY <1>1, <1>3, <2>1, <2>2
    <3>2. /\ e \in Entries /\ e.name = s[2].name /\ e.kind = s[2].kind
          /\ e.start = s[2].start /\ e.perm = s[2].perm
      <4>1. s[2] \in Entries
        BY <2>1, <3>1
      <4> HIDE DEF s
      <4> QED
        BY <4>1 DEF Entries
    <3>3. /\ t \in Seq(Entries) /\ Len(t) = Len(s) /\ t[2] = e
          /\ \A j \in 1..Len(s) : j # 2 => t[j] = s[j]
      <4> HIDE DEF e, s
      <4> QED
        BY <2>1, <3>1, <3>2, ExceptSeq
    <3>4. h.dir[b] = t
      BY <1>5, <2>2
    <3> HIDE DEF t, e
    <3> QED
      BY <3>2, <3>3, <3>4
  <2>3. CASE b \notin subdirs
    <3>1. h.dir[b] = s
      BY <1>5, <2>3
    <3> QED
      BY <2>1, <3>1
  <2> QED
    BY <2>2, <2>3
<1> HIDE DEF new
<1>7. h.used = k.used /\ h.fat = k.fat
  BY <1>5
<1>8. h \in Disks
  <2>1. h.dir = [b \in Blocks |-> h.dir[b]]
    BY <1>5
  <2>2. h.dir \in [Blocks -> Seq(Entries)]
    BY <1>6, <2>1
  <2>3. k.used \in SUBSET Blocks /\ k.fat \in [Blocks -> Blocks]
    BY <1>1 DEF Disks
  <2>4. h = [used |-> h.used, fat |-> h.fat, dir |-> h.dir]
    BY <1>5
  <2> QED
    BY <1>7, <2>2, <2>3, <2>4 DEF Disks
<1>9. Layout(h) /\ View(k, h)
  BY <1>1, <1>6, <1>7, <1>8 DEF Layout, View, Alike
<1>10. ASSUME NEW x \in X
       PROVE  h.dir[x][1].size = IF x = d THEN size ELSE k.dir[x][1].size
  <2>1. Len(k.dir[x]) \in Nat /\ Len(k.dir[x]) >= 2 /\ x \in Blocks
    BY <1>1, Lists
  <2>2. 1 \in 1..Len(k.dir[x])
    BY <2>1
  <2> QED
    BY <1>6, <2>1, <2>2
<1>11. Sized(k, h, X, d, size)
  BY <1>7, <1>9, <1>10 DEF Sized
<1> QED
  BY <1>11 DEF h

(* modify_dir_size changes sizes only, and of the "." only that of d.      *)
LEMMA Resized ==
  ASSUME NEW k, NEW X, NEW C, Rooted(k, X, C), NEW d \in X,
         k.dir[d][1].size + 1 \in 0..MaxBlocks
  PROVE  Sized(k, modify_dir_size(k, d), X, d, k.dir[d][1].size + 1)
<1> DEFINE size == k.dir[d][1].size + 1
           f == [k EXCEPT !.dir[d][1].size = size]
           g == ResizedInParent(f, d, size)
           h == ResizedBelow(g, d, size)
<1>1. modify_dir_size(k, d) = h
  BY DEF modify_dir_size
<1>2. Layout(k) /\ X \subseteq Blocks /\ \A x \in X : 1 \in 1..Len(k.dir[x])
  <2>1. Layout(k) /\ X \subseteq Blocks /\ \A x \in X : Len(k.dir[x]) >= 2
    BY DEF Rooted, Own
  <2>2. \A x \in X : Len(k.dir[x]) \in Nat
    BY <2>1, Lists
  <2> QED
    BY <2>1, <2>2
<1> HIDE DEF size
<1>3. Sized(k, f, X, d, size)
  <2>1. /\ Layout(f) /\ View(k, f) /\ f.used = k.used /\ f.fat = k.fat
        /\ \A x \in Blocks : \A j \in 1..Len(k.dir[x]) :
             f.dir[x][j].size = IF x = d /\ j = 1 THEN size ELSE k.dir[x][j].size
    <3>1. size \in 0..MaxBlocks
      BY DEF size
    <3>2. d \in Blocks /\ 1 \in 1..Len(k.dir[d])
      BY <1>2
    <3>3. SizeAt(k, f, d, 1, size)
      BY <1>2, <3>1, <3>2, SizeSet
    <3> HIDE DEF f
    <3> QED
      BY <3>3 DEF SizeAt
  <2> HIDE DEF f
  <2> QED
    BY <1>2, <2>1 DEF Sized
<1> HIDE DEF f
<1>4. Rooted(f, X, C) /\ f.dir[d][1].size = size /\ size \in 0..MaxBlocks
  BY <1>3, RootedView DEF Sized, size
<1>5. Sized(f, g, X, d, size)
  BY <1>4, SizedInParent
<1> HIDE DEF g
<1>6. Rooted(g, X, C) /\ g.dir[d][1].size = size
  BY <1>4, <1>5, RootedView DEF Sized
<1>7. Sized(g, h, X, d, size)
  BY <1>4, <1>6, SizedBelow
<1> HIDE DEF h
<1>8. Sized(k, h, X, d, size)
  <2>1. View(k, h)
    BY <1>3, <1>5, <1>7, SameView DEF Sized
  <2> QED
    BY <1>3, <1>5, <1>7, <2>1 DEF Sized
<1> QED
  BY <1>1, <1>8 DEF size

(* A block is added to a directory.                                        *)
Longer(C, d, b) == [C EXCEPT ![d] = Append(@, b)]
Grows(k, h, X, C, d, b) ==
  /\ Layout(h) /\ View(k, h) /\ h.used = k.used \cup {b} /\ h.dir[b] = <<>>
  /\ \A x \in k.used : ~Holds(X, C, x) => h.fat[x] = k.fat[x]
Extended(k, m, X, C, d, b) ==
  /\ Own(m, X, Longer(C, d, b))
  /\ \A x : Holds(X, Longer(C, d, b), x) <=> Holds(X, C, x) \/ x = b
  /\ ToSet(Longer(C, d, b)[d]) = ToSet(C[d]) \cup {b}
  /\ Longer(C, d, b)[d] = Append(C[d], b) /\ Len(Longer(C, d, b)[d]) = Len(C[d]) + 1
  /\ \A e \in X \ {d} : Longer(C, d, b)[e] = C[e]
  /\ \A x \in k.used : ~Holds(X, C, x) => m.fat[x] = k.fat[x]
LEMMA Longest ==
  ASSUME NEW k, NEW m, NEW X, NEW C, k \in Disks, m \in Disks, Own(k, X, C), NEW d \in X,
         NEW b \in Blocks \ {0, 1}, b \notin k.used, m.used = k.used \cup {b},
         m.fat = [k.fat EXCEPT ![b] = FAT_NULL, ![Last(C[d])] = b]
  PROVE  Extended(k, m, X, C, d, b)
<1> DEFINE D == Longer(C, d, b)
           n == Len(C[d])
           last == C[d][n]
           U == m.used \ {0, 1}
<1>1. \A e \in X : /\ C[e] \in Seq(Blocks) /\ Len(C[e]) \in Nat /\ Len(C[e]) > 0
                   /\ C[e][1] = e /\ C[e] \in Seq(k.used \ {0, 1})
                   /\ ToSet(C[e]) \subseteq k.used \ {0, 1}
                   /\ \A i \in 1..Len(C[e]) : C[e][i] \in k.used \ {0, 1} /\ C[e][i] \in ToSet(C[e])
  <2> TAKE e \in X
  <2>1. C[e] \in Seq(k.used \ {0, 1})
    BY DEF Own
  <2> QED
    BY <2>1, Owners, Members
<1>2. Last(C[d]) = last /\ n \in Nat /\ n \in 1..n /\ n > 0 /\ last \in k.used /\ last # b
      /\ last \in Blocks
  <2>1. n \in Nat /\ n \in 1..n /\ n > 0
    BY <1>1
  <2>2. last \in k.used
    BY <1>1, <2>1
  <2> QED
    BY <2>1, <2>2 DEF Last, Disks
<1>3. /\ C \in [X -> Seq(k.used \ {0, 1})]
      /\ D = [C EXCEPT ![d] = Append(C[d], b)]
  BY DEF Own, Longer
<1>4. D[d] = Append(C[d], b) /\ \A e \in X \ {d} : D[e] = C[e]
  BY <1>3
<1>5. /\ Len(D[d]) = n + 1 /\ D[d][n + 1] = b
      /\ \A i \in 1..n : D[d][i] = C[d][i]
      /\ D[d] \in Seq(Blocks)
  <2> HIDE DEF D
  <2> QED
    BY <1>1, <1>4, AppendProperties
<1>6. m.fat[b] = FAT_NULL /\ m.fat[last] = b
      /\ \A x \in Blocks : x # b /\ x # last => m.fat[x] = k.fat[x]
  <2>1. k.fat \in [Blocks -> Blocks]
    BY DEF Disks
  <2> HIDE DEF last
  <2> QED
    BY <1>2, <2>1
<1>7. \A e \in X : D[e] \in Seq(U)
  <2> TAKE e \in X
  <2>1. C[e] \in Seq(U)
    <3>1. C[e] \in Seq(k.used \ {0, 1}) /\ k.used \ {0, 1} \subseteq U
      BY <1>1
    <3> QED
      BY <3>1, SeqMonotonic
  <2>2. b \in U
    OBVIOUS
  <2> HIDE DEF U, D
  <2>3. Append(C[e], b) \in Seq(U)
    BY <2>1, <2>2, AppendProperties
  <2> QED
    BY <1>4, <2>1, <2>3
<1>8. D \in [X -> Seq(U)]
  <2>1. DOMAIN D = X /\ D = [e \in X |-> D[e]]
    BY <1>3
  <2> HIDE DEF D, U
  <2> QED
    BY <1>7, <2>1
<1> HIDE DEF D
<1>9. ASSUME NEW e \in X PROVE Linked(m, D[e]) /\ D[e][1] = e
  <2>1. Linked(k, C[e]) /\ C[e][1] = e
    BY DEF Own
  <2>2. CASE e = d
    <3>1. ASSUME NEW i \in 1..n, i # n PROVE m.fat[C[d][i]] = C[d][i + 1]
      <4>1. C[d][i] # last /\ C[d][i] \in Blocks /\ C[d][i] # b
        <5>1. C[d][i] \in k.used
          BY <1>1
        <5>2. C[d][i] # last
          <6>1. n \in 1..n /\ i \in 1..n /\ i # n
            BY <1>2, <3>1
          <6>2. \A x, y \in 1..n : C[d][x] = C[d][y] => x = y
            BY DEF Own
          <6> QED
            BY <6>1, <6>2
        <5> QED
          BY <5>1, <5>2 DEF Disks
      <4>2. i \in 1..(n - 1)
        BY <1>2, <3>1
      <4> QED
        BY <1>6, <2>1, <2>2, <4>1, <4>2 DEF Linked
    <3>2. ASSUME NEW i \in 1..(Len(D[d]) - 1) PROVE m.fat[D[d][i]] = D[d][i + 1]
      <4>1. i \in 1..n
        BY <1>2, <1>5
      <4>2. CASE i = n
        BY <1>5, <1>6, <4>1, <4>2
      <4>3. CASE i # n
        <5>1. i + 1 \in 1..n
          BY <1>2, <4>1, <4>3
        <5> QED
          BY <1>5, <3>1, <4>1, <4>3, <5>1
      <4> QED
        BY <4>2, <4>3
    <3>3. D[d] # <<>> /\ m.fat[D[d][Len(D[d])]] = FAT_NULL
      <4>1. Len(D[d]) # 0
        BY <1>2, <1>5
      <4> QED
        BY <1>5, <1>6, <4>1, EmptySeq
    <3>4. D[d][1] = d
      <4>1. 1 \in 1..n
        BY <1>2
      <4> QED
        BY <1>5, <2>1, <2>2, <4>1
    <3> QED
      BY <2>2, <3>2, <3>3, <3>4 DEF Linked
  <2>3. CASE e # d
    <3>1. \A i \in 1..Len(C[e]) : m.fat[C[e][i]] = k.fat[C[e][i]]
      <4> TAKE i \in 1..Len(C[e])
      <4>1. C[e][i] \in k.used /\ C[e][i] \in Blocks
        BY <1>1 DEF Disks
      <4>2. C[e][i] # last
        BY <1>2, <2>3 DEF Own
      <4> QED
        BY <1>6, <4>1, <4>2
    <3>2. Len(C[e]) \in Nat /\ Len(C[e]) \in 1..Len(C[e])
          /\ \A i \in 1..(Len(C[e]) - 1) : i \in 1..Len(C[e])
      <4>1. Len(C[e]) \in Nat /\ Len(C[e]) > 0
        BY <1>1
      <4> QED
        BY <4>1
    <3>3. Linked(m, C[e])
      BY <2>1, <3>1, <3>2 DEF Linked
    <3> QED
      BY <1>4, <2>1, <2>3, <3>3
  <2> QED
    BY <2>2, <2>3
<1>10. ASSUME NEW e \in X, NEW i \in 1..Len(D[e])
       PROVE  \/ e = d /\ i = n + 1 /\ D[e][i] = b
              \/ i \in 1..Len(C[e]) /\ D[e][i] = C[e][i] /\ D[e][i] # b
  <2>1. CASE e = d
    <3>1. i \in 1..n \/ i = n + 1
      BY <1>2, <1>5, <2>1
    <3> QED
      BY <1>1, <1>5, <2>1, <3>1
  <2>2. CASE e # d
    <3>1. D[e] = C[e]
      BY <1>4, <2>2
    <3> QED
      BY <1>1, <3>1
  <2> QED
    BY <2>1, <2>2
<1>11. ASSUME NEW e \in X, NEW f \in X, NEW i \in 1..Len(D[e]), NEW j \in 1..Len(D[f]),
              D[e][i] = D[f][j]
       PROVE  e = f /\ i = j
  <2>1. /\ \/ e = d /\ i = n + 1 /\ D[e][i] = b
           \/ i \in 1..Len(C[e]) /\ D[e][i] = C[e][i] /\ D[e][i] # b
        /\ \/ f = d /\ j = n + 1 /\ D[f][j] = b
           \/ j \in 1..Len(C[f]) /\ D[f][j] = C[f][j] /\ D[f][j] # b
    BY <1>10
  <2> QED
    BY <1>11, <2>1 DEF Own
<1>12. Own(m, X, D)
  BY <1>8, <1>9, <1>11 DEF Own
<1>13. ToSet(D[d]) = ToSet(C[d]) \cup {b}
  <2>1. \A x : x \in ToSet(D[d]) <=> \E i \in 1..(n + 1) : D[d][i] = x
    BY <1>5, Members
  <2>2. \A x : x \in ToSet(C[d]) <=> \E i \in 1..n : C[d][i] = x
    BY <1>1, Members
  <2>3. \A i : i \in 1..(n + 1) <=> i \in 1..n \/ i = n + 1
    BY <1>2
  <2> QED
    BY <1>5, <2>1, <2>2, <2>3
<1>14. \A x : Holds(X, D, x) <=> Holds(X, C, x) \/ x = b
  BY <1>4, <1>13 DEF Holds
<1>15. ASSUME NEW x \in k.used, ~Holds(X, C, x) PROVE m.fat[x] = k.fat[x]
  <2>1. last \in ToSet(C[d])
    BY <1>1, <1>2
  <2>2. x # last /\ x # b /\ x \in Blocks
    BY <1>15, <2>1 DEF Holds, Disks
  <2> QED
    BY <1>6, <2>2
<1> QED
  BY <1>4, <1>5, <1>12, <1>13, <1>14, <1>15 DEF D, Extended

(* add_block_to_dir: the chain is longer, and every size says so.           *)
LEMMA Grow ==
  ASSUME NEW k, NEW X, NEW C, NEW L, Shape(k, X, C, {}, L), NEW d \in X,
         NewBlock(k) \in Blocks \ k.used
  PROVE  /\ Shape(Added(k, d), X, Longer(C, d, NewBlock(k)), {}, L)
         /\ Grows(k, Added(k, d), X, C, d, NewBlock(k))
<1> DEFINE b == NewBlock(k)
           D == Longer(C, d, b)
           m == [alloc_block(k) EXCEPT !.fat[Last(C[d])] = b]
           h == Added(k, d)
<1>1. /\ Layout(k) /\ k \in Disks /\ Own(k, X, C) /\ b \in Blocks /\ b \notin k.used
      /\ {0, 1} \subseteq k.used /\ b \in Blocks \ {0, 1} /\ d \in Blocks
  BY DEF Shape, Layout, Own
<1>2. Chain(k, d) = C[d] /\ Len(C[d]) \in Nat
  BY <1>1, Owners
<1>3. h = modify_dir_size(m, d)
  BY <1>2 DEF Added
<1>4. k.dir[b] = <<>> /\ ~Holds(X, C, b)
  BY Alone
<1> HIDE DEF b
<1>5. /\ Layout(m) /\ m.used = k.used \cup {b} /\ m.dir = k.dir /\ View(k, m)
      /\ m.fat = [k.fat EXCEPT ![b] = FAT_NULL, ![Last(C[d])] = b]
  <2>1. PICK a : a = alloc_block(k)
    OBVIOUS
  <2>2. /\ Layout(a) /\ a.used = k.used \cup {b}
        /\ a.fat = [k.fat EXCEPT ![b] = FAT_NULL] /\ a.dir = k.dir
    BY <1>1, <1>4, <2>1, Allocated DEF b
  <2>3. a \in Disks /\ a = [used |-> a.used, fat |-> a.fat, dir |-> a.dir]
    BY <2>2 DEF Layout, Disks
  <2>4. PICK g : g = [a.fat EXCEPT ![Last(C[d])] = b]
    OBVIOUS
  <2>5. m = [a EXCEPT !.fat = g]
    BY <2>1, <2>4
  <2>6. [a EXCEPT !.fat = g] = [used |-> a.used, fat |-> g, dir |-> a.dir]
    BY <2>3
  <2> HIDE DEF m
  <2>7. m.used = a.used /\ m.fat = g /\ m.dir = a.dir
        /\ m = [used |-> a.used, fat |-> g, dir |-> a.dir]
    BY <2>5, <2>6
  <2>8. g \in [Blocks -> Blocks]
    BY <1>1, <2>3, <2>4 DEF Disks
  <2>9. m \in Disks
    BY <2>3, <2>7, <2>8 DEF Disks
  <2>10. Layout(m) /\ View(k, m)
    BY <2>2, <2>7, <2>9 DEF Layout, View, Alike
  <2> QED
    BY <2>2, <2>4, <2>7, <2>10
<1> HIDE DEF m, h, D
<1>6. /\ Own(m, X, D)
      /\ \A x : Holds(X, D, x) <=> Holds(X, C, x) \/ x = b
      /\ Len(D[d]) = Len(C[d]) + 1
      /\ \A e \in X \ {d} : D[e] = C[e]
      /\ \A x \in k.used : ~Holds(X, C, x) => m.fat[x] = k.fat[x]
  <2>1. m \in Disks
    BY <1>5 DEF Layout
  <2>2. Extended(k, m, X, C, d, b)
    BY <1>1, <1>5, <2>1, Longest
  <2> QED
    BY <2>2 DEF D, Extended
<1>7. Rooted(m, X, D)
  <2>1. ASSUME NEW x \in Blocks, NEW i \in 1..Len(k.dir[x])
        PROVE  IF k.dir[x][i].name \in NameSet
               THEN k.dir[x][i].kind = "dir" => k.dir[x][i].start \in X
               ELSE x \in X /\ i \in {1, 2}
    <3>1. CASE k.dir[x][i].name \in NameSet
      <4>1. <<x, i>> \in Live(k)
        BY <1>1, <3>1, Alive
      <4>2. LeadsTo(k, X, C, L, k.dir[x][i])
        BY <4>1 DEF Shape, Leads, At
      <4> QED
        BY <3>1, <4>2 DEF LeadsTo
    <3>2. CASE k.dir[x][i].name \notin NameSet
      BY <3>2 DEF Shape, Dots
    <3> QED
      BY <3>1, <3>2
  <2>2. \A x \in X : /\ Len(k.dir[x]) >= 2
                     /\ k.dir[x][1].name = "." /\ k.dir[x][1].start = x
    BY DEF Shape, Dots
  <2> QED
    BY <1>5, <1>6, <2>1, <2>2 DEF Rooted
<1>8. \A e \in X : k.dir[e][1].size = Len(C[e])
  BY DEF Shape, Dots
<1>9. m.dir[d][1].size + 1 = Len(C[d]) + 1 /\ Len(C[d]) + 1 \in 0..MaxBlocks
  <2>1. m \in Disks
    BY <1>5 DEF Layout
  <2>2. D[d] \in Seq(Blocks) /\ Distinct(D[d])
    BY <1>6, <2>1, Owners
  <2>3. Len(D[d]) <= MaxBlocks
    BY <2>2, Short
  <2> QED
    BY <1>2, <1>5, <1>6, <1>8, <2>3, FatFsAssumption
<1>10. Sized(m, h, X, d, Len(C[d]) + 1)
  <2>1. m.dir[d][1].size + 1 \in 0..MaxBlocks
    BY <1>9
  <2>2. Sized(m, modify_dir_size(m, d), X, d, m.dir[d][1].size + 1)
    BY <1>7, <2>1, Resized
  <2> QED
    BY <1>3, <1>9, <2>2
<1>11. View(k, h)
  BY <1>5, <1>10, SameView DEF Sized
<1>12. \A e \in X : h.dir[e][1].size = Len(D[e])
  BY <1>5, <1>6, <1>8, <1>10 DEF Sized
<1>13. Own(h, X, D)
  BY <1>6, <1>10 DEF Sized, Own, Linked
<1>14. Shape(h, X, D, {}, L)
  <2>1. h \in Disks /\ k.used \subseteq h.used
    BY <1>5, <1>10 DEF Sized, Layout
  <2>2. \A x \in Blocks : Holds(X, C, x) => Holds(X, D, x)
    BY <1>6
  <2>3. \A x \in Blocks : Holds(X, D, x) => Holds(X, C, x) \/ x \notin k.used
    BY <1>1, <1>6
  <2>4. \A x \in k.used : ~Holds(X, C, x) => h.fat[x] = k.fat[x]
    BY <1>6, <1>10 DEF Sized
  <2> QED
    BY <1>11, <1>12, <1>13, <2>1, <2>2, <2>3, <2>4, SameEntries DEF View
<1>15. Grows(k, h, X, C, d, b)
  <2>1. h.dir[b] = <<>>
    <3>1. h.dir[b] \in Seq(Entries) /\ Len(<<>>) = 0
      BY <1>1, <1>10, Lists DEF Sized
    <3>2. Len(h.dir[b]) = 0
      BY <1>1, <1>4, <1>11, <3>1 DEF View, Alike
    <3> QED
      BY <3>1, <3>2, EmptySeq
  <2> QED
    BY <1>5, <1>6, <1>10, <1>11, <2>1 DEF Grows, Sized
<1> QED
  BY <1>14, <1>15 DEF D, b, h

(* What becomes of the chains C of directories X if one of them grows:     *)
(* blocks are only added, behind the others.                               *)
Widens(k, h, X, C, D) ==
  /\ k.used \subseteq h.used
  /\ \A b \in h.used : b \in k.used \/ Holds(X, D, b)
  /\ \A x \in X : ToSet(C[x]) \subseteq ToSet(D[x])
  /\ \A x \in X : \A b \in k.used : b \in ToSet(D[x]) => b \in ToSet(C[x])
  /\ \A x \in X : \A S \in SUBSET PlacesIn(k, C[x]) : First(D[x], S) = First(C[x], S)
  /\ \A b \in k.used : ~Holds(X, C, b) => h.fat[b] = k.fat[b]
Same(e, f) ==
  /\ e.name = f.name /\ e.kind = f.kind
  /\ e.start = f.start /\ e.perm = f.perm

(* make_file: there is one more entry, in a block of the directory.        *)
Makes(k, h, X, C, D, d, q, e, L) ==
  /\ Shape(h, X, D, {q}, L) /\ Widens(k, h, X, C, D)
  /\ q \notin Live(k) /\ Live(h) = Live(k) \cup {q}
  /\ At(h, q) = e /\ q[1] \in ToSet(D[d])
  /\ \A p \in Live(k) : Same(At(h, p), At(k, p))
LEMMA PutIn ==
  ASSUME NEW k, NEW g, NEW h, NEW X, NEW C, NEW D, NEW L, Layout(k),
         Shape(g, X, D, {}, L), View(k, g), Widens(k, g, X, C, D),
         NEW d \in X, NEW b \in ToSet(D[d]), Len(g.dir[b]) < FILES_PER_DIR,
         NEW e \in Entries, e.name \in NameSet,
         h = [g EXCEPT !.dir[b] = Append(@, e)]
  PROVE  Makes(k, h, X, C, D, d, <<b, Len(g.dir[b]) + 1>>, e, L)
<1> DEFINE q == <<b, Len(g.dir[b]) + 1>>
<1>1. Layout(g) /\ g \in Disks /\ Own(g, X, D) /\ k \in Disks
  BY DEF Shape, Layout
<1>2. b \in Blocks /\ Holds(X, D, b)
  <2>1. ToSet(D[d]) \subseteq g.used /\ g.used \subseteq Blocks
    BY <1>1, Owners DEF Disks
  <2> QED
    BY <2>1 DEF Holds
<1>3. Gains(g, h, b, e)
  BY <1>1, <1>2, Appended
<1>4. Shape(h, X, D, {} \cup {q}, L)
  BY <1>2, <1>3, Put
<1>5. /\ h.used = g.used /\ h.fat = g.fat /\ q \notin Live(g) /\ Live(h) = Live(g) \cup {q}
      /\ \A p \in Live(g) : At(h, p) = At(g, p)
      /\ At(h, q) = e
  BY <1>3 DEF Gains
<1>6. /\ Live(g) = Live(k)
      /\ \A p \in Live(k) : Same(At(g, p), At(k, p))
  <2>1. /\ Live(g) = Live(k)
        /\ \A p \in Live(k) : /\ At(g, p).name = At(k, p).name
                              /\ At(g, p).kind = At(k, p).kind
                              /\ At(g, p).start = At(k, p).start
    BY <1>1, SameLive DEF View
  <2>2. ASSUME NEW p \in Live(k) PROVE At(g, p).perm = At(k, p).perm
    <3>1. p[1] \in Blocks /\ p[2] \in 1..Len(k.dir[p[1]])
      BY Alive, AlivePair
    <3> QED
      BY <3>1 DEF View, At
  <2> QED
    BY <2>1, <2>2 DEF Same
<1>7. Widens(k, h, X, C, D)
  BY <1>5 DEF Widens
<1>8. q[1] = b /\ {} \cup {q} = {q}
  OBVIOUS
<1> HIDE DEF q
<1>9. Makes(k, h, X, C, D, d, q, e, L)
  BY <1>4, <1>5, <1>6, <1>7, <1>8 DEF Makes
<1> QED
  BY <1>9 DEF q

(* make_file puts the entry into the directory, which may get a block for it.*)
LEMMA MakeFile ==
  ASSUME NEW k, NEW X, NEW C, NEW L, Shape(k, X, C, {}, L), NEW d \in X,
         NEW e \in Entries, e.name \in NameSet,
         Space(k, d) = {} => NewBlock(k) \in Blocks \ k.used
  PROVE  \E D, q : Makes(k, make_file(k, d, e), X, C, D, d, q, e, L)
<1>1. Layout(k) /\ k \in Disks /\ Own(k, X, C) /\ k.used \subseteq Blocks
  BY DEF Shape, Layout, Disks
<1>2. /\ Chain(k, d) = C[d] /\ DOMAIN C[d] = 1..Len(C[d]) /\ Len(C[d]) \in Nat
      /\ \A i \in 1..Len(C[d]) : C[d][i] \in ToSet(C[d])
  <2>1. Chain(k, d) = C[d] /\ C[d] \in Seq(Blocks)
    BY <1>1, Owners
  <2> QED
    BY <2>1, Members
<1>3. CASE Space(k, d) # {}
  <2> DEFINE i == Min(Space(k, d))
             b == C[d][i]
             h == [k EXCEPT !.dir[b] = Append(@, e)]
  <2>1. i \in Space(k, d)
    <3>1. Space(k, d) \subseteq Nat
      BY <1>2 DEF Space
    <3>2. PICK m \in Space(k, d) : \A x \in Space(k, d) : m <= x
      BY <1>3, <3>1, LeastNumber
    <3> QED
      BY <3>2 DEF Min
  <2>2. i \in 1..Len(C[d]) /\ Len(k.dir[b]) < FILES_PER_DIR
    BY <1>2, <2>1 DEF Space
  <2>3. make_file(k, d, e) = h
    BY <1>2, <1>3 DEF make_file
  <2>4. View(k, k) /\ Widens(k, k, X, C, C)
    BY DEF View, Alike, Widens
  <2>5. b \in ToSet(C[d])
    BY <1>2, <2>2
  <2> HIDE DEF h, b
  <2>6. Makes(k, h, X, C, C, d, <<b, Len(k.dir[b]) + 1>>, e, L)
    BY <1>1, <2>2, <2>4, <2>5, PutIn DEF h
  <2> QED
    BY <2>3, <2>6
<1>4. CASE Space(k, d) = {}
  <2> DEFINE b == NewBlock(k)
             D == Longer(C, d, b)
             g == Added(k, d)
             h == [g EXCEPT !.dir[b] = Append(@, e)]
  <2>1. b \in Blocks /\ b \notin k.used
    BY <1>4
  <2>2. Shape(g, X, D, {}, L) /\ Grows(k, g, X, C, d, b)
    BY <1>4, Grow
  <2> HIDE DEF b, g, D
  <2>3. make_file(k, d, e) = h
    <3>1. g.dir[b] = <<>> /\ Append(<<>>, e) = <<e>>
      BY <2>2 DEF Grows
    <3>2. g \in Disks
      BY <2>2 DEF Shape, Layout
    <3>3. h = [g EXCEPT !.dir[b] = <<e>>]
      BY <2>1, <3>1, <3>2 DEF Disks
    <3> QED
      BY <1>4, <3>3 DEF make_file, b, g
  <2>4. View(k, g) /\ g.used = k.used \cup {b} /\ g.dir[b] = <<>>
    BY <2>2 DEF Grows
  <2>5. /\ D[d] = Append(C[d], b)
        /\ \A x \in X \ {d} : D[x] = C[x]
        /\ ToSet(D[d]) = ToSet(C[d]) \cup {b}
    <3>1. C \in [X -> Seq(k.used \ {0, 1})]
      BY <1>1 DEF Own
    <3>2. /\ D[d] = Append(C[d], b)
          /\ \A x \in X \ {d} : D[x] = C[x]
      BY <3>1 DEF D, Longer
    <3>3. C[d] \in Seq(Blocks)
      BY <1>1, Owners
    <3>4. D[d] \in Seq(Blocks) /\ Len(D[d]) = Len(C[d]) + 1 /\ D[d][Len(C[d]) + 1] = b
          /\ \A i \in 1..Len(C[d]) : D[d][i] = C[d][i]
      BY <2>1, <3>2, <3>3, AppendProperties
    <3>5. \A x : x \in ToSet(D[d]) <=> \E i \in 1..Len(D[d]) : D[d][i] = x
      BY <3>4, Members
    <3>6. \A x : x \in ToSet(C[d]) <=> \E i \in 1..Len(C[d]) : C[d][i] = x
      BY <3>3, Members
    <3>7. \A i : i \in 1..Len(D[d]) <=> i \in 1..Len(C[d]) \/ i = Len(C[d]) + 1
      BY <1>2, <3>4
    <3>8. \A x : x \in ToSet(D[d]) <=> x \in ToSet(C[d]) \/ x = b
      BY <3>4, <3>5, <3>6, <3>7
    <3> QED
      BY <3>2, <3>8
  <2>6. \A x \in X : \A S \in SUBSET PlacesIn(k, C[x]) : First(D[x], S) = First(C[x], S)
    <3>1. C[d] \in Seq(Blocks) /\ ToSet(C[d]) \subseteq k.used
      BY <1>1, Owners
    <3>2. \A S \in SUBSET PlacesIn(k, C[d]) : First(Append(C[d], b), S) = First(C[d], S)
      BY <1>1, <2>1, <3>1, FirstOfMore
    <3> QED
      BY <2>5, <3>2
  <2>7. Widens(k, g, X, C, D)
    <3>1. Holds(X, D, b)
      BY <2>5 DEF Holds
    <3>2. \A x \in k.used : ~Holds(X, C, x) => g.fat[x] = k.fat[x]
      BY <2>2 DEF Grows
    <3> QED
      BY <2>1, <2>4, <2>5, <2>6, <3>1, <3>2 DEF Widens
  <2>8. b \in ToSet(D[d]) /\ Len(g.dir[b]) < FILES_PER_DIR
    BY <2>4, <2>5, FatFsAssumption
  <2> HIDE DEF h
  <2>9. Makes(k, h, X, C, D, d, <<b, Len(g.dir[b]) + 1>>, e, L)
    BY <1>1, <2>2, <2>4, <2>7, <2>8, PutIn DEF h
  <2> QED
    BY <2>3, <2>9
<1> QED
  BY <1>3, <1>4

(* The named entries of a directory, and the one that has a name.          *)
Of(k, C, d) == {p \in Live(k) : p[1] \in ToSet(C[d])}
LEMMA NamedIs ==
  ASSUME NEW k, NEW X, NEW C, Layout(k), Own(k, X, C), NEW d \in X
  PROVE  /\ Named(k, d) = Of(k, C, d)
         /\ Of(k, C, d) \subseteq PlacesIn(k, C[d])
         /\ \A name \in NameSet :
              /\ Hits(k, d, name) = {p \in Of(k, C, d) : At(k, p).name = name}
              /\ find_in_dir(k, d, name) = First(C[d], Hits(k, d, name))
              /\ Found(k, d, name) => find_in_dir(k, d, name) \in Hits(k, d, name)
<1>1. k \in Disks /\ C[d] \in Seq(Blocks) /\ Chain(k, d) = C[d]
  BY Owners DEF Layout
<1>2. Places(k, d) = PlacesIn(k, C[d])
  BY <1>1 DEF Places
<1>3. ASSUME NEW p, p \in Live(k), p[1] \in ToSet(C[d])
      PROVE  p \in PlacesIn(k, C[d]) /\ At(k, p).name \in NameSet
  <2>1. p = <<p[1], p[2]>>
    BY <1>3, AlivePair
  <2>2. p[2] \in 1..Len(k.dir[p[1]]) /\ k.dir[p[1]][p[2]].name \in NameSet
    BY <1>3, <2>1, Alive
  <2>3. <<p[1], p[2]>> \in PlacesIn(k, C[d])
    BY <1>1, <1>3, <2>2, PlacesAre
  <2> QED
    BY <2>1, <2>2, <2>3 DEF At
<1>4. ASSUME NEW p \in PlacesIn(k, C[d]), At(k, p).name \in NameSet
      PROVE  p \in Live(k) /\ p[1] \in ToSet(C[d])
  <2>1. /\ p = <<p[1], p[2]>> /\ p[1] \in ToSet(C[d]) /\ p[1] \in Blocks
        /\ p[2] \in 1..Len(k.dir[p[1]])
    BY <1>1, PlacesAre
  <2>2. <<p[1], p[2]>> \in Live(k)
    BY <1>4, <2>1, Alive DEF At
  <2> QED
    BY <2>1, <2>2
<1>5. Named(k, d) = Of(k, C, d)
  BY <1>2, <1>3, <1>4 DEF Named, Of
<1>6. Of(k, C, d) \subseteq PlacesIn(k, C[d])
  BY <1>3 DEF Of
<1>7. ASSUME NEW name \in NameSet
      PROVE  /\ Hits(k, d, name) = {p \in Of(k, C, d) : At(k, p).name = name}
             /\ find_in_dir(k, d, name) = First(C[d], Hits(k, d, name))
             /\ Found(k, d, name) => find_in_dir(k, d, name) \in Hits(k, d, name)
  <2>1. Hits(k, d, name) = {p \in Of(k, C, d) : At(k, p).name = name}
    BY <1>2, <1>3, <1>4 DEF Hits, Of
  <2>2. Hits(k, d, name) \subseteq PlacesIn(k, C[d])
    BY <1>6, <2>1
  <2>3. Found(k, d, name) => First(C[d], Hits(k, d, name)) \in Hits(k, d, name)
    BY <1>1, <2>2, FirstIs DEF Found
  <2> QED
    BY <1>1, <2>1, <2>3 DEF find_in_dir
<1> QED
  BY <1>5, <1>6, <1>7

(* Subdirectories are what entries lead to.                                *)
LEMMA SubdirsAre ==
  ASSUME NEW k, NEW X, NEW C, Layout(k), Own(k, X, C), NEW d \in X
  PROVE  Subdirs(k, d) = {At(k, p).start : p \in {q \in Of(k, C, d) : At(k, q).kind = "dir"}}
BY NamedIs DEF Subdirs

(* What can be looked up in a directory, and where it is found, when one   *)
(* entry has been made.                                                    *)
Offers(k, h, C, D, d, q, e, x) ==
  /\ Of(h, D, x) = Of(k, C, x) \cup (IF x = d THEN {q} ELSE {})
  /\ \A name \in NameSet :
       /\ Hits(h, x, name) = Hits(k, x, name) \cup
                             (IF x = d /\ e.name = name THEN {q} ELSE {})
       /\ (x # d \/ e.name # name) =>
            find_in_dir(h, x, name) = find_in_dir(k, x, name)
LEMMA Finds ==
  ASSUME NEW k, NEW h, NEW X, NEW C, NEW D, NEW d \in X, NEW q, NEW e, NEW L,
         Shape(k, X, C, {}, L), Makes(k, h, X, C, D, d, q, e, L), NEW x \in X
  PROVE  Offers(k, h, C, D, d, q, e, x)
<1>1. /\ Layout(k) /\ Own(k, X, C) /\ Layout(h) /\ Own(h, X, D) /\ Widens(k, h, X, C, D)
      /\ q \notin Live(k) /\ Live(h) = Live(k) \cup {q} /\ At(h, q) = e
      /\ q[1] \in ToSet(D[d])
      /\ \A p \in Live(k) : Same(At(h, p), At(k, p))
  BY DEF Makes, Shape
<1>2. ASSUME NEW p \in Live(k) PROVE p[1] \in ToSet(D[x]) <=> p[1] \in ToSet(C[x])
  <2>1. p[1] \in Blocks /\ p[2] \in 1..Len(k.dir[p[1]])
    BY <1>1, Alive, AlivePair
  <2>2. k.dir[p[1]] # <<>>
    BY <1>1, <2>1, Lists
  <2>3. Holds(X, C, p[1])
    BY <2>1, <2>2 DEF Shape, Dots
  <2>4. p[1] \in k.used
    BY <1>1, <2>3, Owners DEF Holds, Layout
  <2> QED
    BY <1>1, <2>4 DEF Widens
<1>3. q[1] \in ToSet(D[x]) <=> x = d
  <2>1. ASSUME q[1] \in ToSet(D[x]) PROVE x = d
    <3>1. D[x] \in Seq(Blocks) /\ D[d] \in Seq(Blocks)
      BY <1>1, Owners DEF Layout
    <3>2. PICK i \in 1..Len(D[x]) : D[x][i] = q[1]
      BY <2>1, <3>1, Members
    <3>3. PICK j \in 1..Len(D[d]) : D[d][j] = q[1]
      BY <1>1, <3>1, Members
    <3> QED
      BY <1>1, <3>2, <3>3 DEF Own
  <2> QED
    BY <1>1, <2>1
<1>4. Of(h, D, x) = Of(k, C, x) \cup (IF x = d THEN {q} ELSE {})
  BY <1>1, <1>2, <1>3 DEF Of
<1>5. ASSUME NEW name \in NameSet
      PROVE  /\ Hits(h, x, name) = Hits(k, x, name) \cup
                                   (IF x = d /\ e.name = name THEN {q} ELSE {})
             /\ (x # d \/ e.name # name) =>
                  find_in_dir(h, x, name) = find_in_dir(k, x, name)
  <2>1. Hits(h, x, name) = {p \in Of(h, D, x) : At(h, p).name = name}
    BY <1>1, NamedIs
  <2>2. Hits(k, x, name) = {p \in Of(k, C, x) : At(k, p).name = name}
    BY <1>1, NamedIs
  <2>3. \A p \in Of(k, C, x) : At(h, p).name = At(k, p).name
    BY <1>1 DEF Of, Same
  <2>4. Hits(h, x, name) = Hits(k, x, name) \cup
                           (IF x = d /\ e.name = name THEN {q} ELSE {})
    BY <1>1, <1>4, <2>1, <2>2, <2>3
  <2>5. ASSUME x # d \/ e.name # name
        PROVE  find_in_dir(h, x, name) = find_in_dir(k, x, name)
    <3>1. Hits(h, x, name) = Hits(k, x, name)
      BY <2>4, <2>5
    <3>2. Hits(k, x, name) \in SUBSET PlacesIn(k, C[x])
      <4>1. Of(k, C, x) \subseteq PlacesIn(k, C[x])
        BY <1>1, NamedIs
      <4> QED
        BY <2>2, <4>1
    <3>3. First(D[x], Hits(k, x, name)) = First(C[x], Hits(k, x, name))
      BY <1>1, <3>2 DEF Widens
    <3>4. /\ find_in_dir(h, x, name) = First(D[x], Hits(h, x, name))
          /\ find_in_dir(k, x, name) = First(C[x], Hits(k, x, name))
      BY <1>1, NamedIs
    <3> QED
      BY <3>1, <3>3, <3>4
  <2> QED
    BY <2>4, <2>5
<1> QED
  BY <1>4, <1>5 DEF Offers

-----------------------------------------------------------------------------
(* The invariant.  Names are unique as long as nothing is renamed onto a   *)
(* name that exists.                                                       *)
Unique(k, X, C) ==
  \A d \in X : \A p, q \in Of(k, C, d) : At(k, p).name = At(k, q).name => p = q

(* What is in use belongs to a directory or to a link, or is leaked.       *)
Linking(k, E, b) == \E p \in Live(k) \ E : At(k, p).kind = "link" /\ At(k, p).start = b
Covers(k, X, C, E, L) ==
  \A b \in k.used \ {0, 1} : b \in L \/ Holds(X, C, b) \/ Linking(k, E, b)

(* The directories are those one gets to from the root, by entries that    *)
(* are not in E.                                                           *)
Closed(k, X, C, E, S) ==
  \A x \in S \cap X : \A p \in Of(k, C, x) \ E :
    At(k, p).kind = "dir" => At(k, p).start \in S
Reach(k, X, C, E) == \A S : RootDir \in S /\ Closed(k, X, C, E, S) => X \subseteq S

(* An entry that is about to be deleted: nothing is left of what it led    *)
(* to, or there is another entry for it.                                   *)
Other(k, p) ==
  \E q \in Live(k) \ {p} : /\ At(k, q).kind = At(k, p).kind
                           /\ At(k, q).perm = At(k, p).perm
                           /\ At(k, q).start = At(k, p).start
Emptied(k, p) ==
  /\ At(k, p).kind = "file" => At(k, p).start = FAT_NULL
  /\ \A b \in ToSet(Chain(k, At(k, p).start)) : b \notin k.used /\ k.dir[b] = <<>>
Waits(k, X, C, E, wait) ==
  IF wait = NoPending THEN E = {}
  ELSE \E d \in X, name \in NameSet : \E p \in Of(k, C, d) :
         /\ wait = <<d, name>> /\ At(k, p).name = name
         /\ find_in_dir(k, d, name) = p /\ E = {p}
         /\ Other(k, p) \/ Emptied(k, p)

(* What the names of directories stand for, but for the entries E.         *)
What(e) == [kind |-> e.kind, perm |-> e.perm, start |-> e.start]
Row(d, e) == <<<<d, e.name>>, What(e)>>
Graph(k, X, C, E) == UNION {{Row(d, At(k, p)) : p \in Of(k, C, d) \ E} : d \in X}

(* The invariant: the disk k has directories X with chains C; E has the entr*)
(* that waits to be deleted, and names are unique unless rename spoiled some*)
Tidy(k, X, C, E, L, wait, some) ==
  /\ Shape(k, X, C, E, L) /\ Waits(k, X, C, E, wait)
  /\ Covers(k, X, C, E, L) /\ Reach(k, X, C, E)
  /\ ~some => Unique(k, X, C)
DirsInv ==
  /\ fault \in BOOLEAN /\ onto \in BOOLEAN
  /\ fault => pending = NoPending
  /\ \E X, C, E : Tidy(disk, X, C, E, leaked, pending, onto)

(* Below a directory is what one gets to from it, by any number of steps:  *)
(* each step leads to at least one more directory, or no step does.        *)
Spread(k, S) == UNION {{b} \cup Subdirs(k, b) : b \in S}
LEMMA BelowIs ==
  ASSUME NEW k, NEW Z \in SUBSET Blocks, \A x \in Z : Subdirs(k, x) \subseteq Z, NEW d \in Z
  PROVE  /\ d \in Below(k, d) /\ Below(k, d) \subseteq Z
         /\ \A x \in Below(k, d) : Subdirs(k, x) \subseteq Below(k, d)
<1> DEFINE A == SUBSET Z
           F == [S \in A |-> Spread(k, S)]
           step(w) == [i \in 0..MaxBlocks |->
             IF i = 0 THEN {d} ELSE UNION {{b} \cup Subdirs(k, b) : b \in w[i - 1]}]
           level == CHOOSE w : w = step(w)
<1>1. MaxBlocks \in Nat
  BY FatFsAssumption
<1>2. F \in [A -> A]
  <2>1. ASSUME NEW S \in A PROVE Spread(k, S) \in A
    BY DEF Spread
  <2> QED
    BY <2>1
<1>3. {d} \in A
  OBVIOUS
<1>4. PICK f \in [0..MaxBlocks -> A] :
         f[0] = {d} /\ \A i \in 1..MaxBlocks : f[i] = F[f[i - 1]]
  <2> HIDE DEF A, F
  <2>1. \E f : Orbit(f, A, F, {d}, MaxBlocks)
    BY <1>1, <1>2, <1>3, Iterates
  <2> QED
    BY <2>1 DEF Orbit
<1>5. ASSUME NEW n \in 1..MaxBlocks PROVE f[n] = Spread(k, f[n - 1]) /\ f[n - 1] \in A
  <2>1. n - 1 \in 0..MaxBlocks /\ f[n - 1] \in A
    <3>1. n - 1 \in 0..MaxBlocks
      BY <1>1
    <3> HIDE DEF A
    <3> QED
      BY <3>1
  <2>2. f[n] = F[f[n - 1]]
    BY <1>4
  <2> HIDE DEF A
  <2> QED
    BY <2>1, <2>2
<1>6. f = step(f)
  <2>1. ASSUME NEW n \in 0..MaxBlocks PROVE f[n] = step(f)[n]
    <3>1. CASE n = 0
      BY <1>4, <3>1
    <3>2. CASE n # 0
      <4>1. n \in 1..MaxBlocks
        BY <1>1, <3>2
      <4> QED
        BY <1>5, <3>2, <4>1 DEF Spread
    <3> QED
      BY <3>1, <3>2
  <2> HIDE DEF A, F
  <2>2. DOMAIN step(f) = 0..MaxBlocks
    OBVIOUS
  <2> QED
    BY <2>1, <2>2
<1>7. level = step(level)
  <2> HIDE DEF step
  <2> QED
    BY <1>6
<1>8. level[MaxBlocks] = f[MaxBlocks]
  <2> HIDE DEF level, F, A
  <2> DEFINE T == {n \in Nat : n <= MaxBlocks => level[n] = f[n]}
  <2>1. 0 \in T
    <3>1. level[0] = {d}
      BY <1>1, <1>7
    <3> QED
      BY <1>4, <3>1
  <2>2. ASSUME NEW n \in Nat, n \in T PROVE n + 1 \in T
    <3> SUFFICES ASSUME n + 1 <= MaxBlocks PROVE level[n + 1] = f[n + 1]
      OBVIOUS
    <3>1. n + 1 \in 0..MaxBlocks /\ n + 1 \in 1..MaxBlocks /\ (n + 1) - 1 = n /\ n + 1 # 0
      BY <1>1
    <3>2. level[n] = f[n]
      BY <1>1, <2>2
    <3>3. level[n + 1] = step(level)[n + 1]
      <4> HIDE DEF step
      <4> QED
        BY <1>7
    <3>4. level[n + 1] = Spread(k, level[n])
      BY <3>1, <3>3 DEF Spread
    <3> QED
      BY <1>5, <3>1, <3>2, <3>4
  <2>3. Nat \subseteq T
    <3> HIDE DEF T
    <3> QED
      BY <2>1, <2>2, InductiveSet
  <2> QED
    BY <1>1, <2>3
<1>9. Below(k, d) = f[MaxBlocks]
  <2> HIDE DEF F, A
  <2>1. Below(k, d) = level[MaxBlocks]
    BY DEF Below
  <2> QED
    BY <1>8, <2>1
<1>10. IsFiniteSet(Blocks) /\ Cardinality(Blocks) = MaxBlocks
  BY FatFsAssumption, FS_Interval DEF Blocks
<1>11. \A S \in A : IsFiniteSet(S) /\ Cardinality(S) <= MaxBlocks /\ Cardinality(S) \in Nat
  <2> TAKE S \in A
  <2>1. S \in SUBSET Blocks
    OBVIOUS
  <2> QED
    BY <1>10, <2>1, FS_Subset, FS_CardinalityType
<1> DEFINE G == {n \in Nat : n <= MaxBlocks =>
                    d \in f[n] /\ (Spread(k, f[n]) = f[n] \/ Cardinality(f[n]) >= n + 1)}
<1>12. 0 \in G
  <2>1. Cardinality({d}) = 1
    BY FS_Singleton
  <2>2. d \in f[0] /\ Cardinality(f[0]) >= 0 + 1
    BY <1>4, <2>1
  <2> QED
    BY <2>2
<1>13. ASSUME NEW n \in Nat, n \in G PROVE n + 1 \in G
  <2> SUFFICES ASSUME n + 1 <= MaxBlocks
               PROVE  /\ d \in f[n + 1]
                      /\ \/ Spread(k, f[n + 1]) = f[n + 1]
                         \/ Cardinality(f[n + 1]) >= (n + 1) + 1
    OBVIOUS
  <2>1. n + 1 \in 1..MaxBlocks /\ (n + 1) - 1 = n /\ n <= MaxBlocks /\ n + 1 \in 0..MaxBlocks
    BY <1>1
  <2>2. f[n + 1] = Spread(k, f[n]) /\ f[n] \in A /\ f[n + 1] \in A
    <3> HIDE DEF A
    <3> QED
      BY <1>4, <1>5, <2>1
  <2>3. f[n] \subseteq f[n + 1]
    BY <2>2 DEF Spread
  <2>4. d \in f[n] /\ (Spread(k, f[n]) = f[n] \/ Cardinality(f[n]) >= n + 1)
    BY <1>13, <2>1
  <2>5. CASE Spread(k, f[n]) = f[n]
    BY <2>2, <2>4, <2>5
  <2>6. CASE Spread(k, f[n]) # f[n]
    <3>1. f[n] # f[n + 1]
      BY <2>2, <2>6
    <3>2. /\ Cardinality(f[n]) <= Cardinality(f[n + 1])
          /\ Cardinality(f[n + 1]) # Cardinality(f[n])
      BY <1>11, <2>2, <2>3, <3>1, FS_Subset
    <3>3. Cardinality(f[n]) \in Nat /\ Cardinality(f[n + 1]) \in Nat
      BY <1>11, <2>2
    <3>4. Cardinality(f[n]) >= n + 1
      BY <2>4, <2>6
    <3> QED
      BY <2>3, <2>4, <3>2, <3>3, <3>4
  <2> QED
    BY <2>5, <2>6
<1>14. MaxBlocks \in G
  <2>1. Nat \subseteq G
    <3> HIDE DEF G
    <3> QED
      BY <1>12, <1>13, InductiveSet
  <2> QED
    BY <1>1, <2>1
<1>15. f[MaxBlocks] \in A
  <2>1. MaxBlocks \in 0..MaxBlocks
    BY <1>1
  <2> HIDE DEF A
  <2> QED
    BY <1>4, <2>1
<1>16. d \in f[MaxBlocks] /\ Spread(k, f[MaxBlocks]) = f[MaxBlocks]
  BY <1>1, <1>11, <1>14, <1>15
<1> QED
  BY <1>9, <1>15, <1>16 DEF Spread

(* Below the directories that are there are only such.                     *)
LEMMA BelowIn ==
  ASSUME NEW k, NEW X, NEW C, NEW L, Shape(k, X, C, {}, L), NEW d \in X
  PROVE  /\ d \in Below(k, d) /\ Below(k, d) \subseteq X
         /\ \A x \in Below(k, d) : Subdirs(k, x) \subseteq Below(k, d)
<1>1. Layout(k) /\ Own(k, X, C) /\ X \in SUBSET Blocks
  BY DEF Shape, Own
<1>2. ASSUME NEW x \in X PROVE Subdirs(k, x) \subseteq X
  <2>1. Subdirs(k, x) = {At(k, p).start : p \in {q \in Of(k, C, x) : At(k, q).kind = "dir"}}
    BY <1>1, SubdirsAre
  <2>2. \A q \in Of(k, C, x) : At(k, q).kind = "dir" => At(k, q).start \in X
    BY DEF Of, Shape, Leads, LeadsTo
  <2> QED
    BY <2>1, <2>2
<1> QED
  BY <1>1, <1>2, BelowIs

(* An empty directory is a chain that stands apart from all others, and so  *)
(* is the block of a link: the tree can do without it.                      *)
LEMMA Parts ==
  ASSUME NEW k, NEW X, NEW C, NEW L, Shape(k, X, C, {}, L), NEW p \in Live(k),
         At(k, p).kind = "dir" => Empty(k, At(k, p).start)
  PROVE  \E Y : Apart(k, X, C, L, p, ToSet(Chain(k, At(k, p).start)), Y)
<1> DEFINE s == At(k, p).start
           gone == ToSet(Chain(k, s))
<1>1. Layout(k) /\ Own(k, X, C) /\ k \in Disks /\ k.used \subseteq Blocks /\ RootDir \in X
  BY DEF Shape, Layout, Disks, Own
<1>2. \A q \in Live(k) : LeadsTo(k, X, C, L, At(k, q))
  BY DEF Shape, Leads
<1>3. \A q \in Live(k) \ {p} : At(k, q).start = s => s = FAT_NULL
  BY DEF Shape, Single
<1>4. \A x \in X : ToSet(C[x]) \subseteq k.used \ {0, 1} /\ x \in ToSet(C[x]) /\ x # FAT_NULL
  BY <1>1, Owners DEF FAT_NULL
<1>5. ASSUME NEW q \in Live(k) PROVE Holds(X, C, q[1])
  <2>1. q[1] \in Blocks /\ q[2] \in 1..Len(k.dir[q[1]])
    BY <1>1, Alive, AlivePair
  <2>2. k.dir[q[1]] # <<>>
    BY <1>1, <2>1, Lists
  <2> QED
    BY <2>1, <2>2 DEF Shape, Dots
<1>6. At(k, p) \in Entries
  <2>1. p[1] \in Blocks /\ p[2] \in 1..Len(k.dir[p[1]])
    BY <1>1, Alive, AlivePair
  <2> QED
    BY <1>1, <2>1, Lists DEF At
<1>7. CASE At(k, p).kind = "file"
  <2>1. Chain(k, s) = <<>>
    BY <1>1, <1>2, <1>7, ChainsAre DEF LeadsTo
  <2>2. gone = {}
    BY <2>1 DEF ToSet
  <2>3. \A q \in Live(k) : At(k, q).kind = "dir" => At(k, q).start \in X
    BY <1>2 DEF LeadsTo
  <2> HIDE DEF gone, s
  <2>4. Apart(k, X, C, L, p, gone, X)
    BY <1>1, <1>7, <2>2, <2>3 DEF Apart
  <2> QED
    BY <2>4 DEF gone, s
<1>8. CASE At(k, p).kind = "link"
  <2>1. Loose(k, X, C, s) /\ s \notin L
    BY <1>2, <1>8 DEF LeadsTo
  <2>2. s \in Blocks \ {0, 1} /\ k.fat[s] = FAT_NULL /\ ~Holds(X, C, s) /\ s \in k.used
    BY <1>1, <2>1 DEF Loose
  <2> HIDE DEF s
  <2>3. Chain(k, s) = <<s>>
    <3> DEFINE t == <<s>>
    <3>1. t \in Seq(Blocks \ {FAT_NULL}) /\ Len(t) = 1 /\ t[1] = s
      BY <2>2 DEF FAT_NULL
    <3>2. Linked(k, t) /\ Distinct(t)
      BY <2>2, <3>1 DEF Linked, Distinct
    <3> HIDE DEF t
    <3>3. Chain(k, t[1]) = t
      BY <1>1, <3>1, <3>2, ChainIs
    <3> QED
      BY <3>1, <3>3 DEF t
  <2>4. gone = {s}
    BY <2>3 DEF ToSet
  <2>5. \A q \in Live(k) : At(k, q).kind = "dir" => At(k, q).start \in X
    BY <1>2 DEF LeadsTo
  <2>6. \A x \in X : ToSet(C[x]) \cap {s} = {}
    BY <2>2 DEF Holds
  <2>7. \A q \in Live(k) : q[1] # s
    BY <1>5, <2>2
  <2>8. \A q \in Live(k) \ {p} : At(k, q).start # s
    BY <1>3, <2>2 DEF FAT_NULL
  <2>9. At(k, p).start \in gone
    BY <2>4 DEF s
  <2> HIDE DEF gone
  <2>10. Apart(k, X, C, L, p, gone, X)
    BY <1>1, <1>8, <2>1, <2>2, <2>4, <2>5, <2>6, <2>7, <2>8, <2>9 DEF Apart
  <2> QED
    BY <2>10 DEF gone, s
<1>9. CASE At(k, p).kind = "dir"
  <2>1. s \in X /\ s # RootDir
    BY <1>2, <1>9 DEF LeadsTo
  <2>2. Chain(k, s) = C[s]
    BY <1>1, <2>1, Owners
  <2>3. Len(k.dir[s]) = 2 /\ \A b \in gone \ {s} : k.dir[b] = <<>>
    BY <1>9 DEF Empty
  <2>4. gone = ToSet(C[s])
    BY <2>2
  <2> HIDE DEF s, gone
  <2>5. ASSUME NEW x \in X \ {s} PROVE ToSet(C[x]) \cap gone = {}
    <3>1. C[x] \in Seq(Blocks) /\ C[s] \in Seq(Blocks)
      BY <1>1, <2>1, Owners
    <3> SUFFICES ASSUME NEW b \in ToSet(C[x]), b \in ToSet(C[s]) PROVE FALSE
      BY <2>4
    <3>2. PICK i \in 1..Len(C[x]) : C[x][i] = b
      BY <3>1, Members
    <3>3. PICK j \in 1..Len(C[s]) : C[s][j] = b
      BY <3>1, Members
    <3> QED
      BY <1>1, <2>1, <3>2, <3>3 DEF Own
  <2>6. ASSUME NEW q \in Live(k) PROVE q[1] \notin gone
    <3>1. q[1] \in Blocks /\ q[2] \in 1..Len(k.dir[q[1]]) /\ k.dir[q[1]][q[2]].name \in NameSet
      BY <1>1, Alive, AlivePair
    <3>2. CASE q[1] = s
      <4>1. q[2] = 1 \/ q[2] = 2
        BY <2>3, <3>1, <3>2
      <4>2. k.dir[s][1].name = "." /\ k.dir[s][2].name = ".."
        BY <2>1 DEF Shape, Dots
      <4> QED
        BY <3>1, <3>2, <4>1, <4>2, FatFsAssumption
    <3>3. CASE q[1] # s
      <4>1. k.dir[q[1]] # <<>>
        BY <1>1, <3>1, Lists
      <4> QED
        BY <2>3, <3>3, <4>1
    <3> QED
      BY <3>2, <3>3
  <2>7. ASSUME NEW q \in Live(k) \ {p}
        PROVE  /\ At(k, q).kind = "dir" => At(k, q).start \in X \ {s}
               /\ At(k, q).kind = "link" => At(k, q).start \notin gone
    <3>1. ASSUME At(k, q).kind = "dir" PROVE At(k, q).start \in X \ {s}
      <4>1. At(k, q).start \in X
        BY <1>2, <3>1 DEF LeadsTo
      <4> QED
        BY <1>3, <1>4, <2>1, <4>1 DEF s
    <3>2. ASSUME At(k, q).kind = "link" PROVE At(k, q).start \notin gone
      <4>1. ~Holds(X, C, At(k, q).start)
        BY <1>2, <3>2 DEF LeadsTo, Loose
      <4> QED
        BY <2>1, <2>4, <4>1 DEF Holds
    <3> QED
      BY <3>1, <3>2
  <2>8. {0, 1} \cap gone = {} /\ L \cap gone = {}
    <3>1. \A b \in gone : Holds(X, C, b) /\ b \in k.used \ {0, 1}
      BY <1>4, <2>1, <2>4 DEF Holds
    <3> QED
      BY <3>1 DEF Shape, Lost
  <2>9. Apart(k, X, C, L, p, gone, X \ {s})
    <3>1. \A x \in X \ (X \ {s}) : ToSet(C[x]) \subseteq gone
      BY <2>4
    <3>2. At(k, p).kind = "dir" => At(k, p).start \in X \ (X \ {s})
      BY <2>1 DEF s
    <3>3. RootDir \in X \ {s} /\ X \ {s} \subseteq X
      BY <1>1, <2>1
    <3> QED
      BY <1>9, <2>5, <2>6, <2>7, <2>8, <3>1, <3>2, <3>3 DEF Apart
  <2> QED
    BY <2>9 DEF gone, s
<1> QED
  BY <1>6, <1>7, <1>8, <1>9 DEF Entries, Kinds

(* A chain is read from the table alone.                                    *)
LEMMA SameChain ==
  ASSUME NEW k, NEW h, h.fat = k.fat, NEW start
  PROVE  Chain(h, start) = Chain(k, start)
BY DEF Chain

(* unlink and rmdir, before the entry goes.                                *)
LEMMA Unlinked ==
  ASSUME NEW k, NEW X, NEW C, NEW L, NEW some, Tidy(k, X, C, {}, L, NoPending, some),
         NEW d \in X, NEW name \in NameSet, Found(k, d, name),
         NEW p, p = find_in_dir(k, d, name),
         At(k, p).kind = "dir" => Empty(k, At(k, p).start)
  PROVE  \E Y, D :
           /\ Tidy(free_blocks(k, At(k, p).start), Y, D, {p}, L, <<d, name>>, some)
           /\ Graph(free_blocks(k, At(k, p).start), Y, D, {}) = Graph(k, X, C, {})
<1> DEFINE s == At(k, p).start
           gone == ToSet(Chain(k, s))
           h == free_blocks(k, s)
<1>1. /\ Shape(k, X, C, {}, L) /\ Layout(k) /\ Own(k, X, C) /\ k \in Disks
      /\ Covers(k, X, C, {}, L) /\ Reach(k, X, C, {}) /\ (~some => Unique(k, X, C))
  BY DEF Tidy, Shape, Layout
<1>2. /\ p \in Of(k, C, d) /\ At(k, p).name = name
      /\ find_in_dir(k, d, name) = First(C[d], Hits(k, d, name))
  BY <1>1, NamedIs
<1>3. p \in Live(k) /\ p[1] \in ToSet(C[d])
  BY <1>2 DEF Of
<1>4. PICK Y : Apart(k, X, C, L, p, gone, Y)
  BY <1>1, <1>3, Parts
<1> DEFINE D == Restrict(C, Y)
<1>5. Frees(k, h, gone)
  BY <1>1, <1>4, Freed DEF Apart
<1>6. LeadsTo(k, X, C, L, At(k, p))
  BY <1>1, <1>3 DEF Shape, Leads
<1> HIDE DEF gone, h, s
<1>7. Shape(h, Y, D, {p}, L)
  BY <1>1, <1>4, <1>5, Free
<1>8. /\ Layout(h) /\ Own(h, Y, D) /\ h.used = k.used \ gone /\ h.fat = k.fat
      /\ \A b \in Blocks : h.dir[b] = IF b \in gone THEN <<>> ELSE k.dir[b]
      /\ RootDir \in Y /\ Y \subseteq X
      /\ \A q \in Live(k) : q[1] \notin gone
      /\ \A x \in X \ Y : ToSet(C[x]) \subseteq gone
      /\ \A x \in Y : D[x] = C[x]
  BY <1>4, <1>5, <1>7 DEF Frees, Shape, Apart, Restrict
<1>9. \A q \in Live(k) : q \in Live(h) /\ At(h, q) = At(k, q)
  <2> TAKE q \in Live(k)
  <2>1. q = <<q[1], q[2]>>
    BY AlivePair
  <2>2. /\ q[1] \in Blocks /\ q[2] \in 1..Len(k.dir[q[1]])
        /\ k.dir[q[1]][q[2]].name \in NameSet
    BY <1>1, <2>1, Alive
  <2>3. h.dir[q[1]] = k.dir[q[1]]
    BY <1>8, <2>2
  <2>4. <<q[1], q[2]>> \in Live(h)
    BY <1>8, <2>2, <2>3, Alive
  <2> QED
    BY <2>1, <2>3, <2>4 DEF At
<1>10. \A q \in Live(h) : q \in Live(k)
  <2> TAKE q \in Live(h)
  <2>1. q = <<q[1], q[2]>>
    BY AlivePair
  <2>2. /\ q[1] \in Blocks /\ q[2] \in 1..Len(h.dir[q[1]])
        /\ h.dir[q[1]][q[2]].name \in NameSet
    BY <1>8, <2>1, Alive
  <2>3. h.dir[q[1]] # <<>>
    BY <1>8, <2>2, Lists
  <2>4. h.dir[q[1]] = k.dir[q[1]]
    BY <1>8, <2>2, <2>3
  <2>5. <<q[1], q[2]>> \in Live(k)
    BY <1>1, <2>2, <2>4, Alive
  <2> QED
    BY <2>1, <2>5
<1>11. \A x \in Y : Of(h, D, x) = Of(k, C, x)
  BY <1>8, <1>9, <1>10 DEF Of
<1>12. Covers(h, Y, D, {p}, L)
  <2> SUFFICES ASSUME NEW b \in h.used \ {0, 1}
               PROVE  b \in L \/ Holds(Y, D, b) \/ Linking(h, {p}, b)
    BY DEF Covers
  <2>1. b \in k.used \ {0, 1} /\ b \notin gone
    BY <1>8
  <2>2. b \in L \/ Holds(X, C, b) \/ Linking(k, {}, b)
    BY <1>1, <2>1 DEF Covers
  <2>3. ASSUME Holds(X, C, b) PROVE Holds(Y, D, b)
    BY <1>8, <2>1, <2>3 DEF Holds
  <2>4. ASSUME Linking(k, {}, b) PROVE Linking(h, {p}, b)
    <3>1. PICK q \in Live(k) : At(k, q).kind = "link" /\ At(k, q).start = b
      BY <2>4 DEF Linking
    <3>2. q # p
      BY <1>4, <2>1, <3>1 DEF Apart
    <3> QED
      BY <1>9, <3>1, <3>2 DEF Linking
  <2> QED
    BY <2>2, <2>3, <2>4
<1>13. Reach(h, Y, D, {p})
  <2> SUFFICES ASSUME NEW S, RootDir \in S, Closed(h, Y, D, {p}, S) PROVE Y \subseteq S
    BY DEF Reach
  <2>1. ASSUME NEW x \in (S \cup (X \ Y)) \cap X, NEW q \in Of(k, C, x) \ {},
               At(k, q).kind = "dir"
        PROVE  At(k, q).start \in S \cup (X \ Y)
    <3>1. q \in Live(k) /\ q[1] \in ToSet(C[x]) /\ q[1] \notin gone
      BY <1>8 DEF Of
    <3>2. x \in Y /\ x \in S
      BY <1>8, <3>1
    <3>3. CASE q = p
      BY <1>4, <2>1, <3>3 DEF Apart
    <3>4. CASE q # p
      <4>1. q \in Of(h, D, x) \ {p}
        BY <1>11, <3>2, <3>4
      <4>2. At(h, q).kind = "dir" /\ At(h, q).start = At(k, q).start
        BY <1>9, <2>1, <3>1
      <4> QED
        BY <3>2, <4>1, <4>2 DEF Closed
    <3> QED
      BY <3>3, <3>4
  <2>2. Closed(k, X, C, {}, S \cup (X \ Y))
    BY <2>1 DEF Closed
  <2>3. X \subseteq S \cup (X \ Y)
    BY <1>1, <2>2 DEF Reach
  <2> QED
    BY <1>8, <2>3
<1>14. ~some => Unique(h, Y, D)
  <2> SUFFICES ASSUME ~some, NEW x \in Y, NEW q \in Of(h, D, x), NEW r \in Of(h, D, x),
                      At(h, q).name = At(h, r).name
               PROVE  q = r
    BY DEF Unique
  <2>1. q \in Of(k, C, x) /\ r \in Of(k, C, x)
    BY <1>11
  <2>2. At(k, q).name = At(k, r).name
    BY <1>9, <2>1 DEF Of
  <2> QED
    BY <1>1, <1>8, <2>1, <2>2 DEF Unique
<1>15. Waits(h, Y, D, {p}, <<d, name>>)
  <2>1. d \in Y
    BY <1>3, <1>8
  <2>2. p \in Of(h, D, d) /\ At(h, p) = At(k, p)
    BY <1>2, <1>3, <1>9, <1>11, <2>1
  <2>3. find_in_dir(h, d, name) = p
    <3>1. Hits(h, d, name) = {q \in Of(h, D, d) : At(h, q).name = name}
      BY <1>8, <2>1, NamedIs
    <3>2. Hits(k, d, name) = {q \in Of(k, C, d) : At(k, q).name = name}
      BY <1>1, NamedIs
    <3>3. \A q \in Of(k, C, d) : At(h, q) = At(k, q)
      BY <1>9 DEF Of
    <3>4. Hits(h, d, name) = Hits(k, d, name)
      BY <1>11, <2>1, <3>1, <3>2, <3>3
    <3>5. find_in_dir(h, d, name) = First(D[d], Hits(h, d, name))
      BY <1>8, <2>1, NamedIs
    <3> QED
      BY <1>2, <1>8, <2>1, <3>4, <3>5
  <2>4. Emptied(h, p)
    <3>1. Chain(h, At(h, p).start) = Chain(k, s)
      BY <1>8, <2>2, SameChain DEF s
    <3>2. gone \subseteq Blocks
      <4>1. At(k, p) \in Entries
        <5>1. p[1] \in Blocks /\ p[2] \in 1..Len(k.dir[p[1]])
          BY <1>1, <1>3, Alive, AlivePair
        <5> QED
          BY <1>1, <5>1, Lists DEF At
      <4>2. s \in Blocks
        BY <4>1 DEF Entries, s
      <4>3. Chain(k, s) \in Seq(Blocks)
        BY <1>1, <4>2, ChainsAre
      <4> QED
        BY <4>3, Members DEF gone
    <3>3. \A b \in gone : b \notin h.used /\ h.dir[b] = <<>>
      BY <1>8, <3>2
    <3>4. At(h, p).kind = "file" => At(h, p).start = FAT_NULL
      BY <1>6, <2>2 DEF LeadsTo
    <3> QED
      BY <3>1, <3>3, <3>4 DEF Emptied, gone
  <2>5. <<d, name>> # NoPending
    BY DEF NoPending
  <2> QED
    BY <1>2, <2>1, <2>2, <2>3, <2>4, <2>5 DEF Waits
<1>16. Tidy(h, Y, D, {p}, L, <<d, name>>, some)
  BY <1>7, <1>12, <1>13, <1>14, <1>15 DEF Tidy
<1>17. Graph(h, Y, D, {}) = Graph(k, X, C, {})
  <2>1. \A x \in X \ Y : Of(k, C, x) = {}
    BY <1>8 DEF Of
  <2>2. \A x \in Y : \A q \in Of(k, C, x) : At(h, q) = At(k, q)
    BY <1>9 DEF Of
  <2> QED
    BY <1>8, <1>11, <2>1, <2>2 DEF Graph
<1> QED
  BY <1>16, <1>17 DEF h, s

(* delete_de: what is left is what is tidy without the entry.              *)
LEMMA Removed ==
  ASSUME NEW k, NEW X, NEW C, NEW E, NEW L, NEW some, NEW d, NEW name,
         Tidy(k, X, C, E, L, <<d, name>>, some)
  PROVE  /\ Tidy(delete_de(k, d, name), X, C, {}, L, NoPending, some)
         /\ Graph(delete_de(k, d, name), X, C, {}) = Graph(k, X, C, E)
<1>1. /\ Shape(k, X, C, E, L) /\ Layout(k) /\ Own(k, X, C)
      /\ Covers(k, X, C, E, L) /\ Reach(k, X, C, E) /\ (~some => Unique(k, X, C))
  BY DEF Tidy, Shape
<1>2. <<d, name>> # NoPending
  BY DEF NoPending
<1>3. PICK p \in Of(k, C, d) : /\ d \in X /\ name \in NameSet /\ At(k, p).name = name
                               /\ find_in_dir(k, d, name) = p /\ E = {p}
  BY <1>2 DEF Tidy, Waits
<1>4. PICK b, i : p = <<b, i>> /\ p[1] = b /\ p[2] = i
  BY <1>3, AlivePair DEF Of
<1> DEFINE n == Len(k.dir[b])
           h == [k EXCEPT !.dir[b] = Deleted(@, i)]
<1>5. <<b, i>> \in Live(k) /\ b \in Blocks /\ i \in 1..n /\ k.dir[b][i].name \in NameSet
  <2>1. <<b, i>> \in Live(k)
    BY <1>3, <1>4 DEF Of
  <2> QED
    BY <1>1, <2>1, Alive
<1>6. delete_de(k, d, name) = h
  BY <1>3, <1>4 DEF delete_de
<1>7. Removes(k, h, b, i)
  BY <1>1, <1>5, Gone
<1> HIDE DEF h
<1>8. E = {<<b, i>>}
  BY <1>3, <1>4
<1>9. Shape(h, X, C, {}, L)
  BY <1>1, <1>5, <1>7, <1>8, Delete
<1>10. k.dir[b][n].name \in NameSet
  <2>1. n \in 1..n /\ n \in Nat
    BY <1>1, <1>5, Lists
  <2>2. CASE b \in X /\ n \in {1, 2}
    <3>1. n >= 2 /\ k.dir[b][1].name = "." /\ k.dir[b][2].name = ".."
      BY <1>1, <2>2 DEF Shape, Dots
    <3>2. i = 1 \/ i = 2
      BY <1>5, <2>2
    <3> QED
      BY <1>5, <3>1, <3>2, FatFsAssumption
  <2>3. k.dir[b][n].name \in NameSet \/ (b \in X /\ n \in {1, 2})
    BY <1>1, <1>5, <2>1 DEF Shape, Dots
  <2> QED
    BY <2>2, <2>3
<1> DEFINE was(x) == Was(k, b, i, x)
<1>11. /\ \A x \in Live(h) : /\ was(x) \in Live(k) \ {p} /\ At(h, x) = At(k, was(x))
                             /\ was(x)[1] = x[1]
       /\ \A x, y \in Live(h) : was(x) = was(y) => x = y
       /\ \A y \in Live(k) \ {p} : \E x \in Live(h) : was(x) = y
  BY <1>1, <1>4, <1>5, <1>7, <1>10, Moved
<1>12. h.used = k.used
  BY <1>7 DEF Removes
<1> HIDE DEF was
<1>13. ~some => Unique(h, X, C)
  <2> SUFFICES ASSUME ~some, NEW e \in X, NEW x \in Of(h, C, e), NEW y \in Of(h, C, e),
                      At(h, x).name = At(h, y).name
               PROVE  x = y
    BY DEF Unique
  <2>1. x \in Live(h) /\ y \in Live(h)
    BY DEF Of
  <2>2. was(x) \in Of(k, C, e) /\ was(y) \in Of(k, C, e)
    BY <1>11 DEF Of
  <2>3. At(k, was(x)).name = At(k, was(y)).name
    BY <1>11, <2>1
  <2>4. was(x) = was(y)
    BY <1>1, <2>2, <2>3 DEF Unique
  <2> QED
    BY <1>11, <2>1, <2>4
<1>14. Covers(h, X, C, {}, L)
  <2> SUFFICES ASSUME NEW a \in h.used \ {0, 1}
               PROVE  a \in L \/ Holds(X, C, a) \/ Linking(h, {}, a)
    BY DEF Covers
  <2>1. a \in L \/ Holds(X, C, a) \/ Linking(k, E, a)
    BY <1>1, <1>12 DEF Covers
  <2>2. ASSUME Linking(k, E, a) PROVE Linking(h, {}, a)
    <3>1. PICK q \in Live(k) \ {p} : At(k, q).kind = "link" /\ At(k, q).start = a
      BY <1>3, <2>2 DEF Linking
    <3>2. PICK x \in Live(h) : was(x) = q
      BY <1>11
    <3> QED
      BY <1>11, <3>1, <3>2 DEF Linking
  <2> QED
    BY <2>1, <2>2
<1>15. Reach(h, X, C, {})
  <2> SUFFICES ASSUME NEW S, RootDir \in S, Closed(h, X, C, {}, S) PROVE X \subseteq S
    BY DEF Reach
  <2>1. ASSUME NEW x \in S \cap X, NEW q \in Of(k, C, x) \ E, At(k, q).kind = "dir"
        PROVE  At(k, q).start \in S
    <3>1. q \in Live(k) \ {p} /\ q[1] \in ToSet(C[x])
      BY <1>3 DEF Of
    <3>2. PICK y \in Live(h) : was(y) = q
      BY <1>11, <3>1
    <3>3. y \in Of(h, C, x) \ {} /\ At(h, y) = At(k, q)
      BY <1>11, <3>1, <3>2 DEF Of
    <3> QED
      BY <2>1, <3>3 DEF Closed
  <2>2. Closed(k, X, C, E, S)
    BY <2>1 DEF Closed
  <2> QED
    BY <1>1, <2>2 DEF Reach
<1>16. Tidy(h, X, C, {}, L, NoPending, some)
  BY <1>9, <1>13, <1>14, <1>15 DEF Tidy, Waits
<1>17. Graph(h, X, C, {}) = Graph(k, X, C, E)
  <2>1. ASSUME NEW e \in X, NEW x \in Of(h, C, e)
        PROVE  \E y \in Of(k, C, e) \ E : At(h, x) = At(k, y)
    <3>1. x \in Live(h)
      BY DEF Of
    <3>2. was(x) \in Of(k, C, e) \ E /\ At(h, x) = At(k, was(x))
      BY <1>3, <1>11, <3>1 DEF Of
    <3> QED
      BY <3>2
  <2>2. ASSUME NEW e \in X, NEW y \in Of(k, C, e) \ E
        PROVE  \E x \in Of(h, C, e) : At(h, x) = At(k, y)
    <3>1. y \in Live(k) \ {p}
      BY <1>3 DEF Of
    <3>2. PICK x \in Live(h) : was(x) = y
      BY <1>11, <3>1
    <3>3. x \in Of(h, C, e) /\ At(h, x) = At(k, y)
      BY <1>11, <3>2 DEF Of
    <3> QED
      BY <3>3
  <2>3. \A e \in X : {Row(e, At(h, x)) : x \in Of(h, C, e) \ {}}
                    = {Row(e, At(k, y)) : y \in Of(k, C, e) \ E}
    BY <2>1, <2>2
  <2> QED
    BY <2>3 DEF Graph
<1> QED
  BY <1>6, <1>16, <1>17

(* Who is named what does not depend on permissions and sizes.             *)
LEMMA SameNames ==
  ASSUME NEW k, NEW h, NEW X, NEW C, NEW E, NEW L, NEW M,
         k \in Disks, h \in Disks, Alike(k, h), h.used \subseteq k.used \cup M
  PROVE  /\ \A d : Of(h, C, d) = Of(k, C, d)
         /\ Unique(k, X, C) => Unique(h, X, C)
         /\ Reach(k, X, C, E) => Reach(h, X, C, E)
         /\ Covers(k, X, C, E, L) => Covers(h, X, C, E, L \cup M)
<1>1. /\ Live(h) = Live(k)
      /\ \A p \in Live(k) : /\ At(h, p).name = At(k, p).name
                            /\ At(h, p).kind = At(k, p).kind
                            /\ At(h, p).start = At(k, p).start
  BY SameLive
<1>2. \A d : Of(h, C, d) = Of(k, C, d)
  BY <1>1 DEF Of
<1>3. \A d : \A p \in Of(k, C, d) : p \in Live(k)
  BY DEF Of
<1>4. ASSUME Unique(k, X, C) PROVE Unique(h, X, C)
  BY <1>1, <1>2, <1>3, <1>4 DEF Unique
<1>5. ASSUME Reach(k, X, C, E) PROVE Reach(h, X, C, E)
  <2>1. \A S : Closed(h, X, C, E, S) => Closed(k, X, C, E, S)
    BY <1>1, <1>2, <1>3 DEF Closed
  <2> QED
    BY <1>5, <2>1 DEF Reach
<1>6. ASSUME Covers(k, X, C, E, L) PROVE Covers(h, X, C, E, L \cup M)
  <2>1. \A b : Linking(k, E, b) => Linking(h, E, b)
    BY <1>1 DEF Linking
  <2> QED
    BY <1>6, <2>1 DEF Covers
<1> QED
  BY <1>2, <1>4, <1>5, <1>6

(* chmod keeps the disk tidy and replaces one row.                          *)
LEMMA Chmoded ==
  ASSUME NEW k, NEW X, NEW C, NEW L, NEW some, Tidy(k, X, C, {}, L, NoPending, some),
         NEW d \in X, NEW name \in NameSet, Found(k, d, name),
         NEW p, p = find_in_dir(k, d, name), NEW perm \in Perms
  PROVE  LET h == [k EXCEPT !.dir[p[1]][p[2]].perm = perm]
         IN /\ Tidy(h, X, C, {}, L, NoPending, some)
            /\ p \in Of(h, C, d) /\ p \in Of(k, C, d)
            /\ At(h, p).name = name /\ At(k, p).name = name
            /\ What(At(h, p)) = [What(At(k, p)) EXCEPT !.perm = perm]
            /\ Graph(h, X, C, {p}) = Graph(k, X, C, {p})
<1> DEFINE h == [k EXCEPT !.dir[p[1]][p[2]].perm = perm]
<1>1. /\ Shape(k, X, C, {}, L) /\ Layout(k) /\ Own(k, X, C) /\ k \in Disks
      /\ Covers(k, X, C, {}, L) /\ Reach(k, X, C, {}) /\ (~some => Unique(k, X, C))
  BY DEF Tidy, Shape, Layout
<1>2. p \in Of(k, C, d) /\ p \in Live(k) /\ At(k, p).name = name
  BY <1>1, NamedIs DEF Of
<1>3. p = <<p[1], p[2]>> /\ p[1] \in Blocks /\ p[2] \in 1..Len(k.dir[p[1]])
  BY <1>1, <1>2, Alive, AlivePair
<1>4. PermAt(k, h, p[1], p[2], perm)
  BY <1>1, <1>3, PermSet
<1> HIDE DEF h
<1>5. h \in Disks /\ Alike(k, h) /\ h.used = k.used /\ h.fat = k.fat
  BY <1>4 DEF PermAt, Layout
<1>6. Own(h, X, C)
  BY <1>1, <1>5 DEF Own, Linked
<1>7. Shape(h, X, C, {}, L)
  <2>1. \A x \in X : h.dir[x][1].size = Len(C[x])
    <3> TAKE x \in X
    <3>1. x \in Blocks /\ Len(k.dir[x]) >= 2 /\ k.dir[x][1].size = Len(C[x])
      BY <1>1 DEF Shape, Dots, Own
    <3>2. 1 \in 1..Len(k.dir[x])
      BY <1>1, <3>1, Lists
    <3> QED
      BY <1>4, <3>1, <3>2 DEF PermAt
  <2> QED
    BY <1>1, <1>5, <1>6, <2>1, SameEntries
<1>8. /\ Covers(h, X, C, {}, L) /\ Reach(h, X, C, {}) /\ (~some => Unique(h, X, C))
      /\ \A x : Of(h, C, x) = Of(k, C, x)
  <2>1. h.used \subseteq k.used \cup {} /\ L \cup {} = L
    BY <1>5
  <2>2. k \in Disks /\ h \in Disks /\ Alike(k, h)
    BY <1>1, <1>5
  <2>3. /\ \A x : Of(h, C, x) = Of(k, C, x)
        /\ Unique(k, X, C) => Unique(h, X, C)
        /\ Reach(k, X, C, {}) => Reach(h, X, C, {})
        /\ Covers(k, X, C, {}, L) => Covers(h, X, C, {}, L \cup {})
    BY <2>1, <2>2, SameNames
  <2> QED
    BY <1>1, <2>1, <2>3
<1>9. Tidy(h, X, C, {}, L, NoPending, some)
  BY <1>7, <1>8 DEF Tidy, Waits
<1>10. /\ At(h, p).name = name
       /\ What(At(h, p)) = [What(At(k, p)) EXCEPT !.perm = perm]
  <2>1. /\ At(h, p).name = At(k, p).name /\ At(h, p).kind = At(k, p).kind
        /\ At(h, p).start = At(k, p).start /\ At(h, p).perm = perm
    BY <1>3, <1>4, <1>5 DEF PermAt, Alike, At
  <2> QED
    BY <1>2, <2>1 DEF What
<1>11. \A q \in Live(k) \ {p} : Same(At(h, q), At(k, q))
  <2> TAKE q \in Live(k) \ {p}
  <2>1. q = <<q[1], q[2]>> /\ q[1] \in Blocks /\ q[2] \in 1..Len(k.dir[q[1]])
    BY <1>1, Alive, AlivePair
  <2>2. ~(q[1] = p[1] /\ q[2] = p[2])
    BY <1>3, <2>1
  <2> QED
    BY <1>4, <1>5, <2>1, <2>2 DEF PermAt, Alike, At, Same
<1>12. Graph(h, X, C, {p}) = Graph(k, X, C, {p})
  <2>1. \A x : \A q \in Of(k, C, x) \ {p} : Same(At(h, q), At(k, q))
    BY <1>11 DEF Of
  <2>2. \A x : \A q \in Of(k, C, x) \ {p} : Row(x, At(h, q)) = Row(x, At(k, q))
    BY <2>1 DEF Same, Row, What
  <2> QED
    BY <1>8, <2>2 DEF Graph
<1> QED
  BY <1>2, <1>8, <1>9, <1>10, <1>12 DEF h

(* What holds without some entries holds with them.                         *)
LEMMA Fewer ==
  ASSUME NEW k, NEW X, NEW C, NEW E, NEW F, NEW L, F \subseteq E
  PROVE  /\ Covers(k, X, C, E, L) => Covers(k, X, C, F, L)
         /\ Reach(k, X, C, E) => Reach(k, X, C, F)
<1>1. \A b : Linking(k, E, b) => Linking(k, F, b)
  BY DEF Linking
<1>2. \A S : Closed(k, X, C, F, S) => Closed(k, X, C, E, S)
  BY DEF Closed
<1> QED
  BY <1>1, <1>2 DEF Covers, Reach

(* What a new entry leaves as it is.                                       *)
Leaves(k, h, X, C, D, d, q, e, M) ==
  /\ \A b : Loose(k, X, C, b) => Loose(h, X, D, b)
  /\ Covers(k, X, C, {}, M) => Covers(h, X, D, {q}, M)
  /\ Reach(k, X, C, {}) => Reach(h, X, D, {q})
  /\ Unique(k, X, C) /\ ~Found(k, d, e.name) => Unique(h, X, D)
  /\ Graph(h, X, D, {}) = Graph(k, X, C, {}) \cup {Row(d, e)}
LEMMA Enlarged ==
  ASSUME NEW k, NEW h, NEW X, NEW C, NEW D, NEW d \in X, NEW q, NEW e, NEW L, NEW M,
         Shape(k, X, C, {}, L), Makes(k, h, X, C, D, d, q, e, L), e.name \in NameSet
  PROVE  Leaves(k, h, X, C, D, d, q, e, M)
<1>1. /\ Layout(k) /\ Own(k, X, C) /\ Layout(h) /\ Own(h, X, D) /\ Widens(k, h, X, C, D)
      /\ q \notin Live(k) /\ Live(h) = Live(k) \cup {q} /\ At(h, q) = e
      /\ \A p \in Live(k) : Same(At(h, p), At(k, p))
  BY DEF Makes, Shape
<1>2. \A x \in X : Of(h, D, x) = Of(k, C, x) \cup (IF x = d THEN {q} ELSE {})
  <2>1. ASSUME NEW x \in X PROVE Offers(k, h, C, D, d, q, e, x)
    BY Finds
  <2> QED
    BY <2>1 DEF Offers
<1>3. \A x : \A p \in Of(k, C, x) : p \in Live(k)
  BY DEF Of
<1>4. ASSUME NEW b, Loose(k, X, C, b) PROVE Loose(h, X, D, b)
  BY <1>1, <1>4 DEF Loose, Widens, Holds
<1>5. ASSUME Covers(k, X, C, {}, M) PROVE Covers(h, X, D, {q}, M)
  <2> SUFFICES ASSUME NEW b \in h.used \ {0, 1}
               PROVE  b \in M \/ Holds(X, D, b) \/ Linking(h, {q}, b)
    BY DEF Covers
  <2>1. Linking(k, {}, b) => Linking(h, {q}, b)
    BY <1>1 DEF Linking, Same
  <2>2. Holds(X, C, b) => Holds(X, D, b)
    BY <1>1 DEF Holds, Widens
  <2>3. b \in k.used \/ Holds(X, D, b)
    BY <1>1 DEF Widens
  <2> QED
    BY <1>5, <2>1, <2>2, <2>3 DEF Covers
<1>6. ASSUME Reach(k, X, C, {}) PROVE Reach(h, X, D, {q})
  <2> SUFFICES ASSUME NEW S, RootDir \in S, Closed(h, X, D, {q}, S) PROVE X \subseteq S
    BY DEF Reach
  <2>1. ASSUME NEW x \in S \cap X, NEW p \in Of(k, C, x) \ {}, At(k, p).kind = "dir"
        PROVE  At(k, p).start \in S
    <3>1. p \in Of(h, D, x) \ {q} /\ Same(At(h, p), At(k, p))
      BY <1>1, <1>2, <1>3
    <3> QED
      BY <2>1, <3>1 DEF Closed, Same
  <2>2. Closed(k, X, C, {}, S)
    BY <2>1 DEF Closed
  <2> QED
    BY <1>6, <2>2 DEF Reach
<1>7. ASSUME Unique(k, X, C), ~Found(k, d, e.name) PROVE Unique(h, X, D)
  <2> SUFFICES ASSUME NEW x \in X, NEW p \in Of(h, D, x), NEW r \in Of(h, D, x),
                      At(h, p).name = At(h, r).name
               PROVE  p = r
    BY DEF Unique
  <2>1. \A s \in Of(k, C, d) : At(k, s).name # e.name
    <3>1. Hits(k, d, e.name) = {s \in Of(k, C, d) : At(k, s).name = e.name}
      BY <1>1, NamedIs
    <3> QED
      BY <1>7, <3>1 DEF Found
  <2>2. \A s \in Of(k, C, x) : At(h, s).name = At(k, s).name
    BY <1>1, <1>3 DEF Same
  <2>3. CASE p \in Of(k, C, x) /\ r \in Of(k, C, x)
    BY <1>7, <2>2, <2>3 DEF Unique
  <2>4. ASSUME NEW s \in Of(k, C, x), x = d PROVE At(h, s).name # At(h, q).name
    BY <1>1, <2>1, <2>2, <2>4
  <2> QED
    BY <1>2, <2>3, <2>4
<1>8. Graph(h, X, D, {}) = Graph(k, X, C, {}) \cup {Row(d, e)}
  <2>1. \A x : \A p \in Of(k, C, x) : Row(x, At(h, p)) = Row(x, At(k, p))
    BY <1>1, <1>3 DEF Same, Row, What
  <2>2. \A x \in X : {Row(x, At(h, p)) : p \in Of(h, D, x)} =
                     {Row(x, At(k, p)) : p \in Of(k, C, x)} \cup
                     (IF x = d THEN {Row(d, e)} ELSE {})
    BY <1>1, <1>2, <2>1
  <2> QED
    BY <2>2 DEF Graph
<1> QED
  BY <1>4, <1>5, <1>6, <1>7, <1>8 DEF Leaves

(* mknod.                                                                  *)
LEMMA FileMade ==
  ASSUME NEW k, NEW X, NEW C, NEW L, NEW some, Tidy(k, X, C, {}, L, NoPending, some),
         NEW d \in X, NEW e \in Entries, e.name \in NameSet, ~Found(k, d, e.name),
         e.kind = "file", e.start = FAT_NULL,
         Space(k, d) = {} => NewBlock(k) \in Blocks \ k.used
  PROVE  \E D : /\ Tidy(make_file(k, d, e), X, D, {}, L, NoPending, some)
                /\ Graph(make_file(k, d, e), X, D, {}) = Graph(k, X, C, {}) \cup {Row(d, e)}
<1>1. /\ Shape(k, X, C, {}, L) /\ Covers(k, X, C, {}, L) /\ Reach(k, X, C, {})
      /\ (~some => Unique(k, X, C))
  BY DEF Tidy
<1>2. PICK D, q : Makes(k, make_file(k, d, e), X, C, D, d, q, e, L)
  BY <1>1, MakeFile
<1> DEFINE h == make_file(k, d, e)
<1> HIDE DEF h
<1>3. Makes(k, h, X, C, D, d, q, e, L)
  BY <1>2 DEF h
<1>4. /\ Covers(h, X, D, {q}, L) /\ Reach(h, X, D, {q}) /\ (~some => Unique(h, X, D))
      /\ Graph(h, X, D, {}) = Graph(k, X, C, {}) \cup {Row(d, e)}
  <2>1. Shape(k, X, C, {}, L)
    BY <1>1
  <2>2. Leaves(k, h, X, C, D, d, q, e, L)
    BY <1>3, <2>1, Enlarged
  <2> QED
    BY <1>1, <2>2 DEF Leaves
<1>5. Covers(h, X, D, {}, L) /\ Reach(h, X, D, {})
  BY <1>4, Fewer
<1>6. Shape(h, X, D, {}, L)
  <2>1. Shape(h, X, D, {} \cup {q}, L) /\ At(h, q) = e /\ Live(h) = Live(k) \cup {q}
    BY <1>3 DEF Makes
  <2>2. LeadsTo(h, X, D, L, At(h, q))
    BY <2>1 DEF LeadsTo
  <2> QED
    BY <2>1, <2>2, Admitted
<1> QED
  BY <1>3, <1>4, <1>5, <1>6 DEF Tidy, Waits, h

(* A block has been allocated for a link or a directory: it is in nothing, *)
(* and leaked if there is no more to come.                                 *)
Spares(k, h, b, X, C, L, some, d) ==
  /\ Tidy(h, X, C, {}, L \cup {b}, NoPending, some)
  /\ Shape(h, X, C, {}, L) /\ b \notin L /\ Loose(h, X, C, b)
  /\ \A p \in Live(h) : At(h, p).start # b
  /\ Space(h, d) = Space(k, d)
  /\ \A name \in NameSet : Found(h, d, name) <=> Found(k, d, name)
  /\ Graph(h, X, C, {}) = Graph(k, X, C, {})
  /\ h.used = k.used \cup {b}
  /\ Live(h) = Live(k) /\ \A p \in Live(k) : At(h, p) = At(k, p)
LEMMA Prepared ==
  ASSUME NEW k, NEW X, NEW C, NEW L, NEW some, Tidy(k, X, C, {}, L, NoPending, some),
         NewBlock(k) \in Blocks \ k.used, NEW d \in X
  PROVE  Spares(k, alloc_block(k), NewBlock(k), X, C, L, some, d)
<1> DEFINE b == NewBlock(k)
           h == alloc_block(k)
<1>1. /\ Shape(k, X, C, {}, L) /\ Layout(k) /\ Own(k, X, C) /\ k \in Disks
      /\ Covers(k, X, C, {}, L) /\ Reach(k, X, C, {}) /\ (~some => Unique(k, X, C))
      /\ {0, 1} \subseteq k.used /\ b \notin k.used
  BY DEF Tidy, Shape, Layout
<1>2. /\ Shape(h, X, C, {}, L) /\ Loose(h, X, C, b) /\ b \notin L
      /\ k.dir[b] = <<>> /\ ~Holds(X, C, b)
      /\ \A p \in Live(k) \ {} : At(k, p).kind # "file" => At(k, p).start # b
  BY <1>1, Alone
<1>3. Layout(h) /\ h.used = k.used \cup {b} /\ h.dir = k.dir /\ View(k, h)
  BY <1>1, <1>2, Allocated
<1> HIDE DEF b, h
<1>4. h \in Disks /\ Alike(k, h) /\ Own(h, X, C)
  BY <1>2, <1>3 DEF Layout, View, Shape
<1>5. Live(h) = Live(k) /\ \A p \in Live(k) : At(h, p) = At(k, p)
  BY <1>3 DEF Live, At
<1>6. \A p \in Live(h) : At(h, p).start # b
  <2>1. \A p \in Live(k) : At(k, p).kind = "file" => At(k, p).start = FAT_NULL
    BY <1>1 DEF Shape, Leads, LeadsTo
  <2>2. b # FAT_NULL
    BY <1>1 DEF FAT_NULL
  <2> QED
    BY <1>2, <1>5, <2>1, <2>2
<1>7. Shape(h, X, C, {}, L \cup {b})
  <2>1. \A p \in Live(h) \ {} : LeadsTo(h, X, C, L \cup {b}, At(h, p))
    BY <1>2, <1>6 DEF Shape, Leads, LeadsTo
  <2>2. Lost(h, X, C, L \cup {b})
    BY <1>2 DEF Shape, Lost, Loose
  <2> QED
    BY <1>2, <2>1, <2>2 DEF Shape, Leads
<1>8. /\ Covers(h, X, C, {}, L \cup {b}) /\ Reach(h, X, C, {})
      /\ (~some => Unique(h, X, C)) /\ \A x : Of(h, C, x) = Of(k, C, x)
  <2>1. h.used \subseteq k.used \cup {b}
    BY <1>3
  <2>2. k \in Disks /\ h \in Disks /\ Alike(k, h)
    BY <1>1, <1>4
  <2>3. /\ \A x : Of(h, C, x) = Of(k, C, x)
        /\ Unique(k, X, C) => Unique(h, X, C)
        /\ Reach(k, X, C, {}) => Reach(h, X, C, {})
        /\ Covers(k, X, C, {}, L) => Covers(h, X, C, {}, L \cup {b})
    BY <2>1, <2>2, SameNames
  <2> QED
    BY <1>1, <2>3
<1>9. Tidy(h, X, C, {}, L \cup {b}, NoPending, some)
  BY <1>7, <1>8 DEF Tidy, Waits
<1>10. Space(h, d) = Space(k, d)
  <2>1. Chain(k, d) = C[d] /\ Chain(h, d) = C[d]
    BY <1>1, <1>4, Owners
  <2> QED
    BY <1>3, <2>1 DEF Space
<1>11. \A name \in NameSet : Found(h, d, name) <=> Found(k, d, name)
  <2> TAKE name \in NameSet
  <2>1. /\ Hits(h, d, name) = {p \in Of(h, C, d) : At(h, p).name = name}
        /\ Hits(k, d, name) = {p \in Of(k, C, d) : At(k, p).name = name}
    BY <1>1, <1>3, <1>4, NamedIs
  <2>2. \A p \in Of(k, C, d) : At(h, p) = At(k, p)
    BY <1>5 DEF Of
  <2> QED
    BY <1>8, <2>1, <2>2 DEF Found
<1>12. Graph(h, X, C, {}) = Graph(k, X, C, {})
  <2>1. \A x : \A p \in Of(k, C, x) : At(h, p) = At(k, p)
    BY <1>5 DEF Of
  <2> QED
    BY <1>8, <2>1 DEF Graph
<1>13. Spares(k, h, b, X, C, L, some, d)
  BY <1>2, <1>3, <1>5, <1>6, <1>9, <1>10, <1>11, <1>12 DEF Spares
<1> QED
  BY <1>13 DEF b, h

(* symlink: the block allocated is the link's.                             *)
LEMMA LinkMade ==
  ASSUME NEW k, NEW X, NEW C, NEW L, NEW some, NEW b,
         Tidy(k, X, C, {}, L \cup {b}, NoPending, some), Shape(k, X, C, {}, L),
         b \notin L, Loose(k, X, C, b), \A p \in Live(k) : At(k, p).start # b,
         NEW d \in X, NEW e \in Entries, e.name \in NameSet, ~Found(k, d, e.name),
         e.kind = "link", e.start = b,
         Space(k, d) = {} => NewBlock(k) \in Blocks \ k.used
  PROVE  \E D : /\ Tidy(make_file(k, d, e), X, D, {}, L, NoPending, some)
                /\ Graph(make_file(k, d, e), X, D, {}) = Graph(k, X, C, {}) \cup {Row(d, e)}
<1>1. /\ Covers(k, X, C, {}, L \cup {b}) /\ Reach(k, X, C, {})
      /\ (~some => Unique(k, X, C))
  BY DEF Tidy
<1>2. PICK D, q : Makes(k, make_file(k, d, e), X, C, D, d, q, e, L)
  BY MakeFile
<1> DEFINE h == make_file(k, d, e)
<1> HIDE DEF h
<1>3. Makes(k, h, X, C, D, d, q, e, L)
  BY <1>2 DEF h
<1>4. /\ Covers(h, X, D, {q}, L \cup {b}) /\ Reach(h, X, D, {q})
      /\ (~some => Unique(h, X, D)) /\ Loose(h, X, D, b)
      /\ Graph(h, X, D, {}) = Graph(k, X, C, {}) \cup {Row(d, e)}
  <2>1. Shape(k, X, C, {}, L)
    BY <1>1
  <2>2. Leaves(k, h, X, C, D, d, q, e, L \cup {b})
    BY <1>3, <2>1, Enlarged
  <2> QED
    BY <1>1, <2>2 DEF Leaves
<1>5. Covers(h, X, D, {}, L \cup {b}) /\ Reach(h, X, D, {})
  BY <1>4, Fewer
<1>6. /\ Shape(h, X, D, {} \cup {q}, L) /\ At(h, q) = e /\ Live(h) = Live(k) \cup {q}
      /\ \A p \in Live(k) : Same(At(h, p), At(k, p))
  BY <1>3 DEF Makes
<1>7. Shape(h, X, D, {}, L)
  <2>1. LeadsTo(h, X, D, L, At(h, q))
    BY <1>4, <1>6 DEF LeadsTo
  <2>2. \A p \in Live(h) \ ({} \cup {q}) : At(h, p).start # At(h, q).start
    BY <1>6 DEF Same
  <2> QED
    BY <1>6, <2>1, <2>2, Admitted
<1>8. Covers(h, X, D, {}, L)
  <2>1. Linking(h, {}, b)
    BY <1>6 DEF Linking
  <2> QED
    BY <1>5, <2>1 DEF Covers
<1> QED
  BY <1>3, <1>4, <1>5, <1>7, <1>8 DEF Tidy, Waits, h

(* init_dir: the block allocated becomes a directory.                      *)
With(X, D, b) == [x \in X \cup {b} |-> IF x = b THEN <<b>> ELSE D[x]]
Opens(h, g, b, dot, up) ==
  /\ Layout(g) /\ g.used = h.used /\ g.fat = h.fat
  /\ g.dir[b] = <<dot, up>> /\ \A x \in Blocks \ {b} : g.dir[x] = h.dir[x]
LEMMA Opened ==
  ASSUME NEW h, Layout(h), NEW b \in Blocks, NEW dot \in Entries, NEW up \in Entries
  PROVE  Opens(h, [h EXCEPT !.dir[b] = <<dot, up>>], b, dot, up)
<1> DEFINE g == [h EXCEPT !.dir[b] = <<dot, up>>]
           s == <<dot, up>>
<1>1. s \in Seq(Entries) /\ Len(s) = 2
  OBVIOUS
<1> HIDE DEF s
<1>2. h \in Disks
  BY DEF Layout
<1>3. /\ g.used = h.used /\ g.fat = h.fat /\ g.dir = [h.dir EXCEPT ![b] = s]
      /\ g = [used |-> g.used, fat |-> g.fat, dir |-> g.dir]
  <2>1. h = [used |-> h.used, fat |-> h.fat, dir |-> h.dir]
    BY <1>2 DEF Disks
  <2>2. PICK f : f = [h.dir EXCEPT ![b] = s]
    OBVIOUS
  <2>3. g = [h EXCEPT !.dir = f]
    BY <2>2 DEF s
  <2> HIDE DEF g
  <2>4. [h EXCEPT !.dir = f] = [used |-> h.used, fat |-> h.fat, dir |-> f]
    BY <2>1
  <2> QED
    BY <2>2, <2>3, <2>4
<1> HIDE DEF g
<1>4. h.dir \in [Blocks -> Seq(Entries)] /\ h.used \in SUBSET Blocks /\ h.fat \in [Blocks -> Blocks]
  BY <1>2 DEF Disks
<1>5. g.dir[b] = s /\ \A x \in Blocks \ {b} : g.dir[x] = h.dir[x]
  BY <1>3, <1>4
<1>6. g.dir \in [Blocks -> Seq(Entries)]
  BY <1>1, <1>3, <1>4
<1>7. g \in Disks
  BY <1>3, <1>4, <1>6 DEF Disks
<1>8. Layout(g)
  <2>1. \A x \in Blocks : Len(g.dir[x]) <= FILES_PER_DIR
    <3> TAKE x \in Blocks
    <3>1. CASE x = b
      <4>1. FILES_PER_DIR \in Nat /\ FILES_PER_DIR > 2
        BY FatFsAssumption
      <4>2. Len(g.dir[x]) = 2
        BY <1>1, <1>5, <3>1
      <4> QED
        BY <4>1, <4>2
    <3>2. CASE x # b
      BY <1>5, <3>2 DEF Layout
    <3> QED
      BY <3>1, <3>2
  <2> QED
    BY <1>3, <1>7, <2>1 DEF Layout
<1>9. Opens(h, g, b, dot, up)
  BY <1>3, <1>5, <1>8 DEF Opens, s
<1> QED
  BY <1>9 DEF g

(* The new directory takes its place in the tree.                           *)
Begins(h, g, X, D, b, q, L) ==
  LET Y == X \cup {b}
      F == With(X, D, b)
  IN /\ Shape(g, Y, F, {}, L)
     /\ Covers(h, X, D, {q}, L \cup {b}) => Covers(g, Y, F, {}, L)
     /\ Reach(h, X, D, {q}) => Reach(g, Y, F, {})
     /\ Unique(h, X, D) => Unique(g, Y, F)
     /\ Graph(g, Y, F, {}) = Graph(h, X, D, {})
LEMMA NewDir ==
  ASSUME NEW h, NEW g, NEW X, NEW D, NEW L, NEW b, NEW q, NEW d \in X,
         NEW dot, NEW up,
         Shape(h, X, D, {q}, L), Loose(h, X, D, b), b \notin L, q \in Of(h, D, d),
         At(h, q).kind = "dir", At(h, q).start = b,
         \A p \in Live(h) \ {q} : At(h, p).start # b,
         Opens(h, g, b, dot, up), dot.name = ".", up.name = "..",
         dot.start = b, dot.size = 1
  PROVE  Begins(h, g, X, D, b, q, L)
<1> DEFINE Y == X \cup {b}
           F == With(X, D, b)
<1>1. /\ Layout(h) /\ Own(h, X, D) /\ h \in Disks /\ X \subseteq Blocks /\ RootDir \in X
      /\ h.used \subseteq Blocks
  BY DEF Shape, Layout, Own, Disks
<1>2. b \in h.used \ {0, 1} /\ ~Holds(X, D, b) /\ h.fat[b] = FAT_NULL /\ b \in Blocks
  BY <1>1 DEF Loose
<1>3. /\ Layout(g) /\ g \in Disks /\ g.used = h.used /\ g.fat = h.fat
      /\ g.dir[b] = <<dot, up>> /\ \A x \in Blocks \ {b} : g.dir[x] = h.dir[x]
  BY DEF Opens, Layout
<1>4. b \notin X
  BY <1>1, <1>2, Owners DEF Holds
<1>5. F[b] = <<b>> /\ \A x \in X : F[x] = D[x]
  BY <1>4 DEF With
<1>6. ToSet(<<b>>) = {b}
  BY DEF ToSet
<1>7. \A x : Holds(Y, F, x) <=> Holds(X, D, x) \/ x = b
  <2> HIDE DEF F
  <2> QED
    BY <1>5, <1>6 DEF Holds
<1>8. h.dir[b] = <<>>
  BY <1>2 DEF Shape, Dots
<1>9. Live(g) = Live(h) /\ \A p \in Live(h) : At(g, p) = At(h, p) /\ p[1] # b
  <2>1. ASSUME NEW p \in Live(h) PROVE p \in Live(g) /\ At(g, p) = At(h, p) /\ p[1] # b
    <3>1. /\ p = <<p[1], p[2]>> /\ p[1] \in Blocks /\ p[2] \in 1..Len(h.dir[p[1]])
          /\ h.dir[p[1]][p[2]].name \in NameSet
      BY <1>1, Alive, AlivePair
    <3>2. p[1] # b
      <4>1. Len(<<>>) = 0
        OBVIOUS
      <4> QED
        BY <1>8, <3>1, <4>1
    <3>3. g.dir[p[1]] = h.dir[p[1]]
      BY <1>3, <3>1, <3>2
    <3>4. <<p[1], p[2]>> \in Live(g)
      BY <1>3, <3>1, <3>3, Alive
    <3> QED
      BY <3>1, <3>2, <3>3, <3>4 DEF At
  <2>2. ASSUME NEW p \in Live(g) PROVE p \in Live(h)
    <3>1. /\ p = <<p[1], p[2]>> /\ p[1] \in Blocks /\ p[2] \in 1..Len(g.dir[p[1]])
          /\ g.dir[p[1]][p[2]].name \in NameSet
      BY <1>3, Alive, AlivePair
    <3>2. p[1] # b
      <4>1. ASSUME p[1] = b PROVE FALSE
        <5>1. /\ p[2] \in 1..Len(<<dot, up>>) /\ Len(<<dot, up>>) = 2
              /\ <<dot, up>>[p[2]].name \in NameSet
          BY <1>3, <3>1, <4>1
        <5>2. p[2] = 1 \/ p[2] = 2
          BY <5>1
        <5> QED
          BY <5>1, <5>2, FatFsAssumption
      <4> QED
        BY <4>1
    <3>3. g.dir[p[1]] = h.dir[p[1]]
      BY <1>3, <3>1, <3>2
    <3>4. <<p[1], p[2]>> \in Live(h)
      BY <1>1, <3>1, <3>3, Alive
    <3> QED
      BY <3>1, <3>4
  <2> QED
    BY <2>1, <2>2
<1>10. \A x \in X : Of(g, F, x) = Of(h, D, x)
  BY <1>5, <1>9 DEF Of
<1>11. Of(g, F, b) = {}
  BY <1>5, <1>6, <1>9 DEF Of
<1>12. Own(g, Y, F)
  <2>1. ASSUME NEW x \in Y PROVE F[x] \in Seq(g.used \ {0, 1}) /\ Linked(g, F[x]) /\ F[x][1] = x
    <3>1. CASE x = b
      <4>1. /\ <<b>> \in Seq(h.used \ {0, 1}) /\ Len(<<b>>) = 1 /\ <<b>>[1] = b /\ <<b>> # <<>>
        BY <1>2
      <4>2. Linked(g, <<b>>)
        BY <1>2, <1>3, <4>1 DEF Linked
      <4> QED
        BY <1>3, <1>5, <3>1, <4>1, <4>2
    <3>2. CASE x \in X
      BY <1>1, <1>3, <1>5, <3>2 DEF Own, Linked
    <3> QED
      BY <3>1, <3>2
  <2>2. F \in [Y -> Seq(g.used \ {0, 1})]
    <3>1. F = [x \in Y |-> F[x]]
      BY DEF With
    <3> HIDE DEF F, Y
    <3> QED
      BY <2>1, <3>1
  <2>3. ASSUME NEW x \in X, NEW i \in 1..Len(F[x]) PROVE F[x][i] # b
    <3>1. D[x] \in Seq(Blocks)
      BY <1>1, Owners
    <3>2. D[x][i] \in ToSet(D[x])
      BY <1>5, <3>1, Members
    <3> QED
      BY <1>2, <1>5, <3>2 DEF Holds
  <2>4. \A i \in 1..Len(F[b]) : i = 1 /\ F[b][i] = b
    BY <1>5
  <2>5. ASSUME NEW x \in Y, NEW y \in Y, NEW i \in 1..Len(F[x]), NEW j \in 1..Len(F[y]),
               F[x][i] = F[y][j]
        PROVE  x = y /\ i = j
    <3>1. CASE x \in X /\ y \in X
      BY <1>1, <1>5, <2>5, <3>1 DEF Own
    <3>2. CASE x = b /\ y = b
      BY <2>4, <3>2
    <3>3. CASE x = b /\ y \in X
      BY <2>3, <2>4, <2>5, <3>3
    <3>4. CASE x \in X /\ y = b
      BY <2>3, <2>4, <2>5, <3>4
    <3> QED
      BY <3>1, <3>2, <3>3, <3>4
  <2>6. Y \subseteq Blocks /\ RootDir \in Y
    BY <1>1, <1>2
  <2> HIDE DEF F, Y
  <2> QED
    BY <2>1, <2>2, <2>5, <2>6 DEF Own
<1> HIDE DEF F
<1>13. Dots(g, Y, F)
  <2>1. ASSUME NEW x \in Blocks, g.dir[x] # <<>> PROVE Holds(Y, F, x)
    <3>1. CASE x = b
      BY <1>7, <3>1
    <3>2. CASE x # b
      <4>1. Holds(X, D, x)
        BY <1>3, <2>1, <3>2 DEF Shape, Dots
      <4> QED
        BY <1>7, <4>1
    <3> QED
      BY <3>1, <3>2
  <2>2. ASSUME NEW x \in Y
        PROVE  /\ Len(g.dir[x]) >= 2
               /\ g.dir[x][1].name = "." /\ g.dir[x][2].name = ".."
               /\ g.dir[x][1].start = x /\ g.dir[x][1].size = Len(F[x])
    <3>1. CASE x = b
      <4>1. Len(<<dot, up>>) = 2 /\ <<dot, up>>[1] = dot /\ <<dot, up>>[2] = up /\ Len(<<b>>) = 1
        OBVIOUS
      <4>2. /\ Len(g.dir[b]) = 2 /\ g.dir[b][1] = dot /\ g.dir[b][2] = up
            /\ Len(F[b]) = 1
        BY <1>3, <1>5, <4>1
      <4> QED
        BY <3>1, <4>2
    <3>2. CASE x \in X
      <4>1. x \in Blocks \ {b}
        BY <1>1, <1>4, <3>2
      <4>2. g.dir[x] = h.dir[x] /\ F[x] = D[x]
        BY <1>3, <1>5, <3>2, <4>1
      <4> QED
        BY <3>2, <4>2 DEF Shape, Dots
    <3> QED
      BY <3>1, <3>2
  <2>3. ASSUME NEW x \in Blocks, NEW i \in 1..Len(g.dir[x])
        PROVE  g.dir[x][i].name \in NameSet \/ (x \in Y /\ i \in {1, 2})
    <3>1. CASE x = b
      <4>1. Len(<<dot, up>>) = 2
        OBVIOUS
      <4>2. i \in 1..2
        BY <1>3, <3>1, <4>1
      <4> QED
        BY <3>1, <4>2
    <3>2. CASE x # b
      <4>1. g.dir[x] = h.dir[x]
        BY <1>3, <3>2
      <4>2. h.dir[x][i].name \in NameSet \/ (x \in X /\ i \in {1, 2})
        BY <4>1 DEF Shape, Dots
      <4> QED
        BY <4>1, <4>2
    <3> QED
      BY <3>1, <3>2
  <2> HIDE DEF Y
  <2> QED
    BY <2>1, <2>2, <2>3 DEF Dots
<1>14. Leads(g, Y, F, {}, L)
  <2> SUFFICES ASSUME NEW p \in Live(h) PROVE LeadsTo(g, Y, F, L, At(h, p))
    BY <1>9 DEF Leads
  <2>1. CASE p = q
    BY <1>1, <1>4, <2>1 DEF LeadsTo
  <2>2. CASE p # q
    <3>1. LeadsTo(h, X, D, L, At(h, p)) /\ At(h, p).start # b
      BY <2>2 DEF Shape, Leads
    <3> QED
      BY <1>3, <1>7, <3>1 DEF LeadsTo, Loose
  <2> QED
    BY <2>1, <2>2
<1>15. Single(g, {})
  <2> SUFFICES ASSUME NEW p \in Live(h), NEW r \in Live(h), At(h, p).start = At(h, r).start,
                      At(h, p).start # FAT_NULL
               PROVE  p = r
    BY <1>9 DEF Single
  <2>1. CASE p = q \/ r = q
    BY <2>1
  <2>2. CASE p # q /\ r # q
    BY <2>2 DEF Shape, Single
  <2> QED
    BY <2>1, <2>2
<1>16. Lost(g, Y, F, L)
  BY <1>3, <1>7 DEF Shape, Lost
<1>17. Shape(g, Y, F, {}, L)
  BY <1>3, <1>12, <1>13, <1>14, <1>15, <1>16 DEF Shape
<1>18. ASSUME Covers(h, X, D, {q}, L \cup {b}) PROVE Covers(g, Y, F, {}, L)
  <2>1. \A x : Linking(h, {q}, x) => Linking(g, {}, x)
    BY <1>9 DEF Linking
  <2> QED
    BY <1>3, <1>7, <1>18, <2>1 DEF Covers
<1>19. ASSUME Reach(h, X, D, {q}) PROVE Reach(g, Y, F, {})
  <2> SUFFICES ASSUME NEW S, RootDir \in S, Closed(g, Y, F, {}, S) PROVE Y \subseteq S
    BY DEF Reach
  <2>1. ASSUME NEW x \in S \cap X, NEW p \in Of(h, D, x) \ {q}, At(h, p).kind = "dir"
        PROVE  At(h, p).start \in S
    <3>1. p \in Of(g, F, x) \ {} /\ At(g, p) = At(h, p)
      BY <1>9, <1>10 DEF Of
    <3> QED
      BY <2>1, <3>1 DEF Closed
  <2>2. Closed(h, X, D, {q}, S)
    BY <2>1 DEF Closed
  <2>3. X \subseteq S
    BY <1>19, <2>2 DEF Reach
  <2>4. q \in Of(g, F, d) \ {} /\ At(g, q) = At(h, q)
    BY <1>9, <1>10 DEF Of
  <2>5. b \in S
    BY <2>3, <2>4 DEF Closed
  <2> QED
    BY <2>3, <2>5
<1>20. ASSUME Unique(h, X, D) PROVE Unique(g, Y, F)
  <2> SUFFICES ASSUME NEW x \in Y, NEW p \in Of(g, F, x), NEW r \in Of(g, F, x),
                      At(g, p).name = At(g, r).name
               PROVE  p = r
    BY DEF Unique
  <2>1. x \in X
    BY <1>11
  <2>2. p \in Of(h, D, x) /\ r \in Of(h, D, x)
    BY <1>10, <2>1
  <2>3. At(h, p).name = At(h, r).name
    BY <1>9, <2>2 DEF Of
  <2> QED
    BY <1>20, <2>1, <2>2, <2>3 DEF Unique
<1>21. Graph(g, Y, F, {}) = Graph(h, X, D, {})
  <2>1. \A x : \A p \in Of(h, D, x) : At(g, p) = At(h, p)
    BY <1>9 DEF Of
  <2>2. \A x \in X : {Row(x, At(g, p)) : p \in Of(g, F, x)} = {Row(x, At(h, p)) : p \in Of(h, D, x)}
    BY <1>10, <2>1
  <2>3. {Row(b, At(g, p)) : p \in Of(g, F, b)} = {}
    BY <1>11
  <2> QED
    BY <2>2, <2>3 DEF Graph
<1> QED
  BY <1>17, <1>18, <1>19, <1>20, <1>21 DEF F, Begins

(* mkdir: the entry is made, and found again where it was made.            *)
LEMMA DirMade ==
  ASSUME NEW k, NEW X, NEW C, NEW L, NEW some, NEW b,
         Tidy(k, X, C, {}, L \cup {b}, NoPending, some), Shape(k, X, C, {}, L),
         b \notin L, Loose(k, X, C, b), \A p \in Live(k) : At(k, p).start # b,
         NEW d \in X, NEW e \in Entries, e.name \in NameSet, ~Found(k, d, e.name),
         e.kind = "dir", e.start = b, e.size = 1,
         Space(k, d) = {} => NewBlock(k) \in Blocks \ k.used
  PROVE  \E Y, D : /\ Tidy(init_dir(make_file(k, d, e), d, e.name), Y, D, {}, L, NoPending, some)
                   /\ Graph(init_dir(make_file(k, d, e), d, e.name), Y, D, {})
                        = Graph(k, X, C, {}) \cup {Row(d, e)}
<1>1. /\ Covers(k, X, C, {}, L \cup {b}) /\ Reach(k, X, C, {})
      /\ (~some => Unique(k, X, C)) /\ Layout(k) /\ Own(k, X, C)
  BY DEF Tidy, Shape
<1>2. PICK D, q : Makes(k, make_file(k, d, e), X, C, D, d, q, e, L)
  BY MakeFile
<1> DEFINE h == make_file(k, d, e)
           up == [h.dir[q[1]][1] EXCEPT !.name = ".."]
           dot == [e EXCEPT !.name = "."]
           g == init_dir(h, d, e.name)
<1> HIDE DEF h
<1>3. Makes(k, h, X, C, D, d, q, e, L)
  BY <1>2 DEF h
<1>4. Leaves(k, h, X, C, D, d, q, e, L \cup {b})
  BY <1>3, Enlarged
<1>5. /\ Shape(h, X, D, {q}, L) /\ Layout(h) /\ Own(h, X, D)
      /\ At(h, q) = e /\ Live(h) = Live(k) \cup {q} /\ q \in Live(h)
      /\ \A p \in Live(k) : Same(At(h, p), At(k, p))
  BY <1>3 DEF Makes, Shape
<1>6. q \in Of(h, D, d) /\ find_in_dir(h, d, e.name) = q
  <2> DEFINE hits(m) == Hits(m, d, e.name)
  <2>1. Of(h, D, d) = Of(k, C, d) \cup {q} /\ hits(h) = hits(k) \cup {q}
    <3>1. Offers(k, h, C, D, d, q, e, d)
      BY <1>3, Finds
    <3> QED
      BY <3>1 DEF Offers
  <2>2. Hits(k, d, e.name) = {}
    BY DEF Found
  <2>3. Found(h, d, e.name)
    BY <2>1 DEF Found
  <2>4. find_in_dir(h, d, e.name) \in Hits(h, d, e.name)
    BY <1>5, <2>3, NamedIs
  <2> QED
    BY <2>1, <2>2, <2>4
<1>7. dot \in Entries /\ dot.name = "." /\ dot.start = b /\ dot.size = 1
  BY DEF Entries, Sources
<1>8. up \in Entries /\ up.name = ".."
  <2>1. q = <<q[1], q[2]>> /\ q[1] \in Blocks /\ q[2] \in 1..Len(h.dir[q[1]])
    BY <1>5, Alive, AlivePair
  <2>2. 1 \in 1..Len(h.dir[q[1]])
    BY <1>5, <2>1, Lists
  <2>3. h.dir[q[1]][1] \in Entries
    BY <1>5, <2>1, <2>2, Lists
  <2> QED
    BY <2>3 DEF Entries, Sources
<1>9. g = [h EXCEPT !.dir[b] = <<dot, up>>]
  BY <1>5, <1>6 DEF init_dir
<1> HIDE DEF g, dot, up
<1>10. b \in Blocks
  BY <1>1 DEF Loose, Layout, Disks
<1>11. Opens(h, g, b, dot, up)
  BY <1>5, <1>7, <1>8, <1>9, <1>10, Opened
<1>12. Loose(h, X, D, b)
  BY <1>4 DEF Leaves
<1>13. \A p \in Live(h) \ {q} : At(h, p).start # b
  BY <1>5 DEF Same
<1>14. Begins(h, g, X, D, b, q, L)
  BY <1>5, <1>6, <1>7, <1>8, <1>11, <1>12, <1>13, NewDir
<1>15. /\ Covers(h, X, D, {q}, L \cup {b}) /\ Reach(h, X, D, {q})
       /\ (~some => Unique(h, X, D))
       /\ Graph(h, X, D, {}) = Graph(k, X, C, {}) \cup {Row(d, e)}
  BY <1>1, <1>4 DEF Leaves
<1>16. Tidy(g, X \cup {b}, With(X, D, b), {}, L, NoPending, some)
  BY <1>14, <1>15 DEF Tidy, Waits, Begins
<1>17. Graph(g, X \cup {b}, With(X, D, b), {}) = Graph(k, X, C, {}) \cup {Row(d, e)}
  BY <1>14, <1>15 DEF Begins
<1> QED
  BY <1>16, <1>17 DEF g, h

(* rename, before the old entry goes: there are two entries, and without   *)
(* the old one all is as it should be.  That a directory does not move     *)
(* below itself is why every directory can still be reached.               *)
LEMMA Renamed ==
  ASSUME NEW k, NEW X, NEW C, NEW L, NEW some, Tidy(k, X, C, {}, L, NoPending, some),
         NEW d \in X, NEW name \in NameSet, Found(k, d, name),
         NEW p, p = find_in_dir(k, d, name),
         NEW d2 \in X, NEW name2 \in NameSet, <<d, name>> # <<d2, name2>>,
         ~some => ~Found(k, d2, name2),
         At(k, p).kind = "dir" => d2 \notin Below(k, At(k, p).start),
         NEW e, e = [At(k, p) EXCEPT !.name = name2],
         Space(k, d2) = {} => NewBlock(k) \in Blocks \ k.used
  PROVE  \E D : /\ Tidy(make_file(k, d2, e), X, D, {p}, L, <<d, name>>, some)
                /\ Graph(make_file(k, d2, e), X, D, {}) = Graph(k, X, C, {}) \cup {Row(d2, e)}
<1> DEFINE s == At(k, p).start
<1>1. /\ Shape(k, X, C, {}, L) /\ Covers(k, X, C, {}, L) /\ Reach(k, X, C, {})
      /\ (~some => Unique(k, X, C)) /\ Layout(k) /\ Own(k, X, C)
  BY DEF Tidy, Shape
<1>2. p \in Of(k, C, d) /\ At(k, p).name = name /\ p \in Live(k)
  BY <1>1, NamedIs DEF Of
<1>3. At(k, p) \in Entries
  <2>1. p[1] \in Blocks /\ p[2] \in 1..Len(k.dir[p[1]])
    BY <1>1, <1>2, Alive, AlivePair
  <2> QED
    BY <1>1, <2>1, Lists DEF At
<1>4. /\ e \in Entries /\ e.name = name2 /\ e.kind = At(k, p).kind
      /\ e.perm = At(k, p).perm /\ e.start = s
  BY <1>3 DEF Entries, Sources
<1>5. PICK D, q : Makes(k, make_file(k, d2, e), X, C, D, d2, q, e, L)
  BY <1>1, <1>4, MakeFile
<1> DEFINE h == make_file(k, d2, e)
<1> HIDE DEF h, s
<1>6. Makes(k, h, X, C, D, d2, q, e, L)
  BY <1>5 DEF h
<1>7. Leaves(k, h, X, C, D, d2, q, e, L)
  BY <1>1, <1>4, <1>6, Enlarged
<1>8. /\ Shape(h, X, D, {q}, L) /\ Layout(h) /\ Own(h, X, D)
      /\ At(h, q) = e /\ Live(h) = Live(k) \cup {q} /\ q \in Live(h) /\ q # p
      /\ \A r \in Live(k) : Same(At(h, r), At(k, r))
  BY <1>2, <1>6 DEF Makes, Shape
<1>9. Shape(h, X, D, {p}, L)
  <2>1. Shape(h, X, D, {p} \cup {q}, L)
    BY <1>8, Excepted
  <2>2. LeadsTo(h, X, D, L, At(h, q))
    <3>1. LeadsTo(k, X, C, L, At(k, p))
      BY <1>1, <1>2 DEF Shape, Leads
    <3> QED
      BY <1>4, <1>7, <1>8, <3>1 DEF LeadsTo, Leaves, s
  <2>3. ASSUME NEW r \in Live(h) \ ({p} \cup {q}), At(h, r).start = At(h, q).start
        PROVE  At(h, r).start = FAT_NULL
    <3>1. r \in Live(k) /\ r # p /\ At(h, r).start = At(k, r).start
      BY <1>8 DEF Same
    <3>2. At(k, r).start = At(k, p).start
      BY <1>4, <1>8, <2>3, <3>1 DEF s
    <3> QED
      BY <1>1, <1>2, <3>1, <3>2 DEF Shape, Single
  <2> QED
    BY <2>1, <2>2, <2>3, Admitted
<1>10. \A x \in X : Offers(k, h, C, D, d2, q, e, x)
  <2> TAKE x \in X
  <2> QED
    BY <1>1, <1>6, Finds
<1>11. Waits(h, X, D, {p}, <<d, name>>)
  <2>1. find_in_dir(h, d, name) = p
    <3>1. d # d2 \/ e.name # name
      BY <1>4
    <3> QED
      BY <1>10, <3>1 DEF Offers
  <2>2. p \in Of(h, D, d) /\ At(h, p).name = name
    BY <1>2, <1>8, <1>10 DEF Same, Offers
  <2>3. Other(h, p)
    BY <1>2, <1>4, <1>8 DEF Other, Same, s
  <2>4. <<d, name>> # NoPending
    BY DEF NoPending
  <2> QED
    BY <2>1, <2>2, <2>3, <2>4 DEF Waits
<1>12. Covers(h, X, D, {p}, L)
  <2>1. Covers(h, X, D, {q}, L)
    BY <1>1, <1>7 DEF Leaves
  <2>2. ASSUME NEW b, Linking(h, {q}, b) PROVE Linking(h, {p}, b)
    <3>1. PICK r \in Live(h) \ {q} : At(h, r).kind = "link" /\ At(h, r).start = b
      BY <2>2 DEF Linking
    <3>2. CASE r # p
      BY <3>1, <3>2 DEF Linking
    <3>3. CASE r = p
      <4>1. At(h, q).kind = "link" /\ At(h, q).start = b
        BY <1>2, <1>4, <1>8, <3>1, <3>3 DEF Same, s
      <4> QED
        BY <1>8, <4>1 DEF Linking
    <3> QED
      BY <3>2, <3>3
  <2> QED
    BY <2>1, <2>2 DEF Covers
<1>13. Reach(h, X, D, {p})
  <2> SUFFICES ASSUME NEW S, RootDir \in S, Closed(h, X, D, {p}, S) PROVE X \subseteq S
    BY DEF Reach
  <2>1. ASSUME NEW x \in S \cap X, NEW r \in Of(k, C, x), r # p, At(k, r).kind = "dir"
        PROVE  At(k, r).start \in S
    <3>1. r \in Of(h, D, x) \ {p} /\ Same(At(h, r), At(k, r))
      BY <1>8, <1>10, <2>1 DEF Of, Offers
    <3> QED
      BY <2>1, <3>1 DEF Closed, Same
  <2>2. ASSUME At(k, p).kind = "dir" => s \in S PROVE X \subseteq S
    <3>1. Closed(k, X, C, {}, S)
      BY <2>1, <2>2 DEF Closed, s
    <3> QED
      BY <1>1, <3>1 DEF Reach
  <2>3. ASSUME At(k, p).kind = "dir" PROVE s \in S
    <3>1. s \in X
      BY <1>1, <1>2, <2>3 DEF Shape, Leads, LeadsTo, s
    <3> DEFINE B == Below(k, s)
    <3>2. s \in B /\ \A x \in B : Subdirs(k, x) \subseteq B
      BY <1>1, <3>1, BelowIn
    <3>3. d2 \notin B
      BY <2>3 DEF s
    <3> HIDE DEF B
    <3>4. ASSUME NEW x \in (S \cup B) \cap X, NEW r \in Of(k, C, x) \ {},
                 At(k, r).kind = "dir"
          PROVE  At(k, r).start \in S \cup B
      <4>1. CASE x \in B
        <5>1. At(k, r).start \in Subdirs(k, x)
          BY <1>1, <3>4, SubdirsAre
        <5> QED
          BY <3>2, <4>1, <5>1
      <4>2. CASE x \in S /\ r = p
        BY <3>2, <4>2 DEF s
      <4>3. CASE x \in S /\ r # p
        BY <2>1, <3>4, <4>3
      <4> QED
        BY <4>1, <4>2, <4>3
    <3>5. Closed(k, X, C, {}, S \cup B)
      BY <3>4 DEF Closed
    <3>6. X \subseteq S \cup B
      BY <1>1, <3>5 DEF Reach
    <3>7. d2 \in S
      BY <3>3, <3>6
    <3>8. q \in Of(h, D, d2) \ {p}
      BY <1>8, <1>10 DEF Offers
    <3> QED
      BY <1>4, <1>8, <2>3, <3>7, <3>8 DEF Closed
  <2> QED
    BY <2>2, <2>3
<1>14. /\ (~some => Unique(h, X, D))
       /\ Graph(h, X, D, {}) = Graph(k, X, C, {}) \cup {Row(d2, e)}
  BY <1>1, <1>4, <1>7 DEF Leaves
<1>15. Tidy(h, X, D, {p}, L, <<d, name>>, some)
  BY <1>9, <1>11, <1>12, <1>13, <1>14 DEF Tidy
<1> QED
  BY <1>14, <1>15 DEF h

-----------------------------------------------------------------------------
(* The directories are X; of those whose entry is about to be deleted, one *)
(* gets to what is left of them, too, but it holds nothing.                *)
Husks(k, E) == {At(k, p).start : p \in {q \in E : At(k, q).kind = "dir" /\ Emptied(k, q)}}
LEMMA HuskIsBare ==
  ASSUME NEW k, NEW E, NEW x \in Husks(k, E)
  PROVE  /\ Places(k, x) = {} /\ Named(k, x) = {} /\ Subdirs(k, x) = {}
         /\ \A b \in ToSet(Chain(k, x)) : b \notin k.used
<1>1. \A b \in ToSet(Chain(k, x)) : b \notin k.used /\ k.dir[b] = <<>>
  BY DEF Husks, Emptied
<1>2. DOMAIN <<>> = {}
  OBVIOUS
<1>3. \A b \in ToSet(Chain(k, x)) : {b} \X DOMAIN k.dir[b] = {}
  BY <1>1, <1>2
<1>4. Places(k, x) = {}
  BY <1>3 DEF Places, PlacesIn
<1>5. Named(k, x) = {}
  BY <1>4 DEF Named
<1>6. Subdirs(k, x) = {}
  BY <1>5 DEF Subdirs
<1> QED
  BY <1>1, <1>4, <1>5, <1>6

(* The directories a walk from the root finds are those of the invariant,   *)
(* and the one whose entry is about to be deleted.                          *)
LEMMA DirsAre ==
  ASSUME NEW k, NEW X, NEW C, NEW E, NEW L, NEW wait, NEW some,
         Tidy(k, X, C, E, L, wait, some)
  PROVE  X \subseteq Dirs(k) /\ Dirs(k) \subseteq X \cup Husks(k, E)
<1> DEFINE Z == X \cup Husks(k, E)
<1>1. /\ Shape(k, X, C, E, L) /\ Layout(k) /\ Own(k, X, C) /\ Reach(k, X, C, E)
      /\ X \subseteq Blocks /\ RootDir \in X /\ Waits(k, X, C, E, wait)
  BY DEF Tidy, Shape, Own
<1>2. ASSUME NEW p \in E
      PROVE  p \in Live(k) /\ At(k, p).start \in Blocks /\ (Other(k, p) \/ Emptied(k, p)) /\ E = {p}
  <2>1. p \in Live(k) /\ (Other(k, p) \/ Emptied(k, p)) /\ E = {p}
    BY <1>1 DEF Waits, Of
  <2>2. p[1] \in Blocks /\ p[2] \in 1..Len(k.dir[p[1]])
    BY <1>1, <2>1, Alive, AlivePair
  <2>3. At(k, p) \in Entries
    BY <1>1, <2>2, Lists DEF At
  <2> QED
    BY <2>1, <2>3 DEF Entries
<1>3. Z \in SUBSET Blocks
  BY <1>1, <1>2 DEF Husks
<1>4. ASSUME NEW p \in Live(k), At(k, p).kind = "dir" PROVE At(k, p).start \in Z
  <2>1. CASE p \notin E
    BY <1>1, <1>4, <2>1 DEF Shape, Leads, LeadsTo
  <2>2. CASE p \in E /\ Emptied(k, p)
    BY <1>4, <2>2 DEF Husks
  <2>3. CASE p \in E /\ Other(k, p)
    <3>1. PICK q \in Live(k) \ {p} : At(k, q).kind = At(k, p).kind /\ At(k, q).start = At(k, p).start
      BY <2>3 DEF Other
    <3>2. q \notin E
      BY <1>2, <2>3
    <3> QED
      BY <1>1, <1>4, <3>1, <3>2 DEF Shape, Leads, LeadsTo
  <2> QED
    BY <1>2, <2>1, <2>2, <2>3
<1>5. ASSUME NEW x \in X
      PROVE  Subdirs(k, x) = {At(k, p).start : p \in {q \in Of(k, C, x) : At(k, q).kind = "dir"}}
  BY <1>1, SubdirsAre
<1>6. ASSUME NEW x \in Z PROVE Subdirs(k, x) \subseteq Z
  <2>1. CASE x \in X
    BY <1>4, <1>5, <2>1 DEF Of
  <2>2. CASE x \in Husks(k, E)
    BY <2>2, HuskIsBare
  <2> QED
    BY <2>1, <2>2
<1>7. RootDir \in Z
  BY <1>1
<1>8. /\ RootDir \in Dirs(k) /\ Dirs(k) \subseteq Z
      /\ \A x \in Dirs(k) : Subdirs(k, x) \subseteq Dirs(k)
  <2> HIDE DEF Z
  <2> QED
    BY <1>3, <1>6, <1>7, BelowIs DEF Dirs
<1>9. Closed(k, X, C, E, Dirs(k))
  <2> SUFFICES ASSUME NEW x \in Dirs(k) \cap X, NEW p \in Of(k, C, x) \ E, At(k, p).kind = "dir"
               PROVE  At(k, p).start \in Dirs(k)
    BY DEF Closed
  <2>1. At(k, p).start \in Subdirs(k, x)
    BY <1>5
  <2> QED
    BY <1>8, <2>1
<1> QED
  BY <1>1, <1>8, <1>9 DEF Reach

-----------------------------------------------------------------------------
(* fatfs_init: one directory, with no entries.                             *)
RootChain == [d \in {RootDir} |-> <<RootDir>>]
LEMMA InitTidy ==
  ASSUME Init
  PROVE  /\ Tidy(disk, {RootDir}, RootChain, {}, leaked, pending, onto)
         /\ Live(disk) = {} /\ Graph(disk, {RootDir}, RootChain, {}) = {}
<1> DEFINE X == {RootDir}
           C == RootChain
           top == Entry(".", "dir", RootPerm, RootDir, 1)
           up == Entry("..", "dir", RootPerm, RootDir, 1)
           dir == [b \in Blocks |-> IF b = RootDir THEN <<top, up>> ELSE <<>>]
<1>1. /\ MaxBlocks \in Nat /\ MaxBlocks > 3 /\ FILES_PER_DIR \in Nat /\ FILES_PER_DIR > 2
      /\ RootPerm \in Perms /\ "." \notin NameSet /\ ".." \notin NameSet
  BY FatFsAssumption
<1>2. /\ RootDir \in Blocks /\ 0 \in Blocks /\ 1 \in Blocks /\ 0..RootDir = {0, 1, 2}
      /\ RootDir = 2 /\ FAT_NULL = 0
  BY <1>1 DEF Blocks, RootDir, FAT_NULL
<1>3. /\ disk.used = 0..RootDir /\ disk.fat = [b \in Blocks |-> FAT_NULL] /\ disk.dir = dir
      /\ disk = [used |-> disk.used, fat |-> disk.fat, dir |-> disk.dir]
      /\ pending = NoPending /\ leaked = {}
  BY DEF Init
<1>4. top \in Entries /\ up \in Entries /\ top.name = "." /\ up.name = ".."
      /\ top.start = RootDir /\ top.size = 1
  <2>1. 1 \in 0..MaxBlocks
    BY <1>1
  <2> QED
    BY <1>1, <1>2, <2>1 DEF Entry, Entries, Sources, Kinds
<1> HIDE DEF top, up
<1>5. <<top, up>> \in Seq(Entries) /\ <<>> \in Seq(Entries) /\ Len(<<>>) = 0
      /\ Len(<<top, up>>) = 2 /\ <<top, up>>[1] = top /\ <<top, up>>[2] = up
  BY <1>4
<1>6. disk \in Disks
  <2>1. disk.dir \in [Blocks -> Seq(Entries)]
    BY <1>3, <1>5
  <2>2. disk.fat \in [Blocks -> Blocks]
    BY <1>2, <1>3
  <2>3. disk.used \in SUBSET Blocks
    BY <1>2, <1>3
  <2> QED
    BY <1>3, <2>1, <2>2, <2>3 DEF Disks
<1>7. disk.dir[RootDir] = <<top, up>> /\ \A b \in Blocks : b # RootDir => disk.dir[b] = <<>>
  BY <1>2, <1>3
<1>8. \A b \in Blocks : disk.fat[b] = FAT_NULL
  BY <1>3
<1> HIDE DEF dir
<1>9. Layout(disk)
  <2>2. \A b \in Blocks : Len(disk.dir[b]) <= FILES_PER_DIR
    <3>1. 0 <= FILES_PER_DIR /\ 2 <= FILES_PER_DIR
      BY <1>1
    <3> TAKE b \in Blocks
    <3>2. CASE b = RootDir
      BY <1>5, <1>7, <3>1, <3>2
    <3>3. CASE b # RootDir
      BY <1>5, <1>7, <3>1, <3>3
    <3> QED
      BY <3>2, <3>3
  <2> QED
    BY <1>2, <1>3, <1>6, <2>2 DEF Layout
<1>10. Live(disk) = {}
  <2> SUFFICES ASSUME NEW p \in Live(disk) PROVE FALSE
    OBVIOUS
  <2>1. /\ p[1] \in Blocks /\ p[2] \in 1..Len(disk.dir[p[1]])
        /\ disk.dir[p[1]][p[2]].name \in NameSet
    BY <1>9, Alive, AlivePair
  <2>2. CASE p[1] # RootDir
    <3>1. 1..0 = {}
      OBVIOUS
    <3> QED
      BY <1>5, <1>7, <2>1, <2>2, <3>1
  <2>3. CASE p[1] = RootDir
    <3>1. p[2] = 1 \/ p[2] = 2
      BY <1>5, <1>7, <2>1, <2>3
    <3> QED
      BY <1>1, <1>4, <1>5, <1>7, <2>1, <2>3, <3>1
  <2> QED
    BY <2>2, <2>3
<1>11. C[RootDir] = <<RootDir>> /\ DOMAIN C = X
  BY DEF RootChain
<1>12. /\ Len(<<RootDir>>) = 1 /\ <<RootDir>>[1] = RootDir /\ <<RootDir>> # <<>>
       /\ <<RootDir>> \in Seq(disk.used \ {0, 1}) /\ ToSet(<<RootDir>>) = {RootDir}
  <2>1. RootDir \in disk.used \ {0, 1}
    BY <1>2, <1>3
  <2> QED
    BY <2>1 DEF ToSet
<1>13. Own(disk, X, C)
  <2>1. C \in [X -> Seq(disk.used \ {0, 1})]
    BY <1>12 DEF RootChain
  <2>2. \A d \in X : Linked(disk, C[d]) /\ C[d][1] = d
    <3>1. Linked(disk, <<RootDir>>)
      BY <1>2, <1>8, <1>12 DEF Linked
    <3> QED
      BY <1>11, <1>12, <3>1
  <2>3. \A d, e \in X : \A i \in 1..Len(C[d]), j \in 1..Len(C[e]) : d = e /\ i = j
    <3>1. ASSUME NEW d \in X, NEW e \in X, NEW i \in 1..Len(C[d]), NEW j \in 1..Len(C[e])
          PROVE  d = e /\ i = j
      <4>1. d = RootDir /\ e = RootDir /\ Len(C[d]) = 1 /\ Len(C[e]) = 1
        BY <1>11, <1>12
      <4> QED
        BY <4>1
    <3> QED
      BY <3>1
  <2> QED
    BY <1>2, <2>1, <2>2, <2>3 DEF Own
<1>14. \A b : Holds(X, C, b) <=> b = RootDir
  BY <1>11, <1>12 DEF Holds
<1>15. Dots(disk, X, C)
  <2>1. \A b \in Blocks : disk.dir[b] # <<>> => Holds(X, C, b)
    BY <1>7, <1>14
  <2>2. /\ Len(disk.dir[RootDir]) >= 2
        /\ disk.dir[RootDir][1].name = "." /\ disk.dir[RootDir][2].name = ".."
        /\ disk.dir[RootDir][1].start = RootDir
        /\ disk.dir[RootDir][1].size = Len(C[RootDir])
    BY <1>4, <1>5, <1>7, <1>11, <1>12
  <2>3. ASSUME NEW b \in Blocks, NEW i \in 1..Len(disk.dir[b]) PROVE b \in X /\ i \in {1, 2}
    <3>1. b = RootDir
      <4>1. 1..0 = {}
        OBVIOUS
      <4> QED
        BY <1>5, <1>7, <4>1
    <3>2. i \in 1..2
      BY <1>5, <1>7, <3>1
    <3> QED
      BY <3>1, <3>2
  <2> QED
    BY <2>1, <2>2, <2>3 DEF Dots
<1>16. Shape(disk, X, C, {}, {})
  <2>1. Leads(disk, X, C, {}, {}) /\ Single(disk, {}) /\ Lost(disk, X, C, {})
    BY <1>10 DEF Leads, Single, Lost
  <2> QED
    BY <1>9, <1>13, <1>15, <2>1 DEF Shape
<1>17. \A d : Of(disk, C, d) = {}
  BY <1>10 DEF Of
<1>18. Covers(disk, X, C, {}, {}) /\ Reach(disk, X, C, {}) /\ Unique(disk, X, C)
  <2>1. Covers(disk, X, C, {}, {})
    BY <1>2, <1>3, <1>14 DEF Covers
  <2>2. Reach(disk, X, C, {})
    BY DEF Reach
  <2>3. Unique(disk, X, C)
    BY <1>17 DEF Unique
  <2> QED
    BY <2>1, <2>2, <2>3
<1>19. Graph(disk, X, C, {}) = {}
  BY <1>17 DEF Graph
<1> QED
  BY <1>3, <1>10, <1>16, <1>18, <1>19 DEF Tidy, Waits

-----------------------------------------------------------------------------
(* Where there is room, the numbers that are allocated are free.           *)
LEMMA Counted ==
  ASSUME NEW k, Layout(k)
  PROVE  Cardinality(k.used) \in Nat /\ MaxBlocks \in Nat
<1>1. k.used \in SUBSET Blocks /\ MaxBlocks \in Nat
  BY FatFsAssumption DEF Layout, Disks
<1>2. IsFiniteSet(Blocks)
  <2>1. 0 \in Int /\ MaxBlocks - 1 \in Int
    BY <1>1
  <2> QED
    BY <2>1, FS_Interval, Zenon DEF Blocks
<1>3. IsFiniteSet(k.used)
  BY <1>1, <1>2, FS_Subset
<1> QED
  BY <1>1, <1>3, FS_CardinalityType

(* Where the guard sees room for a block there is a free one,               *)
LEMMA Roomy ==
  ASSUME Layout(disk), NEW d, Room(d, 0), Space(disk, d) = {}
  PROVE  NewBlock(disk) \in Blocks \ disk.used
<1>1. Cardinality(disk.used) + 0 + 1 <= MaxBlocks
  BY DEF Room
<1>2. Cardinality(disk.used) \in Nat
  BY Counted
<1>3. Cardinality(disk.used) + 1 <= MaxBlocks
  BY <1>1, <1>2
<1> QED
  BY <1>3, NewBlockIs

(* and where it sees room for two there are two.                            *)
LEMMA Roomier ==
  ASSUME Layout(disk), NEW d, Room(d, 1)
  PROVE  /\ NewBlock(disk) \in Blocks \ disk.used
         /\ \A k : Layout(k) /\ k.used = disk.used \cup {NewBlock(disk)} /\ Space(disk, d) = {}
                     => NewBlock(k) \in Blocks \ k.used
<1>1. Cardinality(disk.used) + 1 + (IF Space(disk, d) = {} THEN 1 ELSE 0) <= MaxBlocks
  BY DEF Room
<1>2. Cardinality(disk.used) \in Nat /\ MaxBlocks \in Nat
  BY Counted
<1>3. Cardinality(disk.used) + 1 <= MaxBlocks
  BY <1>1, <1>2
<1>4. /\ NewBlock(disk) \in Blocks \ disk.used
      /\ Cardinality(disk.used \cup {NewBlock(disk)}) = Cardinality(disk.used) + 1
  BY <1>3, NewBlockIs
<1>5. ASSUME NEW k, Layout(k), k.used = disk.used \cup {NewBlock(disk)}, Space(disk, d) = {}
      PROVE  NewBlock(k) \in Blocks \ k.used
  <2>1. Cardinality(k.used) + 1 <= MaxBlocks
    BY <1>1, <1>2, <1>4, <1>5
  <2> QED
    BY <1>5, <2>1, NewBlockIs
<1> QED
  BY <1>4, <1>5

-----------------------------------------------------------------------------
(* What a step does to what names stand for: an entry for something that   *)
(* is new, or for what has an entry already; one entry less, for what has  *)
(* another one or is empty; other permissions; or nothing.                 *)
Novel(k, e) ==
  \/ e.start = FAT_NULL
  \/ e.start # RootDir /\ \A p \in Live(k) : At(k, p).start # e.start
  \/ \E p \in Live(k) : What(At(k, p)) = What(e)
Adds(k, X, C, h, Y, D, some) ==
  \E d \in X, e \in Entries :
    /\ e.name \in NameSet /\ Novel(k, e)
    /\ some \/ ~Found(k, d, e.name)
    /\ Graph(h, Y, D, {}) = Graph(k, X, C, {}) \cup {Row(d, e)}
Drops(k, X, C, h, Y, D) ==
  \E d \in X : \E p \in Of(k, C, d) :
    /\ Other(k, p) \/ Emptied(k, p)
    /\ Graph(h, Y, D, {}) = Graph(k, X, C, {p})
Chmods(k, X, C, h, Y, D) ==
  \E d \in X : \E p \in Of(k, C, d) : \E e \in Entries, perm \in Perms :
    /\ e.name = At(k, p).name /\ What(e) = [What(At(k, p)) EXCEPT !.perm = perm]
    /\ Graph(h, Y, D, {}) = Graph(k, X, C, {p}) \cup {Row(d, e)}
Turns(k, X, C, h, Y, D, some) ==
  \/ Graph(h, Y, D, {}) = Graph(k, X, C, {})
  \/ Adds(k, X, C, h, Y, D, some)
  \/ Drops(k, X, C, h, Y, D)
  \/ Chmods(k, X, C, h, Y, D)

(* A step from directories X with chains C keeps the invariant.            *)
Goes(X, C) ==
  /\ fault' \in BOOLEAN /\ onto' = onto /\ (fault' => pending' = NoPending)
  /\ \E Y, D, E : /\ Tidy(disk', Y, D, E, leaked', pending', onto)
                  /\ Turns(disk, X, C, disk', Y, D, onto)

(* One lemma for each operation: mknod                                      *)
LEMMA MknodGoes ==
  ASSUME NEW X, NEW C, Tidy(disk, X, C, {}, leaked, NoPending, onto), fault \in BOOLEAN,
         NEW d \in X, NEW name \in NameSet, NEW perm \in Perms, Mknod(d, name, perm)
  PROVE  Goes(X, C)
<1> DEFINE e == Entry(name, "file", perm, FAT_NULL, 0)
<1>1. /\ e \in Entries /\ e.name = name /\ e.kind = "file" /\ e.start = FAT_NULL
  <2>1. FAT_NULL \in Blocks /\ 0 \in 0..MaxBlocks
    BY FatFsAssumption DEF Blocks, FAT_NULL
  <2> QED
    BY <2>1 DEF Entries, Entry, Sources, Kinds
<1>2. /\ ~Found(disk, d, name) /\ pending' = NoPending /\ onto' = onto /\ ~fault
      /\ Enter(disk, d, e, make_file(disk, d, e)) /\ Room(d, 0)
  BY DEF Mknod, Idle
<1>3. Layout(disk)
  BY DEF Tidy, Shape
<1> HIDE DEF e
<1>4. CASE disk' = disk /\ leaked' = leaked
  BY <1>2, <1>4, ZenonT(30) DEF Goes, Turns, Enter
<1>5. ASSUME disk' = make_file(disk, d, e), leaked' = leaked, fault' = fault PROVE Goes(X, C)
  <2>1. PICK D : /\ Tidy(make_file(disk, d, e), X, D, {}, leaked, NoPending, onto)
                 /\ Graph(make_file(disk, d, e), X, D, {}) = Graph(disk, X, C, {}) \cup {Row(d, e)}
    BY <1>1, <1>2, <1>3, Roomy, FileMade
  <2>2. Adds(disk, X, C, disk', X, D, onto)
    BY <1>1, <1>2, <1>5, <2>1 DEF Adds, Novel
  <2> QED
    BY <1>2, <1>5, <2>1, <2>2 DEF Goes, Turns
<1>6. CASE e.name \in LongNames
  BY <1>2, <1>4, <1>6 DEF Enter
<1>7. CASE e.name \notin LongNames
  BY <1>2, <1>4, <1>5, <1>7 DEF Enter
<1> QED
  BY <1>6, <1>7

(* An operation that fails before it writes changes nothing.                *)
LEMMA Stays ==
  ASSUME NEW X, NEW C, Tidy(disk, X, C, {}, leaked, NoPending, onto),
         disk' = disk, leaked' = leaked, pending' = NoPending, onto' = onto, fault' \in BOOLEAN
  PROVE  Goes(X, C)
<1>1. Tidy(disk', X, C, {}, leaked', pending', onto) /\ Turns(disk, X, C, disk', X, C, onto)
  BY DEF Turns
<1> QED
  BY <1>1 DEF Goes

(* An operation that fails after it has taken a block loses the block.      *)
LEMMA Wasted ==
  ASSUME NEW X, NEW C, NEW d, NEW k, NEW b, Spares(disk, k, b, X, C, leaked, onto, d),
         b \notin disk.used, disk' = k, leaked' = leaked \cup (k.used \ disk.used),
         pending' = NoPending, onto' = onto, fault' \in BOOLEAN
  PROVE  Goes(X, C)
<1>1. leaked' = leaked \cup {b}
  BY DEF Spares
<1>2. Tidy(disk', X, C, {}, leaked', pending', onto) /\ Turns(disk, X, C, disk', X, C, onto)
  BY <1>1 DEF Turns, Spares
<1> QED
  BY <1>2 DEF Goes

(* symlink                                                                  *)
LEMMA SymlinkGoes ==
  ASSUME NEW X, NEW C, Tidy(disk, X, C, {}, leaked, NoPending, onto), fault \in BOOLEAN,
         NEW d \in X, NEW name \in NameSet, Symlink(d, name)
  PROVE  Goes(X, C)
<1> DEFINE b == NewBlock(disk)
           k == alloc_block(disk)
           e == Entry(name, "link", LinkPerm, b, 1)
<1>1. /\ ~Found(disk, d, name) /\ pending' = NoPending /\ onto' = onto /\ ~fault
      /\ Enter(k, d, e, make_file(k, d, e)) /\ Room(d, 1)
  BY DEF Symlink, Idle
<1>2. Layout(disk) /\ RootDir \in disk.used
  <2>1. Layout(disk) /\ disk \in Disks /\ Own(disk, X, C) /\ RootDir \in X
    BY DEF Tidy, Shape, Layout, Own
  <2> QED
    BY <2>1, Owners
<1>3. b \in Blocks \ disk.used
  BY <1>1, <1>2, Roomier
<1>4. Spares(disk, k, b, X, C, leaked, onto, d)
  BY <1>3, Prepared
<1>5. /\ e \in Entries /\ e.name = name /\ e.kind = "link" /\ e.start = b
  <2>1. 1 \in 0..MaxBlocks /\ LinkPerm \in Perms
    BY FatFsAssumption
  <2> QED
    BY <1>3, <2>1 DEF Entries, Entry, Sources, Kinds
<1>6. Layout(k) /\ k.used = disk.used \cup {b}
  BY <1>4 DEF Spares, Shape
<1>7. Space(k, d) = {} => NewBlock(k) \in Blocks \ k.used
  <2>1. Space(k, d) = {} => Space(disk, d) = {}
    BY <1>4 DEF Spares
  <2> QED
    BY <1>1, <1>2, <1>6, <2>1, Roomier
<1> HIDE DEF e, k, b
<1>8. ASSUME disk' = make_file(k, d, e), leaked' = leaked, fault' = fault PROVE Goes(X, C)
  <2>1. ~Found(k, d, e.name)
    BY <1>1, <1>4, <1>5 DEF Spares
  <2>2. /\ Tidy(k, X, C, {}, leaked \cup {b}, NoPending, onto) /\ Shape(k, X, C, {}, leaked)
        /\ b \notin leaked /\ Loose(k, X, C, b) /\ \A p \in Live(k) : At(k, p).start # b
        /\ Graph(k, X, C, {}) = Graph(disk, X, C, {})
        /\ Live(k) = Live(disk) /\ \A p \in Live(disk) : At(k, p) = At(disk, p)
    BY <1>4 DEF Spares
  <2>3. PICK D : /\ Tidy(make_file(k, d, e), X, D, {}, leaked, NoPending, onto)
                 /\ Graph(make_file(k, d, e), X, D, {}) = Graph(k, X, C, {}) \cup {Row(d, e)}
    BY <1>5, <1>7, <2>1, <2>2, LinkMade
  <2>4. Novel(disk, e)
    BY <1>2, <1>3, <1>5, <2>2 DEF Novel
  <2>5. Adds(disk, X, C, disk', X, D, onto)
    BY <1>1, <1>5, <1>8, <2>2, <2>3, <2>4 DEF Adds
  <2> QED
    BY <1>1, <1>8, <2>3, <2>5 DEF Goes, Turns
<1>9. CASE e.name \in LongNames
  BY <1>1, <1>3, <1>4, <1>9, Wasted DEF Enter
<1>10. CASE e.name \notin LongNames
  BY <1>1, <1>8, <1>10, Stays DEF Enter
<1> QED
  BY <1>9, <1>10

(* mkdir                                                                    *)
LEMMA MkdirGoes ==
  ASSUME NEW X, NEW C, Tidy(disk, X, C, {}, leaked, NoPending, onto), fault \in BOOLEAN,
         NEW d \in X, NEW name \in NameSet, NEW perm \in Perms, Mkdir(d, name, perm)
  PROVE  Goes(X, C)
<1> DEFINE b == NewBlock(disk)
           k == alloc_block(disk)
           e == Entry(name, "dir", perm, b, 1)
           made == init_dir(make_file(k, d, e), d, name)
<1>1. /\ ~Found(disk, d, name) /\ pending' = NoPending /\ onto' = onto /\ ~fault
      /\ Enter(k, d, e, made) /\ Room(d, 1)
  BY DEF Mkdir, Idle
<1>2. Layout(disk) /\ RootDir \in disk.used
  <2>1. Layout(disk) /\ disk \in Disks /\ Own(disk, X, C) /\ RootDir \in X
    BY DEF Tidy, Shape, Layout, Own
  <2> QED
    BY <2>1, Owners
<1>3. b \in Blocks \ disk.used
  BY <1>1, <1>2, Roomier
<1>4. Spares(disk, k, b, X, C, leaked, onto, d)
  BY <1>3, Prepared
<1>5. /\ e \in Entries /\ e.name = name /\ e.kind = "dir" /\ e.start = b /\ e.size = 1
  <2>1. 1 \in 0..MaxBlocks
    BY FatFsAssumption
  <2> QED
    BY <1>3, <2>1 DEF Entries, Entry, Sources, Kinds
<1>6. Layout(k) /\ k.used = disk.used \cup {b}
  BY <1>4 DEF Spares, Shape
<1>7. Space(k, d) = {} => NewBlock(k) \in Blocks \ k.used
  <2>1. Space(k, d) = {} => Space(disk, d) = {}
    BY <1>4 DEF Spares
  <2> QED
    BY <1>1, <1>2, <1>6, <2>1, Roomier
<1>8. made = init_dir(make_file(k, d, e), d, e.name)
  BY <1>5
<1> HIDE DEF e, k, b, made
<1>9. ASSUME disk' = made, leaked' = leaked, fault' = fault PROVE Goes(X, C)
  <2>1. ~Found(k, d, e.name)
    BY <1>1, <1>4, <1>5 DEF Spares
  <2>2. /\ Tidy(k, X, C, {}, leaked \cup {b}, NoPending, onto) /\ Shape(k, X, C, {}, leaked)
        /\ b \notin leaked /\ Loose(k, X, C, b) /\ \A p \in Live(k) : At(k, p).start # b
        /\ Graph(k, X, C, {}) = Graph(disk, X, C, {})
        /\ Live(k) = Live(disk) /\ \A p \in Live(disk) : At(k, p) = At(disk, p)
    BY <1>4 DEF Spares
  <2>3. PICK Y, D :
          /\ Tidy(init_dir(make_file(k, d, e), d, e.name), Y, D, {}, leaked, NoPending, onto)
          /\ Graph(init_dir(make_file(k, d, e), d, e.name), Y, D, {})
               = Graph(k, X, C, {}) \cup {Row(d, e)}
    BY <1>5, <1>7, <2>1, <2>2, DirMade
  <2>4. Novel(disk, e)
    BY <1>2, <1>3, <1>5, <2>2 DEF Novel
  <2>5. Adds(disk, X, C, disk', Y, D, onto)
    BY <1>1, <1>5, <1>8, <1>9, <2>2, <2>3, <2>4 DEF Adds
  <2> QED
    BY <1>1, <1>8, <1>9, <2>3, <2>5 DEF Goes, Turns
<1>10. CASE e.name \in LongNames
  BY <1>1, <1>3, <1>4, <1>10, Wasted DEF Enter
<1>11. CASE e.name \notin LongNames
  BY <1>1, <1>9, <1>11, Stays DEF Enter
<1> QED
  BY <1>10, <1>11

(* rename, which is make_file and then the deletion of the old entry        *)
LEMMA RenameGoes ==
  ASSUME NEW X, NEW C, Tidy(disk, X, C, {}, leaked, NoPending, onto), fault \in BOOLEAN,
         NEW d \in X, NEW name \in NameSet, NEW d2 \in X, NEW name2 \in NameSet,
         Rename(d, name, d2, name2)
  PROVE  Goes(X, C)
<1> DEFINE p == find_in_dir(disk, d, name)
           e == [At(disk, p) EXCEPT !.name = name2]
<1>1. /\ Room(d2, 0) /\ Found(disk, d, name) /\ onto' = onto /\ ~fault
      /\ Found(disk, d2, name2) => onto /\ Replaceable(d, name, d2, name2)
      /\ At(disk, p).kind = "dir" => d2 \notin Below(disk, At(disk, p).start)
      /\ Enter(disk, d2, e, make_file(disk, d2, e))
      /\ pending' = IF fault' \/ name2 \in LongNames THEN NoPending ELSE <<d, name>>
  BY DEF Rename, Idle
<1>2. <<d, name>> # <<d2, name2>>
  BY <1>1 DEF Replaceable
<1>3. ~onto => ~Found(disk, d2, name2)
  BY <1>1
<1>4. Layout(disk) /\ Own(disk, X, C)
  BY DEF Tidy, Shape
<1>5. p \in Live(disk) /\ At(disk, p) \in Entries
  <2>1. p \in Live(disk)
    BY <1>1, <1>4, NamedIs DEF Of
  <2>2. p[1] \in Blocks /\ p[2] \in 1..Len(disk.dir[p[1]])
    BY <1>4, <2>1, Alive, AlivePair
  <2> QED
    BY <1>4, <2>1, <2>2, Lists DEF At
<1>6. /\ e \in Entries /\ e.name = name2 /\ What(e) = What(At(disk, p))
  BY <1>5 DEF Entries, Sources, What
<1>7. Space(disk, d2) = {} => NewBlock(disk) \in Blocks \ disk.used
  BY <1>1, <1>4, Roomy
<1>8. p = find_in_dir(disk, d, name) /\ e = [At(disk, p) EXCEPT !.name = name2]
  OBVIOUS
<1> HIDE DEF p, e
<1>9. ASSUME disk' = make_file(disk, d2, e), leaked' = leaked, fault' = fault,
             name2 \notin LongNames
      PROVE  Goes(X, C)
  <2>1. PICK D :
          /\ Tidy(make_file(disk, d2, e), X, D, {p}, leaked, <<d, name>>, onto)
          /\ Graph(make_file(disk, d2, e), X, D, {}) = Graph(disk, X, C, {}) \cup {Row(d2, e)}
    BY <1>1, <1>2, <1>3, <1>7, <1>8, Renamed
  <2>2. Adds(disk, X, C, disk', X, D, onto)
    BY <1>3, <1>5, <1>6, <1>9, <2>1 DEF Adds, Novel
  <2>3. pending' = <<d, name>> /\ fault' = FALSE
    BY <1>1, <1>9
  <2> QED
    BY <1>1, <1>9, <2>1, <2>2, <2>3 DEF Goes, Turns
<1>10. CASE e.name \in LongNames
  <2>1. disk.used \ disk.used = {} /\ leaked \cup {} = leaked
    OBVIOUS
  <2>2. disk' = disk /\ leaked' = leaked /\ fault' = fault /\ pending' = NoPending
    BY <1>1, <1>6, <1>10, <2>1 DEF Enter
  <2> QED
    BY <1>1, <2>2, Stays
<1>11. CASE e.name \notin LongNames
  <2>1. CASE fault' = TRUE /\ disk' = disk /\ leaked' = leaked
    <3>1. pending' = NoPending
      BY <1>1, <2>1
    <3> QED
      BY <1>1, <2>1, <3>1, Stays
  <2> QED
    BY <1>1, <1>6, <1>9, <1>11, <2>1 DEF Enter
<1> QED
  BY <1>10, <1>11

(* chmod                                                                    *)
LEMMA ChmodGoes ==
  ASSUME NEW X, NEW C, Tidy(disk, X, C, {}, leaked, NoPending, onto), fault \in BOOLEAN,
         NEW d \in X, NEW name \in NameSet, NEW perm \in Perms, Chmod(d, name, perm)
  PROVE  Goes(X, C)
<1> DEFINE p == find_in_dir(disk, d, name)
           h == [disk EXCEPT !.dir[p[1]][p[2]].perm = perm]
<1>1. /\ Found(disk, d, name) /\ disk' = h /\ pending' = NoPending
      /\ leaked' = leaked /\ onto' = onto /\ fault' = fault /\ ~fault
  BY DEF Chmod, Idle
<1>2. PICK f : f = h
  OBVIOUS
<1>3. /\ Tidy(f, X, C, {}, leaked, NoPending, onto)
      /\ p \in Of(f, C, d) /\ p \in Of(disk, C, d)
      /\ At(f, p).name = name /\ At(disk, p).name = name
      /\ What(At(f, p)) = [What(At(disk, p)) EXCEPT !.perm = perm]
      /\ Graph(f, X, C, {p}) = Graph(disk, X, C, {p})
  BY <1>1, <1>2, Chmoded, SMTT(30)
<1>4. disk' = f
  BY <1>1, <1>2
<1> HIDE DEF h, p
<1>5. At(f, p) \in Entries
  <2>1. Layout(f) /\ p \in Live(f)
    BY <1>3 DEF Tidy, Shape, Of
  <2>2. p[1] \in Blocks /\ p[2] \in 1..Len(f.dir[p[1]])
    BY <2>1, Alive, AlivePair
  <2> QED
    BY <2>1, <2>2, Lists DEF At
<1>6. Graph(f, X, C, {}) = Graph(f, X, C, {p}) \cup {Row(d, At(f, p))}
  <2> DEFINE rows(x, E) == {Row(x, At(f, q)) : q \in Of(f, C, x) \ E}
  <2>1. \A x \in X : p \in Of(f, C, x) => x = d
    <3> SUFFICES ASSUME NEW x \in X, p \in Of(f, C, x) PROVE x = d
      OBVIOUS
    <3>1. Layout(f) /\ f \in Disks /\ Own(f, X, C)
      BY <1>3 DEF Tidy, Shape, Layout
    <3>2. p[1] \in ToSet(C[x]) /\ p[1] \in ToSet(C[d])
      BY <1>3 DEF Of
    <3>3. C[x] \in Seq(Blocks) /\ C[d] \in Seq(Blocks)
      BY <3>1, Owners
    <3>4. PICK i \in 1..Len(C[x]) : C[x][i] = p[1]
      BY <3>2, <3>3, Members
    <3>5. PICK j \in 1..Len(C[d]) : C[d][j] = p[1]
      BY <3>2, <3>3, Members
    <3> QED
      BY <3>1, <3>4, <3>5 DEF Own
  <2>2. \A x \in X : rows(x, {}) = rows(x, {p}) \cup (IF x = d THEN {Row(d, At(f, p))} ELSE {})
    BY <1>3, <2>1
  <2>3. Graph(f, X, C, {}) = UNION {rows(x, {}) : x \in X}
        /\ Graph(f, X, C, {p}) = UNION {rows(x, {p}) : x \in X}
    BY DEF Graph
  <2> HIDE DEF rows
  <2>4. \A r : r \in Graph(f, X, C, {}) <=> \E x \in X : r \in rows(x, {})
    BY <2>3
  <2>5. \A r : r \in Graph(f, X, C, {p}) <=> \E x \in X : r \in rows(x, {p})
    BY <2>3
  <2>6. ASSUME NEW r
        PROVE  r \in Graph(f, X, C, {}) <=> r \in Graph(f, X, C, {p}) \/ r = Row(d, At(f, p))
    <3>1. \A x \in X : r \in rows(x, {}) <=>
                         r \in rows(x, {p}) \/ (x = d /\ r = Row(d, At(f, p)))
      BY <2>2
    <3>2. (\E x \in X : r \in rows(x, {})) <=>
            (\E x \in X : r \in rows(x, {p})) \/ r = Row(d, At(f, p))
      BY <3>1, Zenon
    <3> QED
      BY <2>4, <2>5, <3>2, Zenon
  <2> QED
    BY <2>6
<1>7. Chmods(disk, X, C, f, X, C)
  BY <1>3, <1>5, <1>6 DEF Chmods
<1> QED
  BY <1>1, <1>3, <1>4, <1>7 DEF Goes, Turns

(* unlink and rmdir, up to the deletion of the entry                        *)
LEMMA UnlinkGoes ==
  ASSUME NEW X, NEW C, Tidy(disk, X, C, {}, leaked, NoPending, onto), fault \in BOOLEAN,
         NEW d \in X, NEW name \in NameSet, Unlink(d, name)
  PROVE  Goes(X, C)
<1> DEFINE p == find_in_dir(disk, d, name)
<1>1. /\ Found(disk, d, name)
      /\ At(disk, p).kind = "dir" => Empty(disk, At(disk, p).start)
      /\ disk' = free_blocks(disk, At(disk, p).start) /\ pending' = <<d, name>>
      /\ leaked' = leaked /\ onto' = onto /\ fault' = fault /\ ~fault
  BY DEF Unlink, Idle
<1>2. p = find_in_dir(disk, d, name)
  OBVIOUS
<1> HIDE DEF p
<1>3. PICK Y, D :
        /\ Tidy(free_blocks(disk, At(disk, p).start), Y, D, {p}, leaked, <<d, name>>, onto)
        /\ Graph(free_blocks(disk, At(disk, p).start), Y, D, {}) = Graph(disk, X, C, {})
  BY <1>1, <1>2, Unlinked
<1>4. Tidy(disk', Y, D, {p}, leaked', pending', onto) /\ Turns(disk, X, C, disk', Y, D, onto)
  BY <1>1, <1>3 DEF Turns
<1> QED
  BY <1>1, <1>4 DEF Goes

(* the deletion of the entry                                                *)
LEMMA DeleteGoes ==
  ASSUME NEW X, NEW C, NEW E, Tidy(disk, X, C, E, leaked, pending, onto), fault \in BOOLEAN,
         DeleteEntry
  PROVE  Goes(X, C)
<1>1. /\ pending # NoPending /\ disk' = delete_de(disk, pending[1], pending[2])
      /\ pending' = NoPending /\ leaked' = leaked /\ onto' = onto /\ fault' = fault /\ ~fault
  BY DEF DeleteEntry
<1>2. PICK d \in X, name \in NameSet : \E p \in Of(disk, C, d) :
         /\ pending = <<d, name>> /\ E = {p}
         /\ Other(disk, p) \/ Emptied(disk, p)
  BY <1>1 DEF Tidy, Waits
<1>3. pending = <<d, name>> /\ pending[1] = d /\ pending[2] = name
  <2>1. pending = <<d, name>>
    BY <1>2
  <2> QED
    BY <2>1
<1>4. /\ Tidy(disk', X, C, {}, leaked, NoPending, onto)
      /\ Graph(disk', X, C, {}) = Graph(disk, X, C, E)
  BY <1>1, <1>3, Removed
<1>5. Drops(disk, X, C, disk', X, C)
  BY <1>2, <1>4 DEF Drops
<1> QED
  BY <1>1, <1>4, <1>5 DEF Goes, Turns

-----------------------------------------------------------------------------
(* While nothing is pending, the directories are X; then every operation   *)
(* that Next allows is one in a directory of X.                            *)
LEMMA QuietDirs ==
  ASSUME NEW X, NEW C, NEW E, Tidy(disk, X, C, E, leaked, NoPending, onto)
  PROVE  E = {} /\ Dirs(disk) = X
<1>1. E = {}
  BY DEF Tidy, Waits
<1>2. Husks(disk, E) = {}
  BY <1>1 DEF Husks
<1> QED
  BY <1>1, <1>2, DirsAre

(* Every step keeps the disk tidy and changes the graph in one place.       *)
LEMMA NextGoes ==
  ASSUME NEW X, NEW C, NEW E, Tidy(disk, X, C, E, leaked, pending, onto), fault \in BOOLEAN,
         Next
  PROVE  Goes(X, C)
<1>1. CASE DeleteEntry
  BY <1>1, DeleteGoes
<1>2. ASSUME pending = NoPending, NEW d \in Dirs(disk), NEW name \in NameSet,
             \/ Unlink(d, name)
             \/ \E perm \in Given : Chmod(d, name, perm)
             \/ Mknod(d, name, RootPerm)
             \/ Mkdir(d, name, RootPerm)
             \/ Symlink(d, name)
             \/ \E d2 \in Dirs(disk), name2 \in NameSet : Rename(d, name, d2, name2)
      PROVE  Goes(X, C)
  <2>1. Tidy(disk, X, C, {}, leaked, NoPending, onto) /\ Dirs(disk) = X
    BY <1>2, QuietDirs
  <2>2. d \in X /\ RootPerm \in Perms /\ Given \subseteq Perms
    BY <2>1, FatFsAssumption DEF Given
  <2>3. CASE Unlink(d, name)
    BY <2>1, <2>2, <2>3, UnlinkGoes
  <2>4. ASSUME NEW perm \in Given, Chmod(d, name, perm) PROVE Goes(X, C)
    BY <2>1, <2>2, <2>4, ChmodGoes
  <2>5. CASE Mknod(d, name, RootPerm)
    BY <2>1, <2>2, <2>5, MknodGoes
  <2>6. CASE Mkdir(d, name, RootPerm)
    BY <2>1, <2>2, <2>6, MkdirGoes
  <2>7. CASE Symlink(d, name)
    BY <2>1, <2>2, <2>7, SymlinkGoes
  <2>8. ASSUME NEW d2 \in Dirs(disk), NEW name2 \in NameSet, Rename(d, name, d2, name2)
        PROVE  Goes(X, C)
    BY <2>1, <2>2, <2>8, RenameGoes
  <2> QED
    BY <1>2, <2>3, <2>4, <2>5, <2>6, <2>7, <2>8
<1>3. ASSUME ~DeleteEntry
      PROVE  /\ pending = NoPending
             /\ \E d \in Dirs(disk), name \in NameSet :
                  \/ Unlink(d, name)
                  \/ \E perm \in Given : Chmod(d, name, perm)
                  \/ Mknod(d, name, RootPerm)
                  \/ Mkdir(d, name, RootPerm)
                  \/ Symlink(d, name)
                  \/ \E d2 \in Dirs(disk), name2 \in NameSet : Rename(d, name, d2, name2)
  <2>1. \E d \in Dirs(disk), name \in NameSet :
           \/ Unlink(d, name)
           \/ \E perm \in Given : Chmod(d, name, perm)
           \/ Mknod(d, name, RootPerm)
           \/ Mkdir(d, name, RootPerm)
           \/ Symlink(d, name)
           \/ \E d2 \in Dirs(disk), name2 \in NameSet : Rename(d, name, d2, name2)
    BY <1>3, Zenon DEF Next
  <2>2. /\ \A d, name : Unlink(d, name) => Idle
        /\ \A d, name, perm : Chmod(d, name, perm) => Idle
    BY DEF Unlink, Chmod
  <2>3. /\ \A d, name, perm : Mknod(d, name, perm) => Idle
        /\ \A d, name, perm : Mkdir(d, name, perm) => Idle
        /\ \A d, name : Symlink(d, name) => Idle
    BY DEF Mknod, Mkdir, Symlink
  <2>4. \A d, name, d2, name2 : Rename(d, name, d2, name2) => Idle
    BY DEF Rename
  <2>5. Idle
    BY <2>1, <2>2, <2>3, <2>4, Zenon
  <2> QED
    BY <2>1, <2>5 DEF Idle
<1> QED
  BY <1>1, <1>2, <1>3

(* The invariant is inductive.                                              *)
LEMMA Kept ==
  ASSUME DirsInv, [Next]_vars
  PROVE  DirsInv'
<1>1. PICK X, C, E : Tidy(disk, X, C, E, leaked, pending, onto)
  BY DEF DirsInv
<1>2. fault \in BOOLEAN /\ onto \in BOOLEAN /\ (fault => pending = NoPending)
  BY DEF DirsInv
<1>3. CASE Next
  <2>1. Goes(X, C)
    BY <1>1, <1>2, <1>3, NextGoes
  <2>2. fault' \in BOOLEAN /\ onto' = onto /\ (fault' => pending' = NoPending)
    BY <2>1 DEF Goes
  <2>3. \E Y, D, F : Tidy(disk', Y, D, F, leaked', pending', onto)
    BY <2>1 DEF Goes
  <2> QED
    BY <1>2, <2>2, <2>3 DEF DirsInv
<1>4. CASE UNCHANGED vars
  <2>1. disk' = disk /\ pending' = pending /\ fault' = fault /\ leaked' = leaked /\ onto' = onto
    BY <1>4 DEF vars
  <2> QED
    BY <1>1, <1>2, <2>1 DEF DirsInv
<1> QED
  BY <1>3, <1>4

(* It holds in every state that is reached.                                 *)
LEMMA Invariant == Spec => []DirsInv
<1>1. Init => DirsInv
  <2> SUFFICES ASSUME Init PROVE DirsInv
    OBVIOUS
  <2>1. Tidy(disk, {RootDir}, RootChain, {}, leaked, pending, onto)
    BY InitTidy
  <2>2. fault \in BOOLEAN /\ onto \in BOOLEAN /\ pending = NoPending
    BY DEF Init
  <2> QED
    BY <2>1, <2>2 DEF DirsInv
<1>2. DirsInv /\ [Next]_vars => DirsInv'
  BY Kept
<1> QED
  BY <1>1, <1>2, PTL DEF Spec

-----------------------------------------------------------------------------
(* A tidy disk has the types of a disk.                                     *)
LEMMA Typed ==
  ASSUME DirsInv
  PROVE  TypeOK
<1>1. PICK X, C, E : Tidy(disk, X, C, E, leaked, pending, onto)
  BY DEF DirsInv
<1>2. /\ Layout(disk) /\ disk \in Disks /\ X \subseteq Blocks /\ leaked \subseteq disk.used
      /\ Waits(disk, X, C, E, pending)
  BY <1>1 DEF Tidy, Shape, Layout, Own, Lost
<1>3. disk.used \subseteq Blocks /\ disk.fat \in [Blocks -> Blocks]
  BY <1>2 DEF Disks
<1>4. ASSUME NEW b \in Blocks
      PROVE  /\ Len(disk.dir[b]) <= FILES_PER_DIR
             /\ \A i \in DOMAIN disk.dir[b] : disk.dir[b][i] \in Entries
  BY <1>2, Lists
<1>5. pending \in {NoPending} \cup (Blocks \X NameSet)
  BY <1>2 DEF Waits
<1> QED
  BY <1>2, <1>3, <1>4, <1>5 DEF TypeOK, DirsInv, Entries

(* Disks and entries are of their types, and blocks never hold too many.   *)
THEOREM DirsTyped == Spec => []TypeOK
<1>1. DirsInv => TypeOK
  BY Typed
<1> QED
  BY <1>1, Invariant, PTL

(* Entries that users have not named are the first two of their directory. *)
LEMMA Unnamed ==
  ASSUME NEW k, NEW X, NEW C, Layout(k), Own(k, X, C), Dots(k, X, C), NEW x \in X
  PROVE  /\ Places(k, x) = PlacesIn(k, C[x])
         /\ \A p \in Places(k, x) :
              \/ p \in Of(k, C, x)
              \/ p = <<x, 1>> /\ At(k, p).name = "."
              \/ p = <<x, 2>> /\ At(k, p).name = ".."
<1>1. k \in Disks /\ C[x] \in Seq(Blocks) /\ Chain(k, x) = C[x]
  BY Owners DEF Layout
<1>2. Places(k, x) = PlacesIn(k, C[x])
  BY <1>1 DEF Places
<1>3. ASSUME NEW p \in Places(k, x)
      PROVE  \/ p \in Of(k, C, x)
             \/ p = <<x, 1>> /\ At(k, p).name = "."
             \/ p = <<x, 2>> /\ At(k, p).name = ".."
  <2>1. /\ p = <<p[1], p[2]>> /\ p[1] \in ToSet(C[x]) /\ p[1] \in Blocks
        /\ p[2] \in 1..Len(k.dir[p[1]])
    BY <1>1, <1>2, PlacesAre
  <2>2. CASE k.dir[p[1]][p[2]].name \in NameSet
    <3>1. <<p[1], p[2]>> \in Live(k)
      BY <2>1, <2>2, Alive
    <3> QED
      BY <2>1, <3>1 DEF Of
  <2>3. CASE p[1] \in X /\ p[2] \in {1, 2}
    <3>1. p[1] = x
      <4>1. C[p[1]] \in Seq(Blocks) /\ p[1] \in ToSet(C[p[1]])
        BY <1>1, <2>3, Owners
      <4>2. PICK i \in 1..Len(C[x]) : C[x][i] = p[1]
        BY <1>1, <2>1, Members
      <4>3. PICK j \in 1..Len(C[p[1]]) : C[p[1]][j] = p[1]
        BY <4>1, Members
      <4> QED
        BY <2>3, <4>2, <4>3 DEF Own
    <3>2. k.dir[x][1].name = "." /\ k.dir[x][2].name = ".."
      BY DEF Dots
    <3>3. CASE p[2] = 1
      BY <2>1, <3>1, <3>2, <3>3 DEF At
    <3>4. CASE p[2] = 2
      BY <2>1, <3>1, <3>2, <3>4 DEF At
    <3> QED
      BY <2>3, <3>3, <3>4
  <2> QED
    BY <2>1, <2>2, <2>3 DEF Dots
<1> QED
  BY <1>2, <1>3

(* A tidy disk has one entry for a name, unless rename went onto one.       *)
LEMMA OneName ==
  ASSUME DirsInv
  PROVE  NamesUnique
<1>1. PICK X, C, E : Tidy(disk, X, C, E, leaked, pending, onto)
  BY DEF DirsInv
<1>2. /\ Layout(disk) /\ Own(disk, X, C) /\ Dots(disk, X, C)
      /\ (~onto => Unique(disk, X, C))
  BY <1>1 DEF Tidy, Shape
<1> SUFFICES ASSUME ~onto, NEW d \in Dirs(disk), NEW p \in Places(disk, d), NEW q \in Places(disk, d),
                    At(disk, p).name = At(disk, q).name
             PROVE  p = q
  BY DEF NamesUnique
<1>3. d \in X \cup Husks(disk, E)
  BY <1>1, DirsAre
<1>4. d \in X
  BY <1>3, HuskIsBare
<1>5. \A r \in Of(disk, C, d) : At(disk, r).name \in NameSet
  BY DEF Of, Live
<1>6. "." \notin NameSet /\ ".." \notin NameSet
  BY FatFsAssumption
<1>7. \A r \in {p, q} :
        \/ r \in Of(disk, C, d)
        \/ r = <<d, 1>> /\ At(disk, r).name = "."
        \/ r = <<d, 2>> /\ At(disk, r).name = ".."
  BY <1>2, <1>4, Unnamed
<1>8. CASE p \in Of(disk, C, d)
  <2>1. q \in Of(disk, C, d)
    BY <1>5, <1>6, <1>7, <1>8
  <2> QED
    BY <1>2, <1>4, <1>8, <2>1 DEF Unique
<1>9. CASE p = <<d, 1>> /\ At(disk, p).name = "."
  BY <1>5, <1>6, <1>7, <1>9
<1>10. CASE p = <<d, 2>> /\ At(disk, p).name = ".."
  BY <1>5, <1>6, <1>7, <1>10
<1> QED
  BY <1>7, <1>8, <1>9, <1>10

(* Packing entries and moving the last one into a gap never gives a name   *)
(* to two entries of a directory.                                          *)
THEOREM NamesStayUnique == Spec => []NamesUnique
<1>1. DirsInv => NamesUnique
  BY OneName
<1> QED
  BY <1>1, Invariant, PTL

(* A tidy disk has "." and ".." at the head of each directory.              *)
LEMMA Dotted ==
  ASSUME DirsInv
  PROVE  DotsStayFirst
<1>1. PICK X, C, E : Tidy(disk, X, C, E, leaked, pending, onto)
  BY DEF DirsInv
<1>2. /\ Layout(disk) /\ disk \in Disks /\ Own(disk, X, C) /\ Dots(disk, X, C)
  BY <1>1 DEF Tidy, Shape, Layout
<1> SUFFICES ASSUME Quiet, NEW d \in Dirs(disk)
             PROVE  /\ Len(disk.dir[d]) >= 2
                    /\ disk.dir[d][1].name = "." /\ disk.dir[d][2].name = ".."
                    /\ disk.dir[d][1].start = d
                    /\ disk.dir[d][1].size = Len(Chain(disk, d))
  BY DEF DotsStayFirst
<1>3. d \in X
  <2>1. pending = NoPending
    BY DEF Quiet
  <2>2. Dirs(disk) = X
    BY <1>1, <2>1, QuietDirs
  <2> QED
    BY <2>2
<1>4. Chain(disk, d) = C[d]
  BY <1>2, <1>3, Owners
<1> QED
  BY <1>2, <1>3, <1>4 DEF Dots

(* "." and ".." stay where modify_dir_size and rmdir look for them, and    *)
(* the size of a directory is that of its chain.                           *)
THEOREM DotsStay == Spec => []DotsStayFirst
<1>1. DirsInv => DotsStayFirst
  BY Dotted
<1> QED
  BY <1>1, Invariant, PTL

-----------------------------------------------------------------------------
(* All named entries.                                                      *)
LEMMA AllNamedAre ==
  ASSUME NEW X, NEW C, NEW E, NEW L, NEW wait, NEW some, Tidy(disk, X, C, E, L, wait, some)
  PROVE  AllNamed(disk) = Live(disk)
<1>1. Layout(disk) /\ disk \in Disks /\ Own(disk, X, C) /\ Dots(disk, X, C)
  BY DEF Tidy, Shape, Layout
<1>2. X \subseteq Dirs(disk) /\ Dirs(disk) \subseteq X \cup Husks(disk, E)
  BY DirsAre
<1>3. \A d \in X : Named(disk, d) = Of(disk, C, d)
  BY <1>1, NamedIs
<1>4. \A d \in Husks(disk, E) : Named(disk, d) = {}
  BY HuskIsBare
<1>5. ASSUME NEW p \in AllNamed(disk) PROVE p \in Live(disk)
  <2>1. PICK d \in Dirs(disk) : p \in Named(disk, d)
    BY DEF AllNamed
  <2>2. d \in X
    BY <1>2, <1>4, <2>1
  <2> QED
    BY <1>3, <2>1, <2>2 DEF Of
<1>6. ASSUME NEW p \in Live(disk) PROVE p \in AllNamed(disk)
  <2>1. p[1] \in Blocks /\ p[2] \in 1..Len(disk.dir[p[1]])
    BY <1>1, Alive, AlivePair
  <2>2. disk.dir[p[1]] # <<>>
    BY <1>1, <2>1, Lists
  <2>3. PICK d \in X : p[1] \in ToSet(C[d])
    BY <1>1, <2>1, <2>2 DEF Dots, Holds
  <2>4. p \in Named(disk, d)
    BY <1>3, <2>3 DEF Of
  <2> QED
    BY <1>2, <2>3, <2>4 DEF AllNamed
<1> QED
  BY <1>5, <1>6

(* The block of a link is a chain of its own.                               *)
LEMMA LooseChain ==
  ASSUME NEW k \in Disks, NEW X, NEW C, NEW b, Loose(k, X, C, b)
  PROVE  Chain(k, b) = <<b>> /\ ToSet(<<b>>) = {b}
<1>1. b \in Blocks \ {FAT_NULL} /\ k.fat[b] = FAT_NULL
  BY DEF Loose, Disks, FAT_NULL
<1>2. /\ <<b>> \in Seq(Blocks \ {FAT_NULL}) /\ Len(<<b>>) = 1 /\ <<b>>[1] = b /\ <<b>> # <<>>
  BY <1>1
<1> DEFINE s == <<b>>
<1>3. Linked(k, s)
  <2>1. 1..(Len(s) - 1) = {}
    BY <1>2
  <2> QED
    BY <1>1, <1>2, <2>1 DEF Linked
<1>4. Distinct(s)
  BY <1>2 DEF Distinct
<1>5. Chain(k, s[1]) = s
  BY <1>2, <1>3, <1>4, ChainIs
<1> QED
  BY <1>2, <1>5 DEF ToSet

(* A chain is that of a directory, or the block of a link, or left over    *)
(* from what was freed while its entry is about to be deleted.             *)
Tree(X, C, E, c) ==
  \/ \E x \in X : c = C[x]
  \/ \E p \in Live(disk) \ E : /\ c = <<At(disk, p).start>>
                               /\ Loose(disk, X, C, At(disk, p).start)
                               /\ At(disk, p).start \notin leaked
  \/ \E p \in E : c = Chain(disk, At(disk, p).start) /\ Emptied(disk, p)
LEMMA TreesAre ==
  ASSUME NEW X, NEW C, NEW E, Tidy(disk, X, C, E, leaked, pending, onto), NEW c \in Trees
  PROVE  Tree(X, C, E, c)
<1>1. /\ Layout(disk) /\ disk \in Disks /\ Own(disk, X, C) /\ Dots(disk, X, C)
      /\ Waits(disk, X, C, E, pending) /\ Leads(disk, X, C, E, leaked)
  BY DEF Tidy, Shape, Layout
<1>2. CASE \E d \in Dirs(disk) : c = Chain(disk, d)
  <2>1. PICK d \in X \cup Husks(disk, E) : c = Chain(disk, d)
    BY <1>2, DirsAre
  <2>2. CASE d \in X
    BY <1>1, <2>1, <2>2, Owners DEF Tree
  <2>3. CASE d \in Husks(disk, E)
    BY <2>1, <2>3 DEF Tree, Husks
  <2> QED
    BY <2>2, <2>3
<1>3. CASE \E p \in AllNamed(disk) : At(disk, p).kind = "link" /\ c = Chain(disk, At(disk, p).start)
  <2>1. PICK p \in Live(disk) : At(disk, p).kind = "link" /\ c = Chain(disk, At(disk, p).start)
    BY <1>3, AllNamedAre
  <2>2. ASSUME NEW q \in Live(disk) \ E, At(disk, q).kind = "link",
               At(disk, q).start = At(disk, p).start
        PROVE  Tree(X, C, E, c)
    <3>1. Loose(disk, X, C, At(disk, q).start) /\ At(disk, q).start \notin leaked
      BY <1>1, <2>2 DEF Leads, LeadsTo
    <3>2. c = <<At(disk, q).start>>
      BY <1>1, <2>1, <2>2, <3>1, LooseChain
    <3> QED
      BY <3>1, <3>2 DEF Tree
  <2>3. CASE p \notin E
    BY <2>1, <2>2, <2>3
  <2>4. CASE p \in E
    <3>1. E = {p} /\ (Other(disk, p) \/ Emptied(disk, p))
      BY <1>1, <2>4 DEF Waits
    <3>2. CASE Emptied(disk, p)
      BY <2>1, <2>4, <3>2 DEF Tree
    <3>3. CASE Other(disk, p)
      <4>1. PICK q \in Live(disk) \ {p} : At(disk, q).kind = At(disk, p).kind
                                          /\ At(disk, q).start = At(disk, p).start
        BY <3>3 DEF Other
      <4> QED
        BY <2>1, <2>2, <3>1, <4>1
    <3> QED
      BY <3>1, <3>2, <3>3
  <2> QED
    BY <2>3, <2>4
<1> QED
  BY <1>2, <1>3 DEF Trees

(* On a tidy disk each block in use is leaked or found from the root.       *)
LEMMA InUse ==
  ASSUME DirsInv
  PROVE  BlocksNamed
<1>1. PICK X, C, E : Tidy(disk, X, C, E, leaked, pending, onto)
  BY DEF DirsInv
<1>2. /\ Layout(disk) /\ disk \in Disks /\ Own(disk, X, C) /\ Dots(disk, X, C)
      /\ Waits(disk, X, C, E, pending) /\ Leads(disk, X, C, E, leaked)
      /\ Lost(disk, X, C, leaked) /\ Covers(disk, X, C, E, leaked)
      /\ {0, 1} \subseteq disk.used
  BY <1>1 DEF Tidy, Shape, Layout
<1> DEFINE named == UNION {ToSet(c) : c \in Trees}
<1>3. ASSUME NEW x \in X PROVE C[x] \in Trees /\ ToSet(C[x]) \subseteq disk.used
  <2>1. x \in Dirs(disk)
    BY <1>1, DirsAre
  <2>2. Chain(disk, x) = C[x] /\ ToSet(C[x]) \subseteq disk.used
    BY <1>2, Owners
  <2> QED
    BY <2>1, <2>2 DEF Trees
<1>4. ASSUME NEW p \in Live(disk), At(disk, p).kind = "link"
      PROVE  Chain(disk, At(disk, p).start) \in Trees
  <2>1. p \in AllNamed(disk)
    BY <1>1, AllNamedAre
  <2> QED
    BY <1>4, <2>1 DEF Trees
<1>5. ASSUME NEW b \in disk.used PROVE b \in {0, 1} \cup named \cup leaked
  <2>1. ASSUME NEW x \in X, b \in ToSet(C[x]) PROVE b \in named
    BY <1>3, <2>1
  <2>2. ASSUME NEW p \in Live(disk) \ E, At(disk, p).kind = "link", At(disk, p).start = b
        PROVE  b \in named
    <3>1. Loose(disk, X, C, b)
      BY <1>2, <2>2 DEF Leads, LeadsTo
    <3>2. Chain(disk, b) = <<b>> /\ ToSet(<<b>>) = {b}
      BY <1>2, <3>1, LooseChain
    <3>3. <<b>> \in Trees
      BY <1>4, <2>2, <3>2
    <3> QED
      BY <3>2, <3>3
  <2> HIDE DEF named
  <2>3. b \in {0, 1} \/ b \in leaked \/ Holds(X, C, b) \/ Linking(disk, E, b)
    BY <1>2 DEF Covers
  <2> QED
    BY <2>1, <2>2, <2>3 DEF Holds, Linking
<1>6. ASSUME NEW c \in Trees, NEW b \in ToSet(c)
      PROVE  /\ b \notin leaked
             /\ b \in disk.used \/ \E p \in E : c = Chain(disk, At(disk, p).start) /\ b \notin disk.used
  <2>1. Tree(X, C, E, c)
    BY <1>1, TreesAre
  <2>2. ASSUME NEW x \in X, c = C[x] PROVE b \notin leaked /\ b \in disk.used
    BY <1>2, <1>3, <1>6, <2>2 DEF Lost, Holds
  <2>3. ASSUME NEW s, c = <<s>>, Loose(disk, X, C, s), s \notin leaked
        PROVE  b \notin leaked /\ b \in disk.used
    <3>1. b = s
      BY <1>2, <1>6, <2>3, LooseChain
    <3> QED
      BY <2>3, <3>1 DEF Loose
  <2>4. ASSUME NEW p \in E, c = Chain(disk, At(disk, p).start), Emptied(disk, p)
        PROVE  b \notin leaked /\ b \notin disk.used
    <3>1. b \notin disk.used
      BY <1>6, <2>4 DEF Emptied
    <3> QED
      BY <1>2, <3>1 DEF Lost
  <2> QED
    BY <2>1, <2>2, <2>3, <2>4 DEF Tree
<1>7. ASSUME NEW c \in Trees, NEW e \in Trees, NEW b, b \in ToSet(c), b \in ToSet(e)
      PROVE  c = e
  <2>1. Tree(X, C, E, c) /\ Tree(X, C, E, e)
    BY <1>1, TreesAre
  <2>2. ASSUME NEW x \in X, NEW y \in X, b \in ToSet(C[x]), b \in ToSet(C[y]) PROVE x = y
    <3>1. C[x] \in Seq(Blocks) /\ C[y] \in Seq(Blocks)
      BY <1>2, Owners
    <3>2. PICK i \in 1..Len(C[x]) : C[x][i] = b
      BY <2>2, <3>1, Members
    <3>3. PICK j \in 1..Len(C[y]) : C[y][j] = b
      BY <2>2, <3>1, Members
    <3> QED
      BY <1>2, <3>2, <3>3 DEF Own
  <2>3. ASSUME NEW s, Loose(disk, X, C, s), b \in ToSet(<<s>>) PROVE s = b /\ ~Holds(X, C, b)
    <3>1. ToSet(<<s>>) = {s}
      BY <1>2, <2>3, LooseChain
    <3> QED
      BY <2>3, <3>1 DEF Loose
  <2>4. ASSUME NEW d \in Trees, b \in ToSet(d), b \in disk.used
        PROVE  (\E x \in X : d = C[x]) \/ (d = <<b>> /\ ~Holds(X, C, b))
    <3>1. Tree(X, C, E, d)
      BY <1>1, TreesAre
    <3>2. ASSUME NEW p \in E, d = Chain(disk, At(disk, p).start), Emptied(disk, p) PROVE FALSE
      BY <2>4, <3>2 DEF Emptied
    <3> QED
      BY <2>3, <2>4, <3>1, <3>2 DEF Tree
  <2>5. CASE b \in disk.used
    <3>1. /\ (\E x \in X : c = C[x]) \/ (c = <<b>> /\ ~Holds(X, C, b))
          /\ (\E x \in X : e = C[x]) \/ (e = <<b>> /\ ~Holds(X, C, b))
      BY <1>7, <2>4, <2>5
    <3> QED
      BY <1>7, <2>2, <3>1 DEF Holds
  <2>6. CASE b \notin disk.used
    <3>1. PICK p \in E : c = Chain(disk, At(disk, p).start)
      BY <1>6, <1>7, <2>6
    <3>2. PICK q \in E : e = Chain(disk, At(disk, q).start)
      BY <1>6, <1>7, <2>6
    <3>3. p = q
      BY <1>2 DEF Waits
    <3> QED
      BY <3>1, <3>2, <3>3
  <2> QED
    BY <2>5, <2>6
<1>8. ASSUME Quiet PROVE named \cup leaked \subseteq disk.used
  <2>1. E = {}
    BY <1>2, <1>8 DEF Quiet, Waits
  <2>2. \A c \in Trees : ToSet(c) \subseteq disk.used
    BY <1>6, <2>1
  <2> QED
    BY <1>2, <2>2 DEF Lost
<1>9. named \cap leaked = {}
  BY <1>6
<1>10. \A c, e \in Trees : c # e => ToSet(c) \cap ToSet(e) = {}
  BY <1>7
<1> HIDE DEF named
<1>11. /\ disk.used \subseteq {0, 1} \cup named \cup leaked
       /\ Quiet => disk.used = {0, 1} \cup named \cup leaked
  BY <1>2, <1>5, <1>8
<1> QED
  BY <1>9, <1>10, <1>11 DEF BlocksNamed, named

(* The blocks in use are those that entries lead to, each by one chain, at *)
(* every step of every operation; none is orphaned but by a long name.     *)
THEOREM BlocksStayNamed == Spec => []BlocksNamed
<1>1. DirsInv => BlocksNamed
  BY InUse
<1> QED
  BY <1>1, Invariant, PTL

-----------------------------------------------------------------------------
(* A function and the set of its rows.                                     *)
Tabulates(f, G) ==
  /\ DOMAIN f = {r[1] : r \in G} /\ f = [key \in DOMAIN f |-> f[key]]
  /\ \A r \in G : f[r[1]] = r[2]
LEMMA SameTable ==
  ASSUME NEW G, NEW f, NEW g, Tabulates(f, G), Tabulates(g, G)
  PROVE  f = g
<1>1. DOMAIN f = DOMAIN g /\ \A key \in DOMAIN f : f[key] = g[key]
  BY DEF Tabulates
<1>2. [key \in DOMAIN f |-> f[key]] = [key \in DOMAIN g |-> g[key]]
  BY <1>1
<1> QED
  BY <1>2 DEF Tabulates

(* Functions whose tables differ in the rows of one key differ in that key. *)
LEMMA Differ ==
  ASSUME NEW G, NEW H, NEW f, NEW g, Tabulates(f, G), Tabulates(g, H), NEW key,
         \A r \in G \cup H : r[1] # key => r \in G /\ r \in H
  PROVE  N!Others(f, g, key)
<1>1. DOMAIN f \ {key} = DOMAIN g \ {key}
  BY DEF Tabulates
<1>2. ASSUME NEW k \in DOMAIN f \ {key} PROVE g[k] = f[k]
  <2>1. PICK r \in G : r[1] = k
    BY DEF Tabulates
  <2>2. r \in H
    BY <2>1
  <2> QED
    BY <2>1, <2>2 DEF Tabulates
<1> QED
  BY <1>1, <1>2 DEF N!Others

(* What names stand for is found where the entries are.                    *)
LEMMA Rows ==
  ASSUME NEW k, NEW X, NEW C, NEW E
  PROVE  \A r : r \in Graph(k, X, C, E) <=>
           \E d \in X : \E p \in Of(k, C, d) \ E : r = Row(d, At(k, p))
BY DEF Graph

(* The listing of a tidy disk is the function its graph tabulates.          *)
LEMMA ListedIs ==
  ASSUME NEW k, NEW X, NEW C, NEW E, NEW L, NEW wait, NEW some,
         Tidy(k, X, C, E, L, wait, some), Unique(k, X, C)
  PROVE  Tabulates(Listed(k), Graph(k, X, C, {}))
<1> DEFINE f == Listed(k)
           G == Graph(k, X, C, {})
           keys == UNION {{<<d, At(k, p).name>> : p \in Named(k, d)} : d \in Dirs(k)}
<1>1. Layout(k) /\ Own(k, X, C)
  BY DEF Tidy, Shape
<1>2. X \subseteq Dirs(k) /\ Dirs(k) \subseteq X \cup Husks(k, E)
  BY DirsAre
<1>3. \A d \in X : Named(k, d) = Of(k, C, d)
  BY <1>1, NamedIs
<1>4. \A d \in Husks(k, E) : Named(k, d) = {}
  BY HuskIsBare
<1>5. \A r \in G : \E d \in X : \E p \in Of(k, C, d) : r = Row(d, At(k, p))
  BY Rows
<1>6. \A d \in X : \A p \in Of(k, C, d) : Row(d, At(k, p)) \in G
  BY Rows
<1>7. DOMAIN f = keys /\ f = [key \in DOMAIN f |-> f[key]]
  BY DEF Listed
<1>8. ASSUME NEW d \in X, NEW p \in Of(k, C, d) PROVE f[<<d, At(k, p).name>>] = What(At(k, p))
  <2> DEFINE name == At(k, p).name
             q == find_in_dir(k, d, name)
  <2>1. name \in NameSet
    BY DEF Of, Live
  <2>2. Found(k, d, name)
    <3>1. Hits(k, d, name) = {r \in Of(k, C, d) : At(k, r).name = name}
      BY <1>1, <2>1, NamedIs
    <3> QED
      BY <3>1 DEF Found
  <2>3. q \in Of(k, C, d) /\ At(k, q).name = name
    <3>1. Hits(k, d, name) = {r \in Of(k, C, d) : At(k, r).name = name}
      BY <1>1, <2>1, NamedIs
    <3>2. q \in Hits(k, d, name)
      BY <1>1, <2>1, <2>2, NamedIs
    <3> QED
      BY <3>1, <3>2
  <2>4. q = p
    BY <2>3 DEF Unique
  <2>5. <<d, name>> \in keys
    BY <1>2, <1>3
  <2>6. f[<<d, name>>] = [kind |-> At(k, q).kind, perm |-> At(k, q).perm, start |-> At(k, q).start]
    BY <2>5 DEF Listed
  <2> QED
    BY <2>4, <2>6 DEF What
<1>9. keys = {r[1] : r \in G}
  <2>1. ASSUME NEW key \in keys PROVE \E r \in G : key = r[1]
    <3>1. PICK d \in Dirs(k) : \E p \in Named(k, d) : key = <<d, At(k, p).name>>
      OBVIOUS
    <3>2. d \in X /\ Named(k, d) = Of(k, C, d)
      BY <1>2, <1>3, <1>4, <3>1
    <3>3. PICK p \in Of(k, C, d) : key = <<d, At(k, p).name>>
      BY <3>1, <3>2
    <3>4. Row(d, At(k, p)) \in G /\ Row(d, At(k, p))[1] = key
      BY <1>6, <3>2, <3>3 DEF Row
    <3> QED
      BY <3>4
  <2>2. ASSUME NEW r \in G PROVE r[1] \in keys
    <3>1. PICK d \in X : \E p \in Of(k, C, d) : r = Row(d, At(k, p))
      BY <1>5
    <3>2. PICK p \in Of(k, C, d) : r = Row(d, At(k, p))
      BY <3>1
    <3>3. r[1] = <<d, At(k, p).name>> /\ p \in Named(k, d) /\ d \in Dirs(k)
      BY <1>2, <1>3, <3>2 DEF Row
    <3> QED
      BY <3>3
  <2> HIDE DEF keys, G
  <2> QED
    BY <2>1, <2>2
<1>10. ASSUME NEW r \in G PROVE f[r[1]] = r[2]
  <2>1. PICK d \in X : \E p \in Of(k, C, d) : r = Row(d, At(k, p))
    BY <1>5
  <2>2. PICK p \in Of(k, C, d) : r = Row(d, At(k, p))
    BY <2>1
  <2>3. r[1] = <<d, At(k, p).name>> /\ r[2] = What(At(k, p))
    BY <2>2 DEF Row
  <2> QED
    BY <1>8, <2>3
<1> HIDE DEF f, G, keys
<1>11. Tabulates(f, G)
  BY <1>7, <1>9, <1>10 DEF Tabulates
<1> QED
  BY <1>11 DEF f, G

(* A listing shows where the entries of users start.                        *)
LEMMA StartsAre ==
  ASSUME NEW k, NEW X, NEW C, NEW f, Layout(k), Dots(k, X, C),
         Tabulates(f, Graph(k, X, C, {}))
  PROVE  N!Starts(f) = {At(k, p).start : p \in Live(k)}
<1>1. ASSUME NEW p \in Live(k) PROVE At(k, p).start \in N!Starts(f)
  <2>1. p[1] \in Blocks /\ p[2] \in 1..Len(k.dir[p[1]])
    BY Alive, AlivePair
  <2>2. k.dir[p[1]] # <<>>
    BY <2>1, Lists
  <2>3. PICK d \in X : p[1] \in ToSet(C[d])
    BY <2>1, <2>2 DEF Dots, Holds
  <2>4. Row(d, At(k, p)) \in Graph(k, X, C, {})
    BY <2>3, Rows DEF Of
  <2>5. /\ Row(d, At(k, p))[1] \in DOMAIN f
        /\ f[Row(d, At(k, p))[1]] = Row(d, At(k, p))[2]
    BY <2>4 DEF Tabulates
  <2>6. Row(d, At(k, p))[2].start = At(k, p).start
    BY DEF Row, What
  <2> QED
    BY <2>5, <2>6 DEF N!Starts
<1>2. ASSUME NEW key \in DOMAIN f PROVE \E p \in Live(k) : f[key].start = At(k, p).start
  <2>1. PICK r \in Graph(k, X, C, {}) : key = r[1] /\ f[key] = r[2]
    BY DEF Tabulates
  <2>2. PICK d \in X : \E p \in Of(k, C, d) \ {} : r = Row(d, At(k, p))
    BY Rows
  <2>3. PICK p \in Of(k, C, d) : r = Row(d, At(k, p))
    BY <2>2
  <2>4. r[2].start = At(k, p).start /\ p \in Live(k)
    BY <2>3 DEF Row, What, Of
  <2> QED
    BY <2>1, <2>4
<1> QED
  BY <1>1, <1>2 DEF N!Starts

(* A directory is the root, or something that has a name.                  *)
LEMMA DirsNamed ==
  ASSUME NEW k, NEW X, NEW C, NEW E, Reach(k, X, C, E)
  PROVE  X \subseteq {RootDir} \cup {At(k, p).start : p \in Live(k)}
<1> DEFINE S == {RootDir} \cup {At(k, p).start : p \in Live(k)}
<1>1. RootDir \in S
  OBVIOUS
<1>2. Closed(k, X, C, E, S)
  BY DEF Closed, Of
<1> HIDE DEF S
<1>3. X \subseteq S
  BY <1>1, <1>2 DEF Reach
<1> QED
  BY <1>3 DEF S

(* Steps of graphs are steps of Names: Add,                                 *)
LEMMA Adding ==
  ASSUME NEW k, NEW X, NEW C, NEW E, NEW L, NEW wait, Tidy(k, X, C, E, L, wait, FALSE),
         NEW h, NEW Y, NEW D, Adds(k, X, C, h, Y, D, FALSE),
         NEW f, NEW g, Tabulates(f, Graph(k, X, C, {})), Tabulates(g, Graph(h, Y, D, {}))
  PROVE  \E key \in DOMAIN f \cup DOMAIN g : N!Others(f, g, key) /\ N!Add(f, g, key)
<1>1. /\ Layout(k) /\ Own(k, X, C) /\ Dots(k, X, C) /\ X \subseteq Blocks /\ Reach(k, X, C, E)
  BY DEF Tidy, Shape, Own
<1>2. PICK d \in X, e \in Entries :
        /\ e.name \in NameSet /\ Novel(k, e) /\ ~Found(k, d, e.name)
        /\ Graph(h, Y, D, {}) = Graph(k, X, C, {}) \cup {Row(d, e)}
  BY DEF Adds
<1> DEFINE key == <<d, e.name>>
           G == Graph(k, X, C, {})
<1>3. Row(d, e) = <<key, What(e)>> /\ Row(d, e)[1] = key /\ Row(d, e)[2] = What(e)
  BY DEF Row
<1>4. ASSUME NEW r \in G, r[1] = key PROVE FALSE
  <2>1. PICK x \in X : \E p \in Of(k, C, x) \ {} : r = Row(x, At(k, p))
    BY Rows
  <2>2. PICK p \in Of(k, C, x) : r = Row(x, At(k, p))
    BY <2>1
  <2>3. x = d /\ At(k, p).name = e.name
    BY <1>4, <2>2 DEF Row
  <2>4. Hits(k, d, e.name) = {q \in Of(k, C, d) : At(k, q).name = e.name}
    BY <1>1, <1>2, NamedIs
  <2> QED
    BY <1>2, <2>2, <2>3, <2>4 DEF Found
<1>5. Row(d, e) \in Graph(h, Y, D, {})
  BY <1>2
<1>6. key \in DOMAIN g /\ g[key] = What(e)
  BY <1>3, <1>5 DEF Tabulates
<1>7. key \notin DOMAIN f
  BY <1>4 DEF Tabulates
<1>8. N!Others(f, g, key)
  <2>1. \A r \in G \cup Graph(h, Y, D, {}) : r[1] # key => r \in G /\ r \in Graph(h, Y, D, {})
    BY <1>2, <1>3
  <2> HIDE DEF key
  <2> QED
    BY <2>1, Differ
<1>9. N!Starts(f) = {At(k, p).start : p \in Live(k)}
  BY <1>1, StartsAre
<1>10. d \in {RootDir} \cup N!Starts(f)
  BY <1>1, <1>9, DirsNamed
<1>11. key \in N!Key /\ What(e) \in N!What
  <2>1. key \in Blocks \X NameSet
    BY <1>1, <1>2
  <2>2. What(e) \in [kind : Kinds, perm : Perms, start : Blocks \cup {0}]
    BY DEF What, Entries
  <2> QED
    BY <2>1, <2>2 DEF N!Key, N!What
<1>12. \/ What(e).start \notin {RootDir} \cup (N!Starts(f) \ {0})
       \/ What(e) \in {f[i] : i \in DOMAIN f}
  <2>1. What(e).start = e.start
    BY DEF What
  <2>2. CASE e.start = FAT_NULL
    BY <2>1, <2>2 DEF FAT_NULL, RootDir
  <2>3. CASE e.start # RootDir /\ \A p \in Live(k) : At(k, p).start # e.start
    BY <1>9, <2>1, <2>3
  <2>4. ASSUME NEW p \in Live(k), What(At(k, p)) = What(e)
        PROVE  What(e) \in {f[i] : i \in DOMAIN f}
    <3>1. p[1] \in Blocks /\ p[2] \in 1..Len(k.dir[p[1]])
      BY <1>1, Alive, AlivePair
    <3>2. k.dir[p[1]] # <<>>
      BY <1>1, <3>1, Lists
    <3>3. PICK x \in X : p[1] \in ToSet(C[x])
      BY <1>1, <3>1, <3>2 DEF Dots, Holds
    <3>4. Row(x, At(k, p)) \in G /\ Row(x, At(k, p))[2] = What(At(k, p))
      BY <3>3, Rows DEF Of, Row
    <3> HIDE DEF G
    <3>5. PICK r \in G : r[2] = What(e)
      BY <2>4, <3>4
    <3>6. r[1] \in DOMAIN f /\ f[r[1]] = What(e)
      BY <3>5 DEF Tabulates, G
    <3> QED
      BY <3>6
  <2> QED
    BY <1>2, <2>2, <2>3, <2>4 DEF Novel
<1>13. N!Add(f, g, key)
  <2>1. key[1] = d
    OBVIOUS
  <2> HIDE DEF key
  <2> QED
    BY <1>6, <1>7, <1>10, <1>11, <1>12, <2>1 DEF N!Add
<1> QED
  BY <1>6, <1>8, <1>13

(* The rows of one entry.                                                  *)
LEMMA OneRow ==
  ASSUME NEW k, NEW X, NEW C, k \in Disks, Own(k, X, C), Unique(k, X, C),
         NEW d \in X, NEW p \in Of(k, C, d)
  PROVE  /\ Graph(k, X, C, {}) = Graph(k, X, C, {p}) \cup {Row(d, At(k, p))}
         /\ \A r \in Graph(k, X, C, {p}) : r[1] # <<d, At(k, p).name>>
<1> DEFINE key == <<d, At(k, p).name>>
<1>1. Row(d, At(k, p))[1] = key
  BY DEF Row
<1>2. ASSUME NEW x \in X, NEW q \in Of(k, C, x), x # d \/ q # p
      PROVE  q # p /\ Row(x, At(k, q))[1] # key
  <2>1. ASSUME q = p PROVE x = d
    <3>1. C[x] \in Seq(Blocks) /\ C[d] \in Seq(Blocks) /\ p[1] \in ToSet(C[x]) /\ p[1] \in ToSet(C[d])
      BY <2>1, Owners DEF Of
    <3>2. PICK i \in 1..Len(C[x]) : C[x][i] = p[1]
      BY <3>1, Members
    <3>3. PICK j \in 1..Len(C[d]) : C[d][j] = p[1]
      BY <3>1, Members
    <3> QED
      BY <3>2, <3>3 DEF Own
  <2>2. x = d => At(k, q).name # At(k, p).name
    BY <1>2 DEF Unique
  <2> QED
    BY <1>2, <2>1, <2>2 DEF Row
<1>3. ASSUME NEW r \in Graph(k, X, C, {p}) PROVE r[1] # key /\ r \in Graph(k, X, C, {})
  <2>1. PICK x \in X : \E q \in Of(k, C, x) \ {p} : r = Row(x, At(k, q))
    BY Rows
  <2>2. PICK q \in Of(k, C, x) \ {p} : r = Row(x, At(k, q))
    BY <2>1
  <2>3. r \in Graph(k, X, C, {})
    BY <2>2, Rows
  <2> QED
    BY <1>2, <2>2, <2>3
<1>4. ASSUME NEW r \in Graph(k, X, C, {})
      PROVE  r \in Graph(k, X, C, {p}) \/ r = Row(d, At(k, p))
  <2>1. PICK x \in X : \E q \in Of(k, C, x) \ {} : r = Row(x, At(k, q))
    BY Rows
  <2>2. PICK q \in Of(k, C, x) : r = Row(x, At(k, q))
    BY <2>1
  <2>3. CASE x = d /\ q = p
    BY <2>2, <2>3
  <2>4. CASE x # d \/ q # p
    <3>1. q \in Of(k, C, x) \ {p}
      BY <1>2, <2>4
    <3> QED
      BY <2>2, <3>1, Rows
  <2> QED
    BY <2>3, <2>4
<1>5. Row(d, At(k, p)) \in Graph(k, X, C, {})
  <2>1. p \in Of(k, C, d) \ {}
    OBVIOUS
  <2> QED
    BY <2>1, Rows
<1>6. Graph(k, X, C, {}) = Graph(k, X, C, {p}) \cup {Row(d, At(k, p))}
  BY <1>3, <1>4, <1>5
<1> QED
  BY <1>3, <1>6

(* Remove                                                                   *)
LEMMA Dropping ==
  ASSUME NEW k, NEW X, NEW C, NEW E, NEW L, NEW wait, Tidy(k, X, C, E, L, wait, FALSE),
         NEW h, NEW Y, NEW D, Drops(k, X, C, h, Y, D),
         NEW f, NEW g, Tabulates(f, Graph(k, X, C, {})), Tabulates(g, Graph(h, Y, D, {}))
  PROVE  \E key \in DOMAIN f \cup DOMAIN g : N!Others(f, g, key) /\ N!Remove(f, g, key)
<1>1. /\ Layout(k) /\ k \in Disks /\ Own(k, X, C) /\ Dots(k, X, C) /\ Unique(k, X, C)
  BY DEF Tidy, Shape, Layout
<1>2. PICK d \in X : \E p \in Of(k, C, d) :
        /\ Other(k, p) \/ Emptied(k, p)
        /\ Graph(h, Y, D, {}) = Graph(k, X, C, {p})
  BY DEF Drops
<1>3. PICK p \in Of(k, C, d) :
        /\ Other(k, p) \/ Emptied(k, p)
        /\ Graph(h, Y, D, {}) = Graph(k, X, C, {p})
  BY <1>2
<1> DEFINE key == <<d, At(k, p).name>>
           G == Graph(k, X, C, {})
           H == Graph(k, X, C, {p})
<1>4. G = H \cup {Row(d, At(k, p))} /\ \A r \in H : r[1] # key
  BY <1>1, OneRow
<1>5. Row(d, At(k, p))[1] = key /\ Row(d, At(k, p))[2] = What(At(k, p))
  BY DEF Row
<1> HIDE DEF key
<1>6. key \in DOMAIN f /\ f[key] = What(At(k, p))
  BY <1>4, <1>5 DEF Tabulates
<1>7. key \notin DOMAIN g
  BY <1>3, <1>4 DEF Tabulates
<1>8. N!Others(f, g, key)
  <2>1. \A r \in G \cup H : r[1] # key => r \in G /\ r \in H
    BY <1>4, <1>5
  <2> QED
    BY <1>3, <2>1, Differ
<1>9. /\ What(At(k, p)).kind = At(k, p).kind /\ What(At(k, p)).start = At(k, p).start
  BY DEF What
<1>10. ASSUME Other(k, p) PROVE \E i \in DOMAIN f \ {key} : f[i].start = f[key].start
  <2>1. PICK q \in Live(k) \ {p} : At(k, q).start = At(k, p).start
    BY <1>10 DEF Other
  <2>2. q[1] \in Blocks /\ q[2] \in 1..Len(k.dir[q[1]])
    BY <1>1, Alive, AlivePair
  <2>3. k.dir[q[1]] # <<>>
    BY <1>1, <2>2, Lists
  <2>4. PICK x \in X : q[1] \in ToSet(C[x])
    BY <1>1, <2>2, <2>3 DEF Dots, Holds
  <2>5. q \in Of(k, C, x) \ {p}
    BY <2>4 DEF Of
  <2>6. Row(x, At(k, q)) \in H
    BY <2>5, Rows
  <2>7. Row(x, At(k, q)) \in G /\ Row(x, At(k, q))[1] # key
    BY <1>4, <2>6
  <2>8. Row(x, At(k, q))[2].start = At(k, p).start
    BY <2>1 DEF Row, What
  <2> QED
    BY <1>6, <1>9, <2>7, <2>8 DEF Tabulates
<1>11. ASSUME Emptied(k, p), NEW i \in DOMAIN f PROVE i[1] # f[key].start
  <2>1. PICK r \in G : r[1] = i
    BY DEF Tabulates
  <2>2. PICK x \in X : \E q \in Of(k, C, x) \ {} : r = Row(x, At(k, q))
    BY <2>1, Rows
  <2>3. i[1] = x
    BY <2>1, <2>2 DEF Row
  <2>4. Chain(k, x) = C[x] /\ x \in ToSet(C[x]) /\ x \in k.used
    BY <1>1, Owners
  <2> QED
    BY <1>6, <1>9, <1>11, <2>3, <2>4 DEF Emptied
<1>12. N!Remove(f, g, key)
  BY <1>3, <1>6, <1>7, <1>10, <1>11 DEF N!Remove
<1> QED
  BY <1>6, <1>8, <1>12

(* and Chmod.                                                               *)
LEMMA Chmodding ==
  ASSUME NEW k, NEW X, NEW C, NEW E, NEW L, NEW wait, Tidy(k, X, C, E, L, wait, FALSE),
         NEW h, NEW Y, NEW D, Chmods(k, X, C, h, Y, D),
         NEW f, NEW g, Tabulates(f, Graph(k, X, C, {})), Tabulates(g, Graph(h, Y, D, {}))
  PROVE  \E key \in DOMAIN f \cup DOMAIN g : N!Others(f, g, key) /\ N!Chmod(f, g, key)
<1>1. k \in Disks /\ Own(k, X, C) /\ Unique(k, X, C)
  BY DEF Tidy, Shape, Layout
<1>2. PICK d \in X : \E p \in Of(k, C, d) : \E e \in Entries, perm \in Perms :
        /\ e.name = At(k, p).name /\ What(e) = [What(At(k, p)) EXCEPT !.perm = perm]
        /\ Graph(h, Y, D, {}) = Graph(k, X, C, {p}) \cup {Row(d, e)}
  BY DEF Chmods
<1>3. PICK p \in Of(k, C, d), e \in Entries, perm \in Perms :
        /\ e.name = At(k, p).name /\ What(e) = [What(At(k, p)) EXCEPT !.perm = perm]
        /\ Graph(h, Y, D, {}) = Graph(k, X, C, {p}) \cup {Row(d, e)}
  BY <1>2
<1> DEFINE key == <<d, At(k, p).name>>
           G == Graph(k, X, C, {})
           H == Graph(k, X, C, {p})
<1>4. G = H \cup {Row(d, At(k, p))} /\ \A r \in H : r[1] # key
  BY <1>1, OneRow
<1>5. /\ Row(d, At(k, p))[1] = key /\ Row(d, At(k, p))[2] = What(At(k, p))
      /\ Row(d, e)[1] = key /\ Row(d, e)[2] = What(e)
  BY <1>3 DEF Row
<1> HIDE DEF key
<1>6. key \in DOMAIN f /\ f[key] = What(At(k, p))
  BY <1>4, <1>5 DEF Tabulates
<1>7. key \in DOMAIN g /\ g[key] = What(e)
  BY <1>3, <1>5 DEF Tabulates
<1>8. N!Others(f, g, key)
  <2> DEFINE M == H \cup {Row(d, e)}
  <2>1. \A r \in G \cup M : r[1] # key => r \in G /\ r \in M
    BY <1>4, <1>5
  <2>2. Tabulates(g, M)
    BY <1>3
  <2> HIDE DEF M, G
  <2> QED
    BY <2>1, <2>2, Differ DEF G
<1>9. N!Chmod(f, g, key)
  BY <1>3, <1>6, <1>7 DEF N!Chmod
<1> QED
  BY <1>6, <1>8, <1>9

(* The disk implements Names.tla.  A step that changes what names stand    *)
(* for changes one of them, as Names.tla allows.                           *)
Shown == IF onto THEN <<>> ELSE Listed(disk)
LEMMA Implements ==
  ASSUME DirsInv, [Next]_vars
  PROVE  N!Next \/ Shown' = Shown
<1>1. PICK X, C, E : Tidy(disk, X, C, E, leaked, pending, onto)
  BY DEF DirsInv
<1>2. fault \in BOOLEAN /\ onto \in BOOLEAN
  BY DEF DirsInv
<1>3. CASE UNCHANGED vars
  <2>1. disk' = disk /\ onto' = onto
    BY <1>3 DEF vars
  <2>2. Listed(disk') = Listed(disk)
    BY <2>1
  <2> QED
    BY <2>1, <2>2 DEF Shown
<1>4. CASE Next
  <2>1. Goes(X, C)
    BY <1>1, <1>2, <1>4, NextGoes
  <2>2. onto' = onto
    BY <2>1 DEF Goes
  <2>3. CASE onto
    BY <2>2, <2>3 DEF Shown
  <2>4. CASE ~onto
    <3>1. PICK Y, D, F : /\ Tidy(disk', Y, D, F, leaked', pending', onto)
                         /\ Turns(disk, X, C, disk', Y, D, onto)
      BY <2>1 DEF Goes
    <3>2. onto = FALSE
      BY <1>2, <2>4
    <3>3. Unique(disk, X, C) /\ Unique(disk', Y, D)
      BY <1>1, <2>4, <3>1 DEF Tidy
    <3> DEFINE f == Listed(disk)
               g == Listed(disk')
    <3>4. Tabulates(f, Graph(disk, X, C, {}))
      BY <1>1, <3>3, ListedIs
    <3>5. Tabulates(g, Graph(disk', Y, D, {}))
      BY <3>1, <3>3, ListedIs
    <3>6. Shown = f /\ Shown' = g
      BY <2>2, <2>4 DEF Shown
    <3> HIDE DEF f, g
    <3>7. Tidy(disk, X, C, E, leaked, pending, FALSE)
      BY <1>1, <3>2
    <3>8. CASE Graph(disk', Y, D, {}) = Graph(disk, X, C, {})
      <4>1. f = g
        BY <3>4, <3>5, <3>8, SameTable
      <4> QED
        BY <3>6, <4>1
    <3>9. CASE \E key \in DOMAIN f \cup DOMAIN g :
                 /\ N!Others(f, g, key)
                 /\ N!Add(f, g, key) \/ N!Remove(f, g, key) \/ N!Chmod(f, g, key)
      BY <3>6, <3>9 DEF N!Next, Shown
    <3>10. CASE Adds(disk, X, C, disk', Y, D, onto)
      <4>1. Adds(disk, X, C, disk', Y, D, FALSE)
        BY <3>2, <3>10
      <4> QED
        BY <3>4, <3>5, <3>7, <3>9, <4>1, Adding
    <3>11. CASE Drops(disk, X, C, disk', Y, D)
      BY <3>4, <3>5, <3>7, <3>9, <3>11, Dropping
    <3>12. CASE Chmods(disk, X, C, disk', Y, D)
      BY <3>4, <3>5, <3>7, <3>9, <3>12, Chmodding
    <3> QED
      BY <3>1, <3>8, <3>10, <3>11, <3>12 DEF Turns
  <2> QED
    BY <1>2, <2>3, <2>4
<1> QED
  BY <1>3, <1>4

(* A disk of mkfs lists nothing.                                            *)
LEMMA NamesBegin ==
  ASSUME Init
  PROVE  N!Init
<1>1. /\ Tidy(disk, {RootDir}, RootChain, {}, leaked, pending, onto)
      /\ Live(disk) = {} /\ Graph(disk, {RootDir}, RootChain, {}) = {}
  BY InitTidy
<1>2. Unique(disk, {RootDir}, RootChain)
  BY <1>1 DEF Unique, Of
<1>3. Tabulates(Listed(disk), {})
  BY <1>1, <1>2, ListedIs
<1>4. DOMAIN Listed(disk) = {} /\ Listed(disk) = [key \in {} |-> Listed(disk)[key]]
  BY <1>3 DEF Tabulates
<1>5. Listed(disk) = <<>>
  BY <1>4
<1> QED
  BY <1>5 DEF N!Init

(* Whatever is packed, chained and moved, each operation does to names     *)
(* what its user asked for.                                                *)
THEOREM KeepsNames == Spec => ImplementsNames
<1>1. Init => N!Init
  BY NamesBegin
<1>2. DirsInv /\ [Next]_vars => N!Next \/ Shown' = Shown
  BY Implements
<1>3. DirsInv /\ [Next]_vars => [N!Next]_Shown
  BY <1>2
<1> QED
  BY <1>1, <1>3, Invariant, PTL DEF Spec, ImplementsNames, N!Spec, Shown
=============================================================================
