---------------------------- MODULE MemeFsProofs ----------------------------
(***************************************************************************)
(* Theorems about the three ways to store blocks, under any client and     *)
(* under the prototype file system, for every number of blocks and every   *)
(* size of the meta block.                                                 *)
(*                                                                         *)
(* The invariant of Versions (Inv) speaks about a device k, the client's   *)
(* contents c, the blocks s it had at the last save and kept, and whether  *)
(* a session was lost (l): Up while the device is mounted, Down while it   *)
(* is not.  One lemma for every call of the block layer says how it leads  *)
(* from one to the other; the steps of a client, whatever it is, are made  *)
(* of these.                                                               *)
(*                                                                         *)
(* The invariant holds for the prototype as well, whose steps are several  *)
(* calls of the block layer each, or end within one.  What is added for it *)
(* (Prototype) is which blocks it has: Running, while it is mounted, and   *)
(* Stored, on disk: if the superblock is there, what it names is complete  *)
(* as far as the saved counter reaches; if it is not, the counter may be   *)
(* three higher for each time it was lost.                                 *)
(***************************************************************************)
EXTENDS MemeFs, TLAPS, WellFoundedInduction, FiniteSetTheorems

(* Every set of natural numbers that is not empty has a least element.     *)
LEMMA LeastNumber ==
  ASSUME NEW S, S \subseteq Nat, S # {}
  PROVE  \E m \in S : \A x \in S : m <= x
<1>1. IsWellFoundedOn(OpToRel(<, Nat), Nat)
  BY NatLessThanWellFounded
<1>2. PICK m \in S : \A x \in S : ~(<<x, m>> \in OpToRel(<, Nat))
  BY <1>1, WFMin
<1>3. \A x \in S : ~(x < m)
  <2> TAKE x \in S
  <2>1. x \in Nat /\ m \in Nat
    OBVIOUS
  <2>2. x < m => <<x, m>> \in OpToRel(<, Nat)
    BY <2>1, Zenon DEF OpToRel
  <2> QED
    BY <1>2, <2>2
<1> QED
  BY <1>3

(* A set of natural numbers below a bound has a greatest element, unless   *)
(* it is empty.                                                            *)
LEMMA GreatestNumber ==
  ASSUME NEW n \in Nat, NEW S, S \subseteq 0..n, S # {}
  PROVE  \E m \in S : \A x \in S : x <= m
<1> DEFINE R == {n - x : x \in S}
<1>0. PICK x0 \in S : TRUE
  OBVIOUS
<1>1. R \subseteq Nat /\ n - x0 \in R
  BY <1>0
<1>2. PICK r \in R : \A y \in R : r <= y
  BY <1>1, LeastNumber
<1>3. PICK m \in S : r = n - m
  OBVIOUS
<1>4. \A x \in S : n - m <= n - x
  BY <1>2, <1>3
<1> QED
  BY <1>4

-----------------------------------------------------------------------------
Devices == [version : VERSION, next_alloc : 0..MaxBlocks, freed : SUBSET Blocks,
            block : [Blocks -> Data \cup {Zero, NoFile, Empty}],
            meta : States \cup {NoFile, Empty}]

(* No number is queued that was not handed out. *)
Kept(k) ==
  /\ \A b \in k.freed : b < k.next_alloc
  /\ k.meta \notin {NoFile, Empty} => \A b \in k.meta.freed : b < k.meta.next_alloc

(* The blocks in use when the device was last saved. *)
SavedLive(k) ==
  IF k.meta \in {NoFile, Empty} THEN {}
  ELSE {b \in Blocks : b < k.meta.next_alloc /\ b \notin k.meta.freed}

(* What the files hold. *)
Holds(k, c, l) ==
  /\ k \in Devices
  /\ DOMAIN c \subseteq Blocks
  /\ c \in [DOMAIN c -> Data \cup {Unwritten}]
  /\ l \in BOOLEAN
  /\ \A b \in DOMAIN c : /\ c[b] # Unwritten => k.block[b] = c[b]
                         /\ k.version = 1 => k.block[b] # NoFile
  /\ k.version # 0 /\ ~l => \A b \in Blocks : b \notin DOMAIN c => k.block[b] = NoFile
  /\ k.version # 0 /\ ~l =>
       \A b \in DOMAIN c : c[b] = Unwritten => k.block[b] \in {Empty, Zero}

Up(k, c, s, l) ==
  /\ Holds(k, c, l) /\ Kept(k)
  /\ DOMAIN c \subseteq Live(k) /\ (~l => DOMAIN c = Live(k))
  /\ s \subseteq DOMAIN c /\ s \subseteq SavedLive(k)

Down(k, c, s, l) ==
  /\ Holds(k, c, l) /\ Kept(k)
  /\ s = DOMAIN c
  /\ s \subseteq SavedLive(k) /\ (~l => s = SavedLive(k))

Inv ==
  /\ dev \in {"up", "down", "undefined"}
  /\ dev = "up" => Up(device, contents, safe, lost)
  /\ dev = "down" => Down(device, contents, safe, lost)
  /\ dev = "undefined" => Holds(device, contents, lost) /\ safe \subseteq owned

USE DEF Blocks, VERSION, State, States, owned

-----------------------------------------------------------------------------
(* One element more makes a set greater by one at most. *)
LEMMA OneMore ==
  ASSUME NEW S, NEW x, NEW n \in Nat, IsFiniteSet(S), Cardinality(S) <= n
  PROVE  IsFiniteSet(S \cup {x}) /\ Cardinality(S \cup {x}) <= n + 1
<1>1. Cardinality(S) \in Nat
  BY FS_CardinalityType
<1>2. /\ IsFiniteSet(S \cup {x})
      /\ Cardinality(S \cup {x}) = IF x \in S THEN Cardinality(S) ELSE Cardinality(S) + 1
  BY FS_AddElement, Zenon
<1> QED
  BY <1>1, <1>2

(* A file without bytes is a file. *)
LEMMA EmptyIsAFile == NoFile # Empty
<1>1. SUFFICES ASSUME NoFile = Empty PROVE FALSE
  OBVIOUS
<1> DEFINE A == {Zero} B == A \cup {Pattern} C == B \cup {NoFile} D == C \cup {Untouched}
<1>2. D = {Zero, Pattern, NoFile, Empty, Untouched}
  BY <1>1
<1>3. IsFiniteSet(A) /\ Cardinality(A) <= 1
  <2>1. IsFiniteSet(A) /\ Cardinality(A) = 1
    BY FS_Singleton, Zenon
  <2> QED
    BY <2>1
<1>4. IsFiniteSet(B) /\ Cardinality(B) <= 2
  <2> HIDE DEF A
  <2>1. IsFiniteSet(A \cup {Pattern}) /\ Cardinality(A \cup {Pattern}) <= 1 + 1
    BY <1>3, OneMore
  <2> QED
    BY <2>1
<1>5. IsFiniteSet(C) /\ Cardinality(C) <= 3
  <2> HIDE DEF B
  <2>1. IsFiniteSet(B \cup {NoFile}) /\ Cardinality(B \cup {NoFile}) <= 2 + 1
    BY <1>4, OneMore
  <2> QED
    BY <2>1
<1>6. Cardinality(D) <= 4
  <2> HIDE DEF C
  <2>1. Cardinality(C \cup {Untouched}) <= 3 + 1
    BY <1>5, OneMore
  <2> QED
    BY <2>1
<1> QED
  BY <1>2, <1>6, BackendsAssumption

(* allocate_block takes the greatest queued number, or a new one.          *)
LEMMA NewBlockIs ==
  ASSUME NEW k \in Devices, Kept(k)
  PROVE  NewBlock(k) \in IF k.freed = {} THEN {k.next_alloc} ELSE k.freed
<1>1. CASE k.freed = {}
  BY <1>1 DEF NewBlock
<1>2. CASE k.freed # {}
  <2>1. k.freed \subseteq 0..MaxBlocks /\ MaxBlocks \in Nat
    BY BackendsAssumption DEF Devices
  <2>2. \E m \in k.freed : \A x \in k.freed : x <= m
    BY <2>1, <1>2, GreatestNumber
  <2>3. \E m \in k.freed : \A x \in k.freed : m >= x
    BY <2>1, <2>2
  <2> QED
    BY <2>3, <1>2 DEF NewBlock, Max
<1> QED
  BY <1>1, <1>2

(* free_cleanup stops, at a number that is not queued, and takes only      *)
(* queued numbers on the way.                                              *)
LEMMA TopIs ==
  ASSUME NEW n \in Nat, NEW f, f \subseteq Nat
  PROVE  /\ Top(n, f) \in 0..n
         /\ Top(n, f) - 1 \notin f
         /\ \A b \in Top(n, f)..(n - 1) : b \in f
<1> DEFINE T == {m \in 0..n : \A b \in m..(n - 1) : b \in f}
<1>1. n \in T /\ T \subseteq Nat
  OBVIOUS
<1>2. PICK m \in T : \A x \in T : m <= x
  BY <1>1, LeastNumber
<1>3. m - 1 \notin f
  <2>1. SUFFICES ASSUME m - 1 \in f PROVE m - 1 \in T
    BY <1>2
  <2> QED
    BY <2>1, <1>2
<1>4. \E x \in 0..n : x - 1 \notin f /\ \A b \in x..(n - 1) : b \in f
  BY <1>2, <1>3
<1> QED
  BY <1>4 DEF Top

-----------------------------------------------------------------------------
(* The calls of the block layer, one by one. *)

(* allocate_block hands out a block that was not in use, and makes its     *)
(* file.                                                                   *)
LEMMA AllocateIs ==
  ASSUME NEW k \in Devices, Kept(k), NewBlock(k) \in Blocks
  PROVE  LET b == NewBlock(k) j == allocate_block(k)
         IN /\ j \in Devices /\ Kept(j)
            /\ b \notin Live(k) /\ Live(j) = Live(k) \cup {b}
            /\ j.version = k.version /\ j.meta = k.meta
            /\ j.block = [k.block EXCEPT ![b] = Made(k, @)]
            /\ j.freed = k.freed \ {b}
            /\ j.next_alloc = IF k.freed = {} THEN k.next_alloc + 1 ELSE k.next_alloc
<1> DEFINE b == NewBlock(k)
           j == allocate_block(k)
<1>1. b \in IF k.freed = {} THEN {k.next_alloc} ELSE k.freed
  BY NewBlockIs
<1>2. b \in Blocks /\ k.version \in 0..2 /\ k.block[b] \in Data \cup {Zero, NoFile, Empty}
  BY DEF Devices
<1>3. Made(k, k.block[b]) \in Data \cup {Zero, NoFile, Empty}
  BY <1>2 DEF Made
<1>4. j = [k EXCEPT !.next_alloc = IF k.freed = {} THEN k.next_alloc + 1 ELSE k.next_alloc,
                    !.freed = k.freed \ {b},
                    !.block = [k.block EXCEPT ![b] = Made(k, k.block[b])]]
  BY DEF allocate_block, Devices
<1> HIDE DEF b, j
<1>5. /\ j.version = k.version /\ j.meta = k.meta
      /\ j.next_alloc = IF k.freed = {} THEN k.next_alloc + 1 ELSE k.next_alloc
      /\ j.freed = k.freed \ {b}
      /\ j.block = [k.block EXCEPT ![b] = Made(k, k.block[b])]
  BY <1>4 DEF Devices
<1>6. j \in Devices
  <2>1. j = [version |-> j.version, next_alloc |-> j.next_alloc, freed |-> j.freed,
             block |-> j.block, meta |-> j.meta]
    BY <1>4 DEF Devices
  <2>2. j.next_alloc \in 0..MaxBlocks /\ j.freed \in SUBSET Blocks
    BY <1>1, <1>2, <1>5, BackendsAssumption DEF Devices
  <2>3. j.block \in [Blocks -> Data \cup {Zero, NoFile, Empty}]
    BY <1>3, <1>5 DEF Devices
  <2> QED
    BY <1>5, <2>1, <2>2, <2>3 DEF Devices
<1>7. Kept(j)
  BY <1>1, <1>5 DEF Kept, Devices
<1>8. b \notin Live(k)
  BY <1>1, <1>2 DEF Live
<1>9. Live(j) = Live(k) \cup {b}
  BY <1>1, <1>2, <1>5 DEF Kept, Live, Devices
<1> QED
  BY <1>5, <1>6, <1>7, <1>8, <1>9 DEF b, j

(* free_block gives back the block and forgets files only of blocks that   *)
(* are not in use.                                                         *)
LEMMA FreeIs ==
  ASSUME NEW k \in Devices, Kept(k), NEW b \in Live(k)
  PROVE  LET j == free_block(k, b)
         IN /\ j \in Devices /\ Kept(j)
            /\ Live(j) = Live(k) \ {b}
            /\ j.version = k.version /\ j.meta = k.meta
            /\ k.version # 0 => j.block[b] = NoFile
            /\ \A x \in Live(k) \ {b} : j.block[x] = k.block[x]
            /\ \A x \in Blocks : j.block[x] \in {k.block[x], NoFile}
<1> DEFINE n == IF b = k.next_alloc - 1 THEN b ELSE k.next_alloc
           f == IF b = k.next_alloc - 1 THEN k.freed ELSE k.freed \cup {b}
           m == Top(n, f)
           gone == IF k.version = 0 THEN {} ELSE {b} \cup m..(n - 1)
           j == free_block(k, b)
<1>1. b \in Blocks /\ b < k.next_alloc /\ b \notin k.freed
  BY DEF Live
<1>2. n \in 0..MaxBlocks /\ f \subseteq Blocks
  BY <1>1, BackendsAssumption DEF Devices
<1>3. \A x \in f : x < k.next_alloc
  BY <1>1 DEF Kept
<1>4. \A x \in Blocks : x < n /\ x \notin f <=> x \in Live(k) \ {b}
  BY <1>1 DEF Live, Devices
<1>5. m \in 0..n /\ \A x \in m..(n - 1) : x \in f
  <2>1. n \in Nat /\ f \subseteq Nat
    BY <1>2, BackendsAssumption
  <2> QED
    BY <2>1, TopIs
<1>6. j = [k EXCEPT !.next_alloc = m, !.freed = f \ (m..(n - 1)),
                    !.block = [x \in Blocks |-> IF x \in gone THEN NoFile ELSE @[x]]]
  BY DEF free_block
<1> HIDE DEF j, m
<1>7. /\ j.version = k.version /\ j.meta = k.meta
      /\ j.next_alloc = m /\ j.freed = f \ (m..(n - 1))
      /\ j.block = [x \in Blocks |-> IF x \in gone THEN NoFile ELSE k.block[x]]
  BY <1>6 DEF Devices
<1> HIDE DEF n, f
<1>8. j \in Devices
  <2>1. j = [version |-> j.version, next_alloc |-> j.next_alloc, freed |-> j.freed,
             block |-> j.block, meta |-> j.meta]
    BY <1>6 DEF Devices
  <2>2. j.next_alloc \in 0..MaxBlocks /\ j.freed \in SUBSET Blocks
    <3>1. m \in Nat /\ m <= n /\ n \in Nat /\ n <= MaxBlocks /\ MaxBlocks \in Nat
      BY <1>2, <1>5, BackendsAssumption
    <3>2. f \ (m..(n - 1)) \subseteq Blocks
      BY <1>2
    <3> HIDE DEF Blocks
    <3> QED
      BY <1>7, <3>1, <3>2
  <2>3. j.block \in [Blocks -> Data \cup {Zero, NoFile, Empty}]
    BY <1>7 DEF Devices
  <2> QED
    BY <1>7, <2>1, <2>2, <2>3 DEF Devices
<1>9. Kept(j)
  <2>1. \A x \in f : x < n
    BY <1>1, <1>3 DEF n, f, Kept, Devices
  <2> QED
    <3>1. \A x \in j.freed : x < j.next_alloc
      <4>1. SUFFICES ASSUME NEW x \in f, x \notin m..(n - 1) PROVE x < m
        BY <1>7
      <4>2. x \in Nat /\ n \in Nat /\ m \in Nat
        BY <1>2, <1>5, BackendsAssumption
      <4> QED
        BY <4>1, <4>2, <2>1
    <3> QED
      BY <1>7, <3>1 DEF Kept
<1>10. Live(j) = Live(k) \ {b}
  <2>1. \A x \in Blocks : x < m /\ x \notin f \ (m..(n - 1)) <=> x < n /\ x \notin f
    BY <1>2, <1>5, BackendsAssumption
  <2> QED
    BY <1>4, <1>7, <2>1 DEF Live
<1>11. \A x \in Live(k) \ {b} : x \in Blocks /\ x \notin gone
  BY <1>2, <1>4, <1>5 DEF Live
<1> QED
  BY <1>1, <1>7, <1>8, <1>9, <1>10, <1>11 DEF j

(* write_block changes no block but b, except that it fills the big file   *)
(* up with zeros.                                                          *)
LEMMA WriteIs ==
  ASSUME NEW k \in Devices, Kept(k), NEW b \in Live(k), NEW d \in Data
  PROVE  LET j == write_block(k, b, d)
         IN /\ j \in Devices /\ Kept(j)
            /\ j.version = k.version /\ j.next_alloc = k.next_alloc /\ j.freed = k.freed
            /\ j.meta = IF k.version = 0 /\ k.meta = Empty THEN State(0, {}) ELSE k.meta
            /\ \A x \in Blocks \ {b} :
                 j.block[x] # k.block[x] =>
                   k.version = 0 /\ k.block[x] = NoFile /\ j.block[x] = Zero
            /\ (k.version = 1 /\ k.block[b] = NoFile) \/ j.block[b] = d
<1> DEFINE e == Extended(k, b)
           j == write_block(k, b, d)
           Result ==
             /\ j \in Devices /\ Kept(j)
             /\ j.version = k.version /\ j.next_alloc = k.next_alloc /\ j.freed = k.freed
             /\ j.meta = IF k.version = 0 /\ k.meta = Empty THEN State(0, {}) ELSE k.meta
             /\ \A x \in Blocks \ {b} :
                  j.block[x] # k.block[x] =>
                    k.version = 0 /\ k.block[x] = NoFile /\ j.block[x] = Zero
             /\ (k.version = 1 /\ k.block[b] = NoFile) \/ j.block[b] = d
<1>1. b \in Blocks /\ ~(b >= k.next_alloc)
  BY DEF Live, Devices
<1>2. State(0, {}) \in States /\ State(0, {}) \notin {NoFile, Empty}
  BY BackendsAssumption, VersionsAssumption
<1>3. ASSUME k.version = 0 PROVE Result
  <2>1. j = [e EXCEPT !.block[b] = d]
    BY <1>1, <1>3 DEF write_block
  <2>2. e = [k EXCEPT
         !.block = [c \in Blocks |-> IF c < b /\ k.block[c] = NoFile THEN Zero ELSE k.block[c]],
         !.meta  = IF k.meta = Empty THEN State(0, {}) ELSE k.meta]
    BY DEF Extended, Devices
  <2>3. /\ j.version = k.version /\ j.next_alloc = k.next_alloc /\ j.freed = k.freed
        /\ j.meta = IF k.meta = Empty THEN State(0, {}) ELSE k.meta
        /\ j.block = [[c \in Blocks |-> IF c < b /\ k.block[c] = NoFile THEN Zero
                                        ELSE k.block[c]] EXCEPT ![b] = d]
    BY <2>1, <2>2 DEF Devices
  <2>4. j.block \in [Blocks -> Data \cup {Zero, NoFile, Empty}]
    BY <2>3 DEF Devices
  <2>5. j = [version |-> j.version, next_alloc |-> j.next_alloc, freed |-> j.freed,
             block |-> j.block, meta |-> j.meta]
    BY <2>1, <2>2 DEF Devices
  <2>6. j \in Devices
    BY <1>2, <2>3, <2>4, <2>5 DEF Devices
  <2>7. Kept(j)
    BY <1>2, <2>3 DEF Kept
  <2>8. \A x \in Blocks \ {b} :
          j.block[x] # k.block[x] => k.block[x] = NoFile /\ j.block[x] = Zero
    BY <2>3
  <2>9. j.block[b] = d
    BY <1>1, <2>3
  <2>10. j.meta = IF k.version = 0 /\ k.meta = Empty THEN State(0, {}) ELSE k.meta
    BY <1>3, <2>3
  <2> HIDE DEF j, e
  <2> QED
    BY <1>3, <2>3, <2>6, <2>7, <2>8, <2>9, <2>10
<1>4. ASSUME k.version = 1, k.block[b] = NoFile PROVE Result
  <2>1. j = k
    BY <1>1, <1>4 DEF write_block
  <2> HIDE DEF j
  <2> QED
    BY <1>4, <2>1
<1>5. ASSUME k.version = 2 \/ (k.version = 1 /\ k.block[b] # NoFile) PROVE Result
  <2>1. j = [k EXCEPT !.block[b] = d]
    BY <1>1, <1>5 DEF write_block
  <2> HIDE DEF j
  <2>2. /\ j.version = k.version /\ j.next_alloc = k.next_alloc /\ j.freed = k.freed
        /\ j.meta = k.meta
        /\ j.block = [k.block EXCEPT ![b] = d]
    BY <2>1 DEF Devices
  <2>3. j \in Devices
    BY <2>1 DEF Devices
  <2>4. Kept(j)
    BY <2>2 DEF Kept
  <2>5. /\ \A x \in Blocks \ {b} : j.block[x] = k.block[x]
        /\ j.block[b] = d
    BY <1>1, <2>2 DEF Devices
  <2>6. /\ j.meta = IF k.version = 0 /\ k.meta = Empty THEN State(0, {}) ELSE k.meta
        /\ \A x \in Blocks \ {b} :
             j.block[x] # k.block[x] =>
               k.version = 0 /\ k.block[x] = NoFile /\ j.block[x] = Zero
    BY <1>5, <2>2, <2>5
  <2> QED
    BY <2>2, <2>3, <2>4, <2>5, <2>6, Zenon
<1>6. k.version = 0 \/ k.version = 1 \/ k.version = 2
  BY DEF Devices
<1>7. Result
  <2>1. CASE k.version = 0
    BY <1>3, <2>1
  <2>2. CASE k.version = 1 /\ k.block[b] = NoFile
    BY <1>4, <2>2
  <2>3. CASE k.version = 2 \/ (k.version = 1 /\ k.block[b] # NoFile)
    BY <1>5, <2>3
  <2> QED
    BY <1>6, <2>1, <2>2, <2>3
<1> HIDE DEF j
<1> QED
  BY <1>7 DEF j

-----------------------------------------------------------------------------
(* The steps a client is made of. *)

(* A step that leaves the saved state and the counted blocks alone.        *)
LEMMA AllocateUp ==
  ASSUME NEW k, NEW c, NEW s, NEW l, Up(k, c, s, l), NewBlock(k) \in Blocks
  PROVE  /\ Up(allocate_block(k), With(c, NewBlock(k), Unwritten), s, l)
         /\ NewBlock(k) \notin DOMAIN c /\ s \ {NewBlock(k)} = s
<1> DEFINE b == NewBlock(k)
           j == allocate_block(k)
           e == With(c, b, Unwritten)
<1>1. k \in Devices /\ Kept(k) /\ b \in Blocks
  BY DEF Up, Holds
<1>2. /\ j \in Devices /\ Kept(j)
      /\ b \notin Live(k) /\ Live(j) = Live(k) \cup {b}
      /\ j.version = k.version /\ j.meta = k.meta
      /\ j.block = [k.block EXCEPT ![b] = Made(k, @)]
  BY <1>1, AllocateIs
<1>3. /\ DOMAIN e = DOMAIN c \cup {b} /\ e[b] = Unwritten
      /\ \A x \in DOMAIN c : x # b => e[x] = c[x]
      /\ e = [x \in DOMAIN c \cup {b} |-> IF x = b THEN Unwritten ELSE c[x]]
  BY DEF With
<1>4. b \notin DOMAIN c
  BY <1>2 DEF Up
<1>5. /\ k.version # 0 => Made(k, k.block[b]) # NoFile
      /\ k.version # 0 /\ k.block[b] = NoFile => Made(k, k.block[b]) \in {Empty, Zero}
  <2>1. k.version \in 0..2
    BY <1>1 DEF Devices
  <2> QED
    BY <2>1, EmptyIsAFile, VersionsAssumption DEF Made
<1> HIDE DEF b, j, e
<1>6. /\ j.block[b] = Made(k, k.block[b])
      /\ \A x \in Blocks : x # b => j.block[x] = k.block[x]
  BY <1>1, <1>2 DEF Devices
<1>7. Holds(j, e, l)
  <2>1. /\ DOMAIN e \subseteq Blocks
        /\ e \in [DOMAIN e -> Data \cup {Unwritten}]
    BY <1>1, <1>3 DEF Up, Holds
  <2>2. \A x \in DOMAIN e : /\ e[x] # Unwritten => j.block[x] = e[x]
                            /\ j.version = 1 => j.block[x] # NoFile
    BY <1>1, <1>2, <1>3, <1>5, <1>6 DEF Up, Holds
  <2>3. /\ j.version # 0 /\ ~l => \A x \in Blocks : x \notin DOMAIN e => j.block[x] = NoFile
        /\ j.version # 0 /\ ~l =>
             \A x \in DOMAIN e : e[x] = Unwritten => j.block[x] \in {Empty, Zero}
    BY <1>1, <1>2, <1>3, <1>4, <1>5, <1>6 DEF Up, Holds
  <2>4. j \in Devices /\ l \in BOOLEAN
    BY <1>2 DEF Up, Holds
  <2> QED
    BY <2>1, <2>2, <2>3, <2>4, Zenon DEF Holds
<1>8. /\ DOMAIN e \subseteq Live(j) /\ (~l => DOMAIN e = Live(j))
      /\ s \subseteq DOMAIN e /\ s \subseteq SavedLive(j)
  BY <1>2, <1>3 DEF Up, SavedLive
<1>9. Up(j, e, s, l)
  BY <1>2, <1>7, <1>8 DEF Up
<1> QED
  BY <1>4, <1>9 DEF Up, b, j, e

LEMMA WriteUp ==
  ASSUME NEW k, NEW c, NEW s, NEW l, Up(k, c, s, l), NEW b \in DOMAIN c, NEW d \in Data
  PROVE  Up(write_block(k, b, d), With(c, b, d), s, l)
<1> DEFINE j == write_block(k, b, d)
           e == With(c, b, d)
<1>1. k \in Devices /\ Kept(k) /\ b \in Live(k) /\ b \in Blocks
  BY DEF Up, Holds
<1>2. /\ j \in Devices /\ Kept(j)
      /\ j.version = k.version /\ j.next_alloc = k.next_alloc /\ j.freed = k.freed
      /\ j.meta = IF k.version = 0 /\ k.meta = Empty THEN State(0, {}) ELSE k.meta
      /\ \A x \in Blocks \ {b} : j.block[x] # k.block[x] => k.version = 0 /\ k.block[x] = NoFile
      /\ (k.version = 1 /\ k.block[b] = NoFile) \/ j.block[b] = d
  BY <1>1, WriteIs
<1>3. /\ DOMAIN e = DOMAIN c /\ e[b] = d
      /\ \A x \in DOMAIN c : x # b => e[x] = c[x]
      /\ e = [x \in DOMAIN c |-> IF x = b THEN d ELSE c[x]]
  BY DEF With
<1> HIDE DEF j, e
<1>4. j.block[b] = d
  BY <1>2 DEF Up, Holds
<1>5. d \notin {NoFile, Unwritten}
  BY VersionsAssumption
<1>6. Holds(j, e, l)
  <2>1. /\ DOMAIN e \subseteq Blocks
        /\ e \in [DOMAIN e -> Data \cup {Unwritten}]
    BY <1>1, <1>3 DEF Up, Holds
  <2>2. \A x \in DOMAIN e : /\ e[x] # Unwritten => j.block[x] = e[x]
                            /\ j.version = 1 => j.block[x] # NoFile
    <3> TAKE x \in DOMAIN e
    <3>1. CASE x = b
      BY <1>3, <1>4, <1>5, <3>1
    <3>2. CASE x # b
      <4>1. x \in DOMAIN c /\ x \in Blocks /\ e[x] = c[x] /\ c[x] \in Data \cup {Unwritten}
        BY <1>3, <3>2 DEF Up, Holds
      <4>2. /\ j.version # 0 => j.block[x] = k.block[x]
            /\ j.version = 1 => k.block[x] # NoFile
        BY <1>2, <3>2, <4>1 DEF Up, Holds
      <4>3. e[x] # Unwritten => k.block[x] = e[x] /\ k.block[x] # NoFile
        BY <4>1, VersionsAssumption DEF Up, Holds
      <4> QED
        BY <1>2, <3>2, <4>1, <4>2, <4>3
    <3> QED
      BY <3>1, <3>2
  <2>3. /\ j.version # 0 /\ ~l => \A x \in Blocks : x \notin DOMAIN e => j.block[x] = NoFile
        /\ j.version # 0 /\ ~l =>
             \A x \in DOMAIN e : e[x] = Unwritten => j.block[x] \in {Empty, Zero}
    BY <1>1, <1>2, <1>3, <1>5 DEF Up, Holds
  <2>4. j \in Devices /\ l \in BOOLEAN
    BY <1>2 DEF Up, Holds
  <2> QED
    BY <2>1, <2>2, <2>3, <2>4, Zenon DEF Holds
<1>7. Live(j) = Live(k)
  BY <1>2 DEF Live
<1>8. s \subseteq SavedLive(j)
  BY <1>2 DEF Up, SavedLive
<1>9. Up(j, e, s, l)
  BY <1>2, <1>3, <1>6, <1>7, <1>8 DEF Up
<1> QED
  BY <1>9 DEF j, e

LEMMA FreeUp ==
  ASSUME NEW k, NEW c, NEW s, NEW l, Up(k, c, s, l), NEW b \in DOMAIN c
  PROVE  Up(free_block(k, b), Only(c, Blocks \ {b}), s \ {b}, l)
<1> DEFINE j == free_block(k, b)
           e == Only(c, Blocks \ {b})
<1>1. k \in Devices /\ Kept(k) /\ b \in Live(k) /\ b \in Blocks
  BY DEF Up, Holds
<1>2. /\ j \in Devices /\ Kept(j)
      /\ Live(j) = Live(k) \ {b}
      /\ j.version = k.version /\ j.meta = k.meta
      /\ k.version # 0 => j.block[b] = NoFile
      /\ \A x \in Live(k) \ {b} : j.block[x] = k.block[x]
      /\ \A x \in Blocks : j.block[x] \in {k.block[x], NoFile}
  BY <1>1, FreeIs
<1>3. /\ DOMAIN e = DOMAIN c \ {b}
      /\ \A x \in DOMAIN e : e[x] = c[x]
      /\ e = [x \in DOMAIN c \ {b} |-> c[x]]
  <2>1. DOMAIN c \cap (Blocks \ {b}) = DOMAIN c \ {b}
    BY DEF Up, Holds
  <2> QED
    BY <2>1 DEF Only
<1> HIDE DEF j, e
<1>4. Holds(j, e, l)
  <2>1. /\ DOMAIN e \subseteq Blocks
        /\ e \in [DOMAIN e -> Data \cup {Unwritten}]
    BY <1>1, <1>3 DEF Up, Holds
  <2>2. \A x \in DOMAIN e : x \in DOMAIN c /\ j.block[x] = k.block[x]
    BY <1>2, <1>3 DEF Up
  <2>3. /\ j.version # 0 /\ ~l => \A x \in Blocks : x \notin DOMAIN e => j.block[x] = NoFile
        /\ j.version # 0 /\ ~l =>
             \A x \in DOMAIN e : e[x] = Unwritten => j.block[x] \in {Empty, Zero}
    BY <1>1, <1>2, <1>3, <2>2 DEF Up, Holds
  <2> QED
    BY <1>2, <1>3, <2>1, <2>2, <2>3 DEF Up, Holds
<1>5. s \ {b} \subseteq SavedLive(j)
  BY <1>2 DEF Up, SavedLive
<1>6. Up(j, e, s \ {b}, l)
  BY <1>2, <1>3, <1>4, <1>5 DEF Up
<1> QED
  BY <1>6 DEF j, e

(* Contents that are restricted to blocks the client owned are still held. *)
LEMMA OnlyHolds ==
  ASSUME NEW k, NEW c, NEW l, Holds(k, c, l), NEW s, s \subseteq DOMAIN c
  PROVE  DOMAIN Only(c, s) = s /\ Holds(k, Only(c, s), TRUE)
<1> DEFINE e == Only(c, s)
<1>1. DOMAIN e = s /\ e = [x \in s |-> c[x]]
  BY DEF Only
<1> HIDE DEF e
<1>2. \A x \in s : e[x] = c[x]
  BY <1>1
<1>3. e \in [DOMAIN e -> Data \cup {Unwritten}]
  BY <1>1 DEF Holds
<1>4. \A x \in DOMAIN e : /\ e[x] # Unwritten => k.block[x] = e[x]
                          /\ k.version = 1 => k.block[x] # NoFile
  BY <1>1, <1>2 DEF Holds
<1>5. DOMAIN e \subseteq Blocks /\ k \in Devices
  BY <1>1 DEF Holds
<1>6. Holds(k, e, TRUE)
  BY <1>3, <1>4, <1>5 DEF Holds
<1> QED
  BY <1>1, <1>6 DEF e

(* A device that differs in its counter, its queue or its meta block only. *)
LEMMA SameHolds ==
  ASSUME NEW k, NEW j \in Devices, NEW c, NEW l, Holds(k, c, l),
         j.version = k.version, j.block = k.block
  PROVE  Holds(j, c, l)
BY DEF Holds

(* block_dev_init finds what was saved, or starts anew where nothing was.  *)
LEMMA InitIs ==
  ASSUME NEW k \in Devices, Kept(k)
  PROVE  LET j == block_dev_init(k)
         IN /\ j \in Devices /\ Kept(j)
            /\ j.version = k.version /\ j.block = k.block
            /\ Live(j) = SavedLive(k) /\ SavedLive(j) = SavedLive(k)
            /\ j.meta = IF k.meta = NoFile THEN Empty ELSE k.meta
            /\ k.meta \in {NoFile, Empty} => j.next_alloc = 0 /\ j.freed = {}
            /\ k.meta \notin {NoFile, Empty} =>
                 j.next_alloc = k.meta.next_alloc /\ j.freed = k.meta.freed
<1> DEFINE j == block_dev_init(k)
           n == IF k.meta \in {NoFile, Empty} THEN 0 ELSE k.meta.next_alloc
           f == IF k.meta \in {NoFile, Empty} THEN {} ELSE k.meta.freed
           m == IF k.meta = NoFile THEN Empty ELSE k.meta
<1>1. j = [k EXCEPT !.next_alloc = n, !.freed = f, !.meta = m]
  BY DEF block_dev_init, Forgotten, Devices
<1>2. n \in 0..MaxBlocks /\ f \in SUBSET Blocks /\ m \in States \cup {NoFile, Empty}
  BY BackendsAssumption DEF Devices
<1> HIDE DEF j, n, f, m
<1>3. /\ j.version = k.version /\ j.block = k.block
      /\ j.next_alloc = n /\ j.freed = f /\ j.meta = m
  BY <1>1 DEF Devices
<1>4. j \in Devices
  BY <1>1, <1>2 DEF Devices
<1>5. /\ k.meta \in {NoFile, Empty} => n = 0 /\ f = {} /\ m = Empty
      /\ k.meta \notin {NoFile, Empty} => n = k.meta.next_alloc /\ f = k.meta.freed /\ m = k.meta
  BY DEF n, f, m
<1>6. Kept(j)
  BY <1>3, <1>5 DEF Kept
<1>7. Live(j) = SavedLive(k) /\ SavedLive(j) = SavedLive(k)
  <2>1. CASE k.meta \in {NoFile, Empty}
    BY <1>3, <1>5, <2>1 DEF Live, SavedLive
  <2>2. CASE k.meta \notin {NoFile, Empty}
    BY <1>3, <1>5, <2>2 DEF Live, SavedLive
  <2> QED
    BY <2>1, <2>2
<1> QED
  BY <1>3, <1>4, <1>5, <1>6, <1>7 DEF j, m

LEMMA InitUp ==
  ASSUME NEW k, NEW c, NEW s, NEW l, Down(k, c, s, l)
  PROVE  Up(block_dev_init(k), c, s, l)
<1> DEFINE j == block_dev_init(k)
<1>1. k \in Devices /\ Kept(k) /\ Holds(k, c, l)
  BY DEF Down, Holds
<1>2. /\ j \in Devices /\ Kept(j)
      /\ j.version = k.version /\ j.block = k.block
      /\ Live(j) = SavedLive(k) /\ SavedLive(j) = SavedLive(k)
  BY <1>1, InitIs
<1> HIDE DEF j
<1>3. Holds(j, c, l)
  BY <1>1, <1>2, SameHolds
<1>4. Up(j, c, s, l)
  BY <1>2, <1>3 DEF Down, Up
<1> QED
  BY <1>4 DEF j

(* A save that fits: all that the client owns is counted as in use by the  *)
(* session that follows.                                                   *)
LEMMA SaveDown ==
  ASSUME NEW k, NEW c, NEW s, NEW l, Up(k, c, s, l), Fits(k)
  PROVE  /\ Down(Forgotten(save_state(k)), c, DOMAIN c, l)
         /\ Forgotten(save_state(k)).block = k.block
         /\ Forgotten(save_state(k)).version = k.version
         /\ Forgotten(save_state(k)).meta = State(k.next_alloc, k.freed)
<1> DEFINE j == Forgotten(save_state(k))
<1>1. k \in Devices /\ Kept(k) /\ Holds(k, c, l)
  BY DEF Up, Holds
<1>2. j = [k EXCEPT !.next_alloc = 0, !.freed = {}, !.meta = State(k.next_alloc, k.freed)]
  BY <1>1 DEF Forgotten, save_state, Devices
<1>3. State(k.next_alloc, k.freed) \in States
  BY <1>1 DEF Devices
<1> HIDE DEF j
<1>4. /\ j.version = k.version /\ j.block = k.block
      /\ j.next_alloc = 0 /\ j.freed = {} /\ j.meta = State(k.next_alloc, k.freed)
  BY <1>1, <1>2 DEF Devices
<1>5. j \in Devices
  <2>1. j = [version |-> j.version, next_alloc |-> j.next_alloc, freed |-> j.freed,
             block |-> j.block, meta |-> j.meta]
    BY <1>1, <1>2 DEF Devices
  <2>2. 0 \in 0..MaxBlocks /\ {} \in SUBSET Blocks
    BY BackendsAssumption
  <2> QED
    BY <1>1, <1>3, <1>4, <2>1, <2>2 DEF Devices
<1>6. /\ j.meta.next_alloc = k.next_alloc /\ j.meta.freed = k.freed
      /\ j.meta \notin {NoFile, Empty}
  BY <1>3, <1>4, VersionsAssumption
<1>7. Kept(j)
  BY <1>1, <1>4, <1>6 DEF Kept
<1>8. SavedLive(j) = Live(k)
  BY <1>6 DEF SavedLive, Live
<1>9. Holds(j, c, l)
  BY <1>1, <1>4, <1>5, SameHolds
<1>10. Down(j, c, DOMAIN c, l)
  BY <1>7, <1>8, <1>9 DEF Up, Down
<1> QED
  BY <1>4, <1>10 DEF j

(* A session that ends without a save.                                     *)
LEMMA LoseDown ==
  ASSUME NEW k, NEW c, NEW s, NEW l, Up(k, c, s, l)
  PROVE  Down(Forgotten(k), Only(c, s), s, TRUE)
<1> DEFINE j == Forgotten(k)
           e == Only(c, s)
<1>1. k \in Devices /\ Kept(k) /\ Holds(k, c, l) /\ s \subseteq DOMAIN c
  BY DEF Up, Holds
<1>2. j = [k EXCEPT !.next_alloc = 0, !.freed = {}]
  BY DEF Forgotten
<1>3. DOMAIN e = s /\ Holds(k, e, TRUE)
  BY <1>1, OnlyHolds
<1> HIDE DEF j, e
<1>4. /\ j.version = k.version /\ j.block = k.block
      /\ j.next_alloc = 0 /\ j.freed = {} /\ j.meta = k.meta
  BY <1>1, <1>2 DEF Devices
<1>5. j \in Devices
  <2>1. j = [version |-> j.version, next_alloc |-> j.next_alloc, freed |-> j.freed,
             block |-> j.block, meta |-> j.meta]
    BY <1>1, <1>2 DEF Devices
  <2>2. 0 \in 0..MaxBlocks /\ {} \in SUBSET Blocks
    BY BackendsAssumption
  <2> QED
    BY <1>1, <1>4, <2>1, <2>2 DEF Devices
<1>6. Kept(j)
  BY <1>1, <1>4 DEF Kept
<1>7. SavedLive(j) = SavedLive(k)
  BY <1>4 DEF SavedLive
<1>8. Holds(j, e, TRUE)
  BY <1>3, <1>4, <1>5, SameHolds
<1>9. Down(j, e, s, TRUE)
  BY <1>3, <1>6, <1>7, <1>8 DEF Up, Down
<1> QED
  BY <1>9 DEF j, e

(* An image that was lost, or left without data, while it was written.     *)
LEMMA CutIs ==
  ASSUME NEW k \in Devices, NEW b \in Blocks, NEW x \in {NoFile, Empty}
  PROVE  LET j == [k EXCEPT !.block[b] = x]
         IN /\ j \in Devices /\ (Kept(k) => Kept(j))
            /\ j.version = k.version /\ j.next_alloc = k.next_alloc
            /\ j.freed = k.freed /\ j.meta = k.meta
            /\ j.block[b] = x
            /\ \A y \in Blocks \ {b} : j.block[y] = k.block[y]
<1> DEFINE j == [k EXCEPT !.block[b] = x]
<1>1. /\ j.version = k.version /\ j.next_alloc = k.next_alloc
      /\ j.freed = k.freed /\ j.meta = k.meta
      /\ j.block = [k.block EXCEPT ![b] = x]
  BY DEF Devices
<1>2. j \in Devices
  BY DEF Devices
<1> HIDE DEF j
<1>3. /\ j.block[b] = x
      /\ \A y \in Blocks \ {b} : j.block[y] = k.block[y]
  BY <1>1 DEF Devices
<1>4. Kept(k) => Kept(j)
  BY <1>1 DEF Kept
<1> QED
  BY <1>1, <1>2, <1>3, <1>4 DEF j

LEMMA CutUp ==
  ASSUME NEW k, NEW c, NEW s, NEW l, Up(k, c, s, l), k.version = 2,
         NEW b \in DOMAIN c, NEW x \in {NoFile, Empty}
  PROVE  Up([k EXCEPT !.block[b] = x], With(c, b, Unwritten), s, TRUE)
<1> DEFINE j == [k EXCEPT !.block[b] = x]
           e == With(c, b, Unwritten)
<1>1. k \in Devices /\ Kept(k) /\ b \in Blocks
  BY DEF Up, Holds
<1>2. /\ j \in Devices /\ Kept(j)
      /\ j.version = 2 /\ j.next_alloc = k.next_alloc
      /\ j.freed = k.freed /\ j.meta = k.meta
      /\ \A y \in Blocks \ {b} : j.block[y] = k.block[y]
  BY <1>1, CutIs
<1>3. /\ DOMAIN e = DOMAIN c /\ e[b] = Unwritten
      /\ \A y \in DOMAIN c : y # b => e[y] = c[y]
      /\ e = [y \in DOMAIN c |-> IF y = b THEN Unwritten ELSE c[y]]
  BY DEF With
<1> HIDE DEF j, e
<1>4. Holds(j, e, TRUE)
  <2>1. /\ DOMAIN e \subseteq Blocks
        /\ e \in [DOMAIN e -> Data \cup {Unwritten}]
    BY <1>1, <1>3 DEF Up, Holds
  <2>2. \A y \in DOMAIN e : e[y] # Unwritten => j.block[y] = e[y]
    BY <1>2, <1>3 DEF Up, Holds
  <2> QED
    BY <1>2, <2>1, <2>2 DEF Holds
<1>5. Live(j) = Live(k) /\ SavedLive(j) = SavedLive(k)
  BY <1>2 DEF Live, SavedLive
<1>6. Up(j, e, s, TRUE)
  BY <1>2, <1>3, <1>4, <1>5 DEF Up
<1> QED
  BY <1>6 DEF j, e

(* A meta block that was lost while the state was saved.                   *)
LEMMA CutSaveUp ==
  ASSUME NEW k, NEW c, NEW s, NEW l, Up(k, c, s, l), NEW x \in {NoFile, Empty}
  PROVE  LET j == [k EXCEPT !.meta = x]
         IN /\ Up(j, c, {}, l)
            /\ j.freed = k.freed /\ j.meta = x /\ j.block = k.block
<1> DEFINE j == [k EXCEPT !.meta = x]
<1>1. k \in Devices /\ Kept(k) /\ Holds(k, c, l)
  BY DEF Up, Holds
<1>2. /\ j.version = k.version /\ j.next_alloc = k.next_alloc
      /\ j.freed = k.freed /\ j.meta = x /\ j.block = k.block
      /\ j \in Devices
  BY <1>1 DEF Devices
<1> HIDE DEF j
<1>3. Holds(j, c, l)
  BY <1>1, <1>2, SameHolds
<1>4. Kept(j) /\ Live(j) = Live(k)
  BY <1>1, <1>2 DEF Kept, Live
<1>5. Up(j, c, {}, l)
  BY <1>3, <1>4 DEF Up
<1> QED
  BY <1>2, <1>5 DEF j

-----------------------------------------------------------------------------
(* Any client. *)

LEMMA InvHoldsFirst == Init => Inv
<1> SUFFICES ASSUME Init PROVE Down(device, contents, safe, lost)
  BY DEF Init, Inv
<1>2. PICK v \in VERSION : device = NewDevice(v)
  BY DEF Init
<1>3. device \in Devices
  BY <1>2, BackendsAssumption DEF NewDevice, Devices
<1>4. /\ device.meta = NoFile /\ device.freed = {} /\ device.next_alloc = 0
      /\ \A b \in Blocks : device.block[b] = NoFile
  BY <1>2 DEF NewDevice
<1>5. DOMAIN contents = {} /\ safe = {} /\ lost = FALSE
  BY DEF Init
<1>6. contents \in [DOMAIN contents -> Data \cup {Unwritten}]
  BY DEF Init
<1>7. Holds(device, contents, lost)
  BY <1>3, <1>4, <1>5, <1>6 DEF Holds
<1>8. Kept(device) /\ SavedLive(device) = {}
  BY <1>4 DEF Kept, SavedLive
<1> QED
  BY <1>5, <1>7, <1>8 DEF Down

(* Every step of a client that uses the block layer as it is meant to be.  *)
LEMMA InvHoldsNext == Inv /\ Next => Inv'
<1> SUFFICES ASSUME Inv, Next PROVE Inv'
  OBVIOUS
<1>1. ASSUME Mount PROVE Inv'
  <2>1. Down(device, contents, safe, lost)
    BY <1>1 DEF Mount, Inv
  <2>2. CASE Undefined(device) /\ dev' = "undefined" /\ UNCHANGED device
    <3>1. Holds(device, contents, lost) /\ safe \subseteq owned
      BY <2>1 DEF Down
    <3> QED
      BY <1>1, <2>2, <3>1 DEF Mount, Inv
  <2>3. CASE dev' = "up" /\ device' = block_dev_init(device)
    <3>1. Up(device', contents, safe, lost)
      BY <2>1, <2>3, InitUp
    <3> QED
      BY <1>1, <2>3, <3>1 DEF Mount, Inv
  <2> QED
    BY <1>1, <2>2, <2>3 DEF Mount
<1>2. ASSUME Allocate PROVE Inv'
  <2>1. Up(device, contents, safe, lost)
    BY <1>2 DEF Allocate, Inv
  <2>2. NewBlock(device) \in Blocks
    <3>1. NewBlock(device) \in Nat
      <4>1. device \in Devices /\ Kept(device)
        BY <2>1 DEF Up, Holds
      <4>2. NewBlock(device) \in IF device.freed = {} THEN {device.next_alloc} ELSE device.freed
        BY <4>1, NewBlockIs
      <4> QED
        BY <4>1, <4>2, BackendsAssumption DEF Devices
    <3>2. NewBlock(device) < MaxClient
      BY <1>2 DEF Allocate
    <3> QED
      BY <3>1, <3>2, BackendsAssumption, VersionsAssumption
  <2>3. /\ Up(allocate_block(device), With(contents, NewBlock(device), Unwritten), safe, lost)
        /\ safe \ {NewBlock(device)} = safe
    BY <2>1, <2>2, AllocateUp
  <2>4. Up(device', contents', safe', lost')
    BY <1>2, <2>3 DEF Allocate
  <2> QED
    BY <1>2, <2>4 DEF Allocate, Inv
<1>3. ASSUME Unmount PROVE Inv'
  <2>1. Up(device, contents, safe, lost)
    BY <1>3 DEF Unmount, Inv
  <2>2. CASE Overruns(device) /\ dev' = "undefined" /\ UNCHANGED <<device, contents, safe, lost>>
    BY <2>1, <2>2 DEF Inv, Up
  <2>3. CASE /\ dev' = "down" /\ device' = Forgotten(save_state(device))
             /\ Fits(device) /\ safe' = owned /\ UNCHANGED <<contents, lost>>
    <3>1. Down(device', contents, owned, lost)
      BY <2>1, <2>3, SaveDown
    <3> QED
      BY <2>3, <3>1 DEF Inv
  <2>4. CASE /\ dev' = "down" /\ device' = Forgotten(save_state(device))
             /\ ~Fits(device) /\ Loses
    <3>1. device' = Forgotten(device)
      BY <2>4 DEF save_state
    <3>2. Down(device', contents', safe', lost')
      BY <2>1, <2>4, <3>1, LoseDown DEF Loses
    <3> QED
      BY <2>4, <3>2 DEF Inv
  <2> QED
    BY <1>3, <2>2, <2>3, <2>4 DEF Unmount
<1>4. ASSUME Crash PROVE Inv'
  <2>1. Up(device, contents, safe, lost)
    BY <1>4 DEF Crash, Inv
  <2>2. Down(device', contents', safe', lost')
    BY <1>4, <2>1, LoseDown DEF Crash, Loses
  <2> QED
    BY <1>4, <2>2 DEF Crash, Inv
<1>5. ASSUME NEW b \in Blocks, Free(b) PROVE Inv'
  <2>1. Up(device, contents, safe, lost) /\ b \in owned
    BY <1>5 DEF Free, Inv
  <2>2. Up(device', contents', safe', lost')
    BY <1>5, <2>1, FreeUp DEF Free
  <2> QED
    BY <1>5, <2>2 DEF Free, Inv
<1>6. ASSUME NEW b \in Blocks, NEW d \in Data, Write(b, d) PROVE Inv'
  <2>1. Up(device, contents, safe, lost) /\ b \in owned
    BY <1>6 DEF Write, Inv
  <2>2. Up(device', contents', safe', lost')
    BY <1>6, <2>1, WriteUp DEF Write
  <2> QED
    BY <1>6, <2>2 DEF Write, Inv
<1> QED
  BY <1>1, <1>2, <1>3, <1>4, <1>5, <1>6 DEF Next

-----------------------------------------------------------------------------
(* What the invariant is good for. *)

LEMMA InvTypes == Inv => TypeOK
<1> SUFFICES ASSUME Inv PROVE TypeOK
  OBVIOUS
<1>1. Holds(device, contents, lost) /\ safe \subseteq owned
  BY DEF Inv, Up, Down
<1> QED
  BY <1>1 DEF Inv, Holds, TypeOK, Devices

LEMMA InvSound == Inv => AllocatorSound
<1> SUFFICES ASSUME Inv PROVE AllocatorSound
  OBVIOUS
<1>1. dev = "up" => Sound(device.next_alloc, device.freed)
  BY DEF Inv, Up, Live, Sound
<1>2. dev = "down" /\ device.meta \notin {NoFile, Empty} =>
        Sound(device.meta.next_alloc, device.meta.freed)
  BY DEF Inv, Down, SavedLive, Sound
<1> QED
  BY <1>1, <1>2 DEF AllocatorSound

LEMMA InvSticks == Inv => WritesStick
<1> SUFFICES ASSUME Inv, dev = "up", NEW b \in owned, contents[b] # Unwritten
             PROVE  read_block(device, b) = [val |-> 0, data |-> contents[b]]
  BY DEF WritesStick
<1>1. Up(device, contents, safe, lost)
  BY DEF Inv
<1>2. device.block[b] = contents[b] /\ contents[b] \in Data
  BY <1>1 DEF Up, Holds
<1>3. ~(b >= device.next_alloc)
  BY <1>1 DEF Up, Holds, Live, Devices
<1> QED
  BY <1>2, <1>3, VersionsAssumption DEF read_block, Readable

LEMMA InvGone == Inv => FreedDataGone
<1> SUFFICES ASSUME Inv, device.version # 0, ~lost, NEW b \in Blocks
             PROVE  /\ b \notin owned => device.block[b] = NoFile
                    /\ b \in owned => \/ contents[b] = device.block[b]
                                      \/ device.block[b] \in {Empty, Zero}
  BY DEF FreedDataGone
<1>1. Holds(device, contents, lost)
  BY DEF Inv, Up, Down
<1> QED
  BY <1>1 DEF Holds

LEMMA InvStutters == Inv /\ UNCHANGED vars => Inv'
BY DEF Inv, vars

LEMMA InvAlways == Spec => []Inv
<1>1. Init => Inv
  BY InvHoldsFirst
<1>2. Inv /\ [Next]_vars => Inv'
  BY InvHoldsNext, InvStutters
<1> QED
  BY <1>1, <1>2, PTL DEF Spec

-----------------------------------------------------------------------------
(* The prototype file system. *)
Found == [root |-> 1, inode_block |-> 2]

(* The counter that the next start finds.                                  *)
SavedNext(k) == IF k.meta \in {NoFile, Empty} THEN 0 ELSE k.meta.next_alloc

(* Nothing is ever freed.                                                  *)
Clean(k) == k.freed = {} /\ (k.meta \notin {NoFile, Empty} => k.meta.freed = {})

(* Superblock s is that of a file system whose blocks, as far as they are  *)
(* below n, hold its root directory and something to read a table from.    *)
Rooted(k, s, n) ==
  /\ s.root \in Nat \ {0} /\ s.inode_block \in Nat \ {0, s.root}
  /\ s.root < n => k.block[s.root] = RootDir
Tables == {InodeTable, SuperBlock}
Complete(k, s, n) ==
  /\ Rooted(k, s, n)
  /\ s.inode_block < n => k.block[s.inode_block] \in Tables \cup {NoFile, Empty}

(* What there is on disk after m crashes within the superblock's write, if *)
(* s was the last one written: each took the superblock of at most three   *)
(* blocks more.                                                            *)
Stored(k, m, s) ==
  LET n == SavedNext(k)
  IN /\ Clean(k)
     /\ n = 0 \/ n \in 3..(3 * (1 + m))
     /\ k.block[0] # SuperBlock => n <= 3 * m
     /\ k.block[0] = SuperBlock /\ n > 0 => Complete(k, s, n)
     /\ m = 0 /\ n > 0 => s = Found /\ n = 3

Running ==
  LET n == SavedNext(device)
  IN /\ device.next_alloc \in 3..(3 * (1 + cuts)) /\ n <= device.next_alloc
     /\ owned = 0..(device.next_alloc - 1)
     /\ Rooted(device, superblock, device.next_alloc)
     /\ inode_table \in Tables
     /\ device.block[0] = SuperBlock /\ n > 0 => superblock = on_disk
     /\ cuts = 0 => superblock = Found /\ device.next_alloc = 3

Prototype ==
  /\ dev \in {"up", "down"} /\ cuts \in Nat
  /\ Stored(device, cuts, on_disk)
  /\ safe = 0..(SavedNext(device) - 1)
  /\ dev = "up" => Running

MInv ==
  /\ client \in {"any", "memefs"}
  /\ Inv
  /\ client = "memefs" => Prototype

-----------------------------------------------------------------------------
LEMMA FirstBlocks ==
  /\ MaxBlocks \in Nat /\ MaxBlocks >= 3
  /\ 0 \in Blocks /\ 1 \in Blocks /\ 2 \in Blocks
<1>1. MaxBlocks \in Nat /\ MaxBlocks >= 3
  BY MemeFsAssumption, BackendsAssumption
<1> QED
  BY <1>1

(* What is in the prototype's blocks is none of the special contents.      *)
LEMMA Contents ==
  /\ SuperBlock \in Data /\ InodeTable \in Data /\ RootDir \in Data
  /\ \A d \in Data : d \notin {NoFile, Empty, Untouched, Unwritten}
  /\ Zero # SuperBlock
BY MemeFsAssumption, VersionsAssumption

(* The counter that is saved is one, and none where nothing was saved.     *)
LEMMA SavedIs ==
  ASSUME NEW k \in Devices, Clean(k)
  PROVE  /\ SavedNext(k) \in 0..MaxBlocks
         /\ SavedLive(k) = 0..(SavedNext(k) - 1)
<1>1. CASE k.meta \in {NoFile, Empty}
  BY <1>1, FirstBlocks DEF SavedNext, SavedLive
<1>2. CASE k.meta \notin {NoFile, Empty}
  <2>1. k.meta.next_alloc \in 0..MaxBlocks /\ k.meta.freed = {}
    BY <1>2 DEF Devices, Clean
  <2> QED
    BY <1>2, <2>1, FirstBlocks DEF SavedNext, SavedLive
<1> QED
  BY <1>1, <1>2

(* What is on disk is told by the blocks that were saved.                  *)
LEMMA StoredSame ==
  ASSUME NEW k \in Devices, NEW j, NEW m \in Nat, NEW s, Stored(k, m, s),
         Clean(j), SavedNext(j) = SavedNext(k),
         \A x \in 0..(SavedNext(k) - 1) : j.block[x] = k.block[x]
  PROVE  Stored(j, m, s)
<1> DEFINE n == SavedNext(k)
<1>1. n \in Nat
  BY SavedIs, FirstBlocks DEF Stored
<1>2. CASE n = 0
  BY <1>2 DEF Stored
<1>3. CASE n > 0
  <2> HIDE DEF n
  <2>1. 0 \in 0..(n - 1) /\ j.block[0] = k.block[0]
    BY <1>1, <1>3 DEF n
  <2>2. Complete(k, s, n) => Complete(j, s, n)
    BY <1>1 DEF n, Complete, Rooted
  <2> QED
    BY <1>3, <2>1, <2>2 DEF Stored, n
<1> QED
  BY <1>1, <1>2, <1>3

-----------------------------------------------------------------------------
(* Making a file system. *)

(* Device j with contents e comes from k with c by blocks that were taken. *)
Grown(k, c, s, j, e, l) ==
  /\ Up(j, e, s, l)
  /\ j.freed = {} /\ j.meta = k.meta /\ j.version = k.version
  /\ DOMAIN e = 0..(j.next_alloc - 1) /\ j.next_alloc >= k.next_alloc
  /\ \A x \in DOMAIN c : j.block[x] = k.block[x]
  /\ Only(e, s) = Only(c, s)

(* Block numbers are handed out in order where none was given back; the    *)
(* new block may be left without data.                                     *)
LEMMA Grows ==
  ASSUME NEW k0, NEW c0, NEW s, NEW k, NEW c, NEW l, Grown(k0, c0, s, k, c, l),
         k0.next_alloc \in Nat, DOMAIN c0 = 0..(k0.next_alloc - 1), k.next_alloc < MaxBlocks
  PROVE  LET j == allocate_block(k)
             e == With(c, k.next_alloc, Unwritten)
         IN /\ NewBlock(k) = k.next_alloc
            /\ j.next_alloc = k.next_alloc + 1
            /\ Grown(k0, c0, s, j, e, l)
            /\ \A left \in allocate_cut(k) : Grown(k0, c0, s, left, e, TRUE)
<1> DEFINE b == k.next_alloc
           j == allocate_block(k)
           e == With(c, b, Unwritten)
<1>1. /\ k \in Devices /\ Kept(k) /\ k.freed = {} /\ b \in Nat /\ b \in Blocks
      /\ s \subseteq DOMAIN c /\ DOMAIN c = 0..(b - 1) /\ b >= k0.next_alloc
      /\ Up(k, c, s, l)
  BY FirstBlocks DEF Grown, Up, Holds, Devices
<1>2. NewBlock(k) = b
  BY <1>1, NewBlockIs
<1>3. /\ j.next_alloc = b + 1 /\ j.freed = {}
      /\ j.version = k.version /\ j.meta = k.meta
      /\ j.block = [k.block EXCEPT ![b] = Made(k, k.block[b])]
  BY <1>1, <1>2, AllocateIs
<1>4. Up(j, e, s, l)
  BY <1>1, <1>2, AllocateUp
<1>5. /\ DOMAIN e = 0..b /\ e[b] = Unwritten
      /\ \A x \in DOMAIN c : x # b /\ e[x] = c[x]
      /\ e = [x \in 0..b |-> IF x = b THEN Unwritten ELSE c[x]]
  <2>1. DOMAIN c \cup {b} = 0..b
    BY <1>1
  <2> QED
    BY <1>1, <2>1 DEF With
<1>6. With(e, b, Unwritten) = e
  <2>1. DOMAIN e \cup {b} = 0..b
    BY <1>1, <1>5
  <2> QED
    BY <1>5, <2>1 DEF With
<1>7. DOMAIN c0 \subseteq DOMAIN c
  BY <1>1
<1> HIDE DEF j, e
<1>8. Only(e, s) = Only(c0, s)
  <2>1. DOMAIN e \cap s = DOMAIN c \cap s
    BY <1>1, <1>5
  <2>2. \A x \in DOMAIN c \cap s : e[x] = c[x]
    BY <1>5
  <2>3. Only(e, s) = Only(c, s)
    BY <2>1, <2>2 DEF Only
  <2> QED
    BY <2>3 DEF Grown
<1>9. \A x \in DOMAIN c0 : j.block[x] = k0.block[x]
  <2>1. \A x \in DOMAIN c : x \in Blocks /\ x # b
    BY <1>1 DEF Up, Holds
  <2>2. \A x \in DOMAIN c : j.block[x] = k.block[x]
    BY <1>1, <1>3, <2>1 DEF Devices
  <2> QED
    BY <1>7, <2>2 DEF Grown
<1>10. Grown(k0, c0, s, j, e, l)
  <2>1. DOMAIN e = 0..(j.next_alloc - 1) /\ j.next_alloc >= k0.next_alloc
    BY <1>1, <1>3, <1>5
  <2> QED
    BY <1>3, <1>4, <1>8, <1>9, <2>1 DEF Grown
<1>11. ASSUME NEW left \in allocate_cut(k) PROVE Grown(k0, c0, s, left, e, TRUE)
  <2>1. k.version = 2 /\ left = [j EXCEPT !.block[b] = Empty]
    BY <1>2 DEF allocate_cut, j
  <2>2. b \in DOMAIN e /\ j \in Devices
    BY <1>1, <1>4, <1>5 DEF Up, Holds
  <2>3. Up(left, With(e, b, Unwritten), s, TRUE)
    BY <1>3, <1>4, <2>1, <2>2, CutUp
  <2>4. /\ left.version = j.version /\ left.next_alloc = j.next_alloc
        /\ left.freed = j.freed /\ left.meta = j.meta
        /\ \A x \in Blocks \ {b} : left.block[x] = j.block[x]
    BY <1>1, <2>1, <2>2, CutIs
  <2>5. \A x \in DOMAIN c0 : x \in Blocks \ {b}
    BY <1>1, <1>7 DEF Up, Holds
  <2> QED
    BY <1>6, <1>10, <2>3, <2>4, <2>5 DEF Grown
<1> QED
  BY <1>2, <1>3, <1>10, <1>11 DEF j, e

(* A new file system takes the next three blocks, and dies while doing so  *)
(* with nothing changed but those.                                         *)
LEMMA FormatIs ==
  ASSUME NEW k, NEW c, NEW s, NEW l, Up(k, c, s, l), k.freed = {},
         DOMAIN c = 0..(k.next_alloc - 1), k.next_alloc + 3 <= MaxBlocks
  PROVE  LET n  == k.next_alloc
             k1 == allocate_block(k)
             k2 == allocate_block(k1)
             k3 == allocate_block(k2)
             c1 == With(c, n, Unwritten)
             c2 == With(c1, n + 1, Unwritten)
             c3 == With(c2, n + 2, Unwritten)
         IN /\ NewBlock(k) = n /\ NewBlock(k1) = n + 1 /\ NewBlock(k2) = n + 2
            /\ Grown(k, c, s, k3, c3, l) /\ k3.next_alloc = n + 3
            /\ \A left \in {k, k1, k2, k3} \cup allocate_cut(k) \cup allocate_cut(k1)
                            \cup allocate_cut(k2) \cup write_cut(k3, n + 1) :
                 \E e : Grown(k, c, s, left, e, TRUE)
<1> DEFINE n  == k.next_alloc
           k1 == allocate_block(k)
           k2 == allocate_block(k1)
           k3 == allocate_block(k2)
           c1 == With(c, n, Unwritten)
           c2 == With(c1, n + 1, Unwritten)
           c3 == With(c2, n + 2, Unwritten)
<1>1. n \in Nat /\ k \in Devices
  BY FirstBlocks DEF Up, Holds, Devices
<1>2. Grown(k, c, s, k, c, l)
  BY <1>1 DEF Grown
<1>3. /\ NewBlock(k) = n /\ k1.next_alloc = n + 1
      /\ Grown(k, c, s, k1, c1, l)
      /\ \A left \in allocate_cut(k) : Grown(k, c, s, left, c1, TRUE)
  <2>1. k.next_alloc \in Nat /\ k.next_alloc < MaxBlocks
    BY <1>1, FirstBlocks
  <2> QED
    BY <1>2, <2>1, Grows, ZenonT(60)
<1> HIDE DEF k1, c1
<1>4. /\ NewBlock(k1) = n + 1 /\ k2.next_alloc = n + 2
      /\ Grown(k, c, s, k2, c2, l)
      /\ \A left \in allocate_cut(k1) : Grown(k, c, s, left, c2, TRUE)
  <2>1. /\ NewBlock(k1) = k1.next_alloc /\ k2.next_alloc = k1.next_alloc + 1
        /\ Grown(k, c, s, k2, With(c1, k1.next_alloc, Unwritten), l)
        /\ \A left \in allocate_cut(k1) :
             Grown(k, c, s, left, With(c1, k1.next_alloc, Unwritten), TRUE)
    <3>1. k.next_alloc \in Nat /\ k1.next_alloc < MaxBlocks
      BY <1>1, <1>3, FirstBlocks
    <3> QED
      BY <1>3, <3>1, Grows, ZenonT(60)
  <2>2. k1.next_alloc = n + 1 /\ k1.next_alloc + 1 = n + 2
    BY <1>1, <1>3
  <2>3. With(c1, k1.next_alloc, Unwritten) = c2
    BY <2>2
  <2> HIDE DEF n, k2, c2
  <2> QED
    BY <2>1, <2>2, <2>3, Zenon
<1> HIDE DEF k2
<1>5. c2[n + 1] = Unwritten /\ n + 1 \in DOMAIN c2
  BY DEF With
<1> HIDE DEF c2
<1>6. /\ NewBlock(k2) = n + 2 /\ k3.next_alloc = n + 3
      /\ Grown(k, c, s, k3, c3, l)
      /\ \A left \in allocate_cut(k2) : Grown(k, c, s, left, c3, TRUE)
  <2>1. /\ NewBlock(k2) = k2.next_alloc /\ k3.next_alloc = k2.next_alloc + 1
        /\ Grown(k, c, s, k3, With(c2, k2.next_alloc, Unwritten), l)
        /\ \A left \in allocate_cut(k2) :
             Grown(k, c, s, left, With(c2, k2.next_alloc, Unwritten), TRUE)
    <3>1. k.next_alloc \in Nat /\ k2.next_alloc < MaxBlocks
      BY <1>1, <1>4, FirstBlocks
    <3> QED
      BY <1>4, <3>1, Grows, ZenonT(60)
  <2>2. k2.next_alloc = n + 2 /\ k2.next_alloc + 1 = n + 3
    BY <1>1, <1>4
  <2>3. With(c2, k2.next_alloc, Unwritten) = c3
    BY <2>2
  <2> HIDE DEF n, k3, c3
  <2> QED
    BY <2>1, <2>2, <2>3, Zenon
<1>7. /\ n + 1 \in DOMAIN c3 /\ c3[n + 1] = Unwritten
      /\ c3 = [x \in DOMAIN c3 |-> c3[x]]
  BY <1>1, <1>5 DEF With
<1> HIDE DEF k3, c3
<1>8. \A j, e : Grown(k, c, s, j, e, l) => Grown(k, c, s, j, e, TRUE)
  BY DEF Grown, Up, Holds
<1>9. ASSUME NEW left \in write_cut(k3, n + 1) PROVE Grown(k, c, s, left, c3, TRUE)
  <2>1. PICK x \in {NoFile, Empty} : k3.version = 2 /\ left = [k3 EXCEPT !.block[n + 1] = x]
    BY DEF write_cut
  <2>2. Up(k3, c3, s, l) /\ k3 \in Devices /\ n + 1 \in Blocks
    BY <1>1, <1>6 DEF Grown, Up, Holds
  <2>3. Up(left, With(c3, n + 1, Unwritten), s, TRUE)
    BY <1>7, <2>1, <2>2, CutUp
  <2>4. With(c3, n + 1, Unwritten) = c3
    <3>1. DOMAIN c3 \cup {n + 1} = DOMAIN c3
      BY <1>7
    <3> QED
      BY <1>7, <3>1 DEF With
  <2>5. /\ left.version = k3.version /\ left.next_alloc = k3.next_alloc
        /\ left.freed = k3.freed /\ left.meta = k3.meta
        /\ \A y \in Blocks \ {n + 1} : left.block[y] = k3.block[y]
    BY <2>1, <2>2, CutIs
  <2>6. \A y \in DOMAIN c : y \in Blocks \ {n + 1}
    BY <1>1 DEF Up, Holds
  <2> QED
    BY <1>6, <2>3, <2>4, <2>5, <2>6 DEF Grown
<1> QED
  BY <1>2, <1>3, <1>4, <1>6, <1>8, <1>9 DEF k1, k2, k3, c1, c2, c3

-----------------------------------------------------------------------------
(* What a process that died left can be started from.                      *)
LEMMA DiedWell ==
  ASSUME NEW k, NEW c, NEW S, NEW l, Up(k, c, S, l), Dies(k, c, S),
         cuts' \in Nat, Stored(k, cuts', on_disk'), S = 0..(SavedNext(k) - 1)
  PROVE  (Inv /\ Prototype)'
<1>1. dev' = "down" /\ lost' = TRUE /\ safe' = S
  BY DEF Dies
<1>2. device' = Forgotten(k) /\ contents' = Only(c, S)
  BY DEF Dies
<1>3. Down(device', contents', safe', lost')
  BY <1>1, <1>2, LoseDown
<1>4. k \in Devices /\ k.freed = {}
  BY DEF Up, Holds, Stored, Clean
<1>5. /\ device'.meta = k.meta /\ device'.block = k.block /\ device'.freed = {}
  BY <1>2, <1>4 DEF Forgotten, Devices
<1>6. Clean(device') /\ SavedNext(device') = SavedNext(k)
  BY <1>5 DEF Clean, SavedNext, Stored
<1>7. Stored(device', cuts', on_disk')
  BY <1>4, <1>5, <1>6, StoredSame
<1>8. Inv'
  BY <1>1, <1>3 DEF Inv
<1> QED
  BY <1>1, <1>6, <1>7, <1>8 DEF Prototype, Stored, Clean, SavedNext, Complete, Rooted

(* A block of the prototype is written.                                    *)
LEMMA WriteKeeps ==
  ASSUME NEW k, NEW c, NEW s, NEW l, Up(k, c, s, l), Clean(k),
         NEW b \in DOMAIN c, NEW d \in Data
  PROVE  LET j == write_block(k, b, d)
         IN /\ Up(j, With(c, b, d), s, l) /\ DOMAIN With(c, b, d) = DOMAIN c
            /\ j.version = k.version /\ j.next_alloc = k.next_alloc
            /\ Clean(j) /\ SavedNext(j) = SavedNext(k)
            /\ j.block[b] = d
            /\ \A x \in Blocks \ {b} : /\ k.block[x] \in Data => j.block[x] = k.block[x]
                                       /\ j.block[x] # k.block[x] => j.block[x] = Zero
<1> DEFINE j == write_block(k, b, d)
           e == With(c, b, d)
<1>1. k \in Devices /\ Kept(k) /\ b \in Live(k) /\ b \in Blocks
  BY DEF Up, Holds
<1>2. /\ j.version = k.version /\ j.next_alloc = k.next_alloc /\ j.freed = k.freed
      /\ j.meta = IF k.version = 0 /\ k.meta = Empty THEN State(0, {}) ELSE k.meta
      /\ \A x \in Blocks \ {b} :
           j.block[x] # k.block[x] => k.version = 0 /\ k.block[x] = NoFile /\ j.block[x] = Zero
  BY <1>1, WriteIs
<1>3. Up(j, e, s, l)
  BY WriteUp
<1>4. DOMAIN e = DOMAIN c /\ e[b] = d
  BY DEF With
<1>5. d # Unwritten /\ NoFile \notin Data
  BY Contents
<1> HIDE DEF j, e
<1>6. j.block[b] = d
  BY <1>3, <1>4, <1>5 DEF Up, Holds
<1>7. Clean(j) /\ SavedNext(j) = SavedNext(k)
  <2>1. State(0, {}) \notin {NoFile, Empty}
    BY FirstBlocks, VersionsAssumption
  <2>2. /\ State(0, {}).next_alloc = 0 /\ State(0, {}).freed = {}
    OBVIOUS
  <2> QED
    BY <1>2, <2>1, <2>2 DEF Clean, SavedNext
<1> QED
  BY <1>2, <1>3, <1>4, <1>5, <1>6, <1>7 DEF j, e

(* The inode table is written, if there is a block for it; what is stored  *)
(* stays stored.                                                           *)
LEMMA TableUp ==
  ASSUME Up(device, contents, safe, lost), Prototype, dev = "up"
  PROVE  /\ Up(Tabled, TabledContents, safe, lost) /\ DOMAIN TabledContents = owned
         /\ Tabled.version = device.version /\ Tabled.next_alloc = device.next_alloc
         /\ SavedNext(Tabled) = SavedNext(device)
         /\ Stored(Tabled, cuts, on_disk)
         /\ Complete(Tabled, superblock, device.next_alloc)
         /\ superblock.inode_block < device.next_alloc =>
              Tabled.block[superblock.inode_block] \in Tables
<1> DEFINE b == superblock.inode_block
           n == SavedNext(device)
<1>1. /\ device \in Devices /\ Clean(device) /\ cuts \in Nat
      /\ device.next_alloc \in 3..MaxBlocks
      /\ owned = 0..(device.next_alloc - 1) /\ inode_table \in Tables
      /\ b \in Nat \ {0} /\ Rooted(device, superblock, device.next_alloc)
      /\ n \in 0..MaxBlocks /\ n <= device.next_alloc
      /\ device.block[0] = SuperBlock /\ n > 0 => superblock = on_disk
      /\ Stored(device, cuts, on_disk)
  <2>1. device \in Devices /\ Clean(device) /\ Running /\ cuts \in Nat
    BY DEF Up, Holds, Prototype, Stored
  <2>2. n \in 0..MaxBlocks
    BY <2>1, SavedIs
  <2>3. Rooted(device, superblock, device.next_alloc) /\ b \in Nat \ {0}
    BY <2>1 DEF Running, Rooted
  <2>4. device.next_alloc \in 3..MaxBlocks
    BY <2>1, FirstBlocks DEF Running, Devices
  <2> QED
    BY <2>1, <2>2, <2>3, <2>4 DEF Running, Prototype
<1>2. CASE b >= device.next_alloc
  <2>1. b \notin owned
    BY <1>1, <1>2
  <2>2. Tabled = device /\ TabledContents = contents
    BY <1>2, <2>1 DEF Tabled, TabledContents, write_block, Written
  <2>3. ~(b < device.next_alloc)
    BY <1>1, <1>2
  <2> QED
    BY <1>1, <2>2, <2>3 DEF Complete
<1>3. CASE b < device.next_alloc
  <2>1. b \in owned /\ inode_table \in Data /\ 0 \in owned
    BY <1>1, <1>3, Contents DEF Tables
  <2>2. Tabled = write_block(device, b, inode_table)
    BY DEF Tabled
  <2>3. TabledContents = With(contents, b, inode_table)
    BY <2>1 DEF TabledContents, Written
  <2>4. /\ Up(Tabled, TabledContents, safe, lost) /\ DOMAIN TabledContents = owned
        /\ Tabled.version = device.version /\ Tabled.next_alloc = device.next_alloc
        /\ Clean(Tabled) /\ SavedNext(Tabled) = n
        /\ Tabled.block[b] = inode_table
        /\ \A x \in Blocks \ {b} :
             /\ device.block[x] \in Data => Tabled.block[x] = device.block[x]
             /\ Tabled.block[x] # device.block[x] => Tabled.block[x] = Zero
    <3>1. Clean(device) /\ b \in DOMAIN contents /\ inode_table \in Data
      BY <1>1, <2>1
    <3> HIDE DEF b, n
    <3>2. LET j == write_block(device, b, inode_table)
              e == With(contents, b, inode_table)
          IN /\ Up(j, e, safe, lost) /\ DOMAIN e = DOMAIN contents
             /\ j.version = device.version /\ j.next_alloc = device.next_alloc
             /\ Clean(j) /\ SavedNext(j) = SavedNext(device)
             /\ j.block[b] = inode_table
             /\ \A x \in Blocks \ {b} :
                  /\ device.block[x] \in Data => j.block[x] = device.block[x]
                  /\ j.block[x] # device.block[x] => j.block[x] = Zero
      BY <3>1, WriteKeeps
    <3> QED
      BY <2>2, <2>3, <3>2 DEF n
  <2>5. Rooted(Tabled, superblock, device.next_alloc)
    <3>1. superblock.root \in Nat \ {0} /\ b # superblock.root
      BY <1>1 DEF Rooted
    <3>2. ASSUME superblock.root < device.next_alloc
          PROVE  Tabled.block[superblock.root] = RootDir
      <4>1. device.block[superblock.root] = RootDir
        BY <1>1, <3>2 DEF Rooted
      <4>2. superblock.root \in Blocks \ {b}
        BY <1>1, <3>1, <3>2, FirstBlocks
      <4> QED
        BY <2>4, <4>1, <4>2, Contents
    <3> QED
      BY <1>1, <3>1, <3>2 DEF Rooted
  <2>6. Complete(Tabled, superblock, device.next_alloc)
    BY <1>1, <2>4, <2>5 DEF Complete
  <2>7. Tabled.block[0] = SuperBlock <=> device.block[0] = SuperBlock
    <3>1. 0 \in Blocks \ {b}
      BY <1>1, FirstBlocks
    <3> QED
      BY <2>4, <3>1, Contents
  <2>8. Stored(Tabled, cuts, on_disk)
    <3>1. Tabled.block[0] = SuperBlock /\ n > 0 => Complete(Tabled, on_disk, n)
      <4>1. Complete(Tabled, superblock, n)
        <5>1. \A x \in Nat : x < n => x < device.next_alloc
          BY <1>1, FirstBlocks
        <5>2. b \in Nat /\ superblock.root \in Nat
          BY <1>1 DEF Rooted
        <5> QED
          BY <2>6, <5>1, <5>2 DEF Complete, Rooted
      <4> QED
        BY <1>1, <2>7, <4>1
    <3> QED
      BY <1>1, <2>4, <2>7, <3>1 DEF Stored
  <2> QED
    BY <1>1, <2>4, <2>6, <2>8
<1> QED
  BY <1>1, <1>2, <1>3

(* Then the superblock, and this is what is stored.                        *)
LEMMA SuperUp ==
  ASSUME Up(device, contents, safe, lost), Prototype, dev = "up"
  PROVE  /\ Up(Supered, SuperedContents, safe, lost) /\ DOMAIN SuperedContents = owned
         /\ Supered.version = device.version /\ Supered.next_alloc = device.next_alloc
         /\ Clean(Supered) /\ SavedNext(Supered) = SavedNext(device)
         /\ Supered.block[0] = SuperBlock
         /\ Complete(Supered, superblock, device.next_alloc)
<1> DEFINE b == superblock.inode_block
<1>1. /\ Up(Tabled, TabledContents, safe, lost) /\ DOMAIN TabledContents = owned
      /\ Tabled.version = device.version /\ Tabled.next_alloc = device.next_alloc
      /\ SavedNext(Tabled) = SavedNext(device)
      /\ Clean(Tabled)
      /\ Complete(Tabled, superblock, device.next_alloc)
      /\ b < device.next_alloc => Tabled.block[b] \in Tables
  BY TableUp DEF Stored
<1>2. /\ device.next_alloc \in 3..MaxBlocks /\ 0 \in owned
      /\ b \in Nat \ {0} /\ superblock.root \in Nat \ {0}
  <2>1. Running /\ device \in Devices /\ cuts \in Nat
    BY DEF Prototype, Up, Holds
  <2> QED
    BY <2>1, FirstBlocks DEF Running, Rooted, Devices
<1>3. SuperedContents = With(TabledContents, 0, SuperBlock)
  BY <1>1, <1>2 DEF SuperedContents, Written
<1>4. /\ Up(Supered, SuperedContents, safe, lost) /\ DOMAIN SuperedContents = owned
      /\ Supered.version = device.version /\ Supered.next_alloc = device.next_alloc
      /\ Clean(Supered) /\ SavedNext(Supered) = SavedNext(device)
      /\ Supered.block[0] = SuperBlock
      /\ \A x \in Blocks \ {0} : Tabled.block[x] \in Data => Supered.block[x] = Tabled.block[x]
  BY <1>1, <1>2, <1>3, Contents, WriteKeeps DEF Supered
<1>5. \A x \in Nat \ {0} : x < device.next_alloc => x \in Blocks \ {0}
  BY <1>2, FirstBlocks
<1>6. Rooted(Supered, superblock, device.next_alloc)
  BY <1>1, <1>2, <1>4, <1>5, Contents DEF Complete, Rooted
<1>7. b < device.next_alloc => Supered.block[b] \in Tables
  <2>1. Tables \subseteq Data
    BY Contents DEF Tables
  <2> QED
    BY <1>1, <1>2, <1>4, <1>5, <2>1
<1> QED
  BY <1>4, <1>6, <1>7 DEF Complete

-----------------------------------------------------------------------------
(* What the next start of the prototype finds.                             *)
LEMMA Found0 ==
  ASSUME MInv, client = "memefs", dev = "down"
  PROVE  LET k == block_dev_init(device)
             n == SavedNext(device)
         IN /\ Up(k, contents, safe, lost)
            /\ k.block = device.block /\ k.next_alloc = n /\ k.freed = {}
            /\ SavedNext(k) = n /\ Stored(k, cuts, on_disk) /\ cuts \in Nat
            /\ n \in 0..MaxBlocks
            /\ safe = 0..(n - 1) /\ DOMAIN contents = 0..(n - 1)
            /\ Magic(k) <=> n > 0 /\ device.block[0] = SuperBlock
<1> DEFINE k == block_dev_init(device)
           n == SavedNext(device)
<1>1. Down(device, contents, safe, lost) /\ Prototype
  BY DEF MInv, Inv
<1>2. /\ device \in Devices /\ Kept(device) /\ Clean(device)
      /\ Stored(device, cuts, on_disk) /\ cuts \in Nat
      /\ safe = 0..(n - 1) /\ DOMAIN contents = safe
  BY <1>1 DEF Down, Holds, Prototype, Stored
<1>3. Up(k, contents, safe, lost)
  BY <1>1, InitUp
<1>4. /\ k \in Devices
      /\ k.block = device.block
      /\ k.meta = IF device.meta = NoFile THEN Empty ELSE device.meta
      /\ device.meta \in {NoFile, Empty} => k.next_alloc = 0 /\ k.freed = {}
      /\ device.meta \notin {NoFile, Empty} =>
           k.next_alloc = device.meta.next_alloc /\ k.freed = device.meta.freed
  BY <1>2, InitIs
<1> HIDE DEF k
<1>5. k.next_alloc = n /\ k.freed = {} /\ SavedNext(k) = n /\ Clean(k)
  BY <1>2, <1>4 DEF Clean, SavedNext
<1>6. n \in 0..MaxBlocks
  BY <1>2, SavedIs
<1>7. Stored(k, cuts, on_disk)
  BY <1>2, <1>4, <1>5, StoredSame
<1>8. Magic(k) <=> n > 0 /\ device.block[0] = SuperBlock
  <2>1. Magic(k) <=> ~(0 >= n) /\ Readable(device.block[0]) = SuperBlock
    BY <1>4, <1>5, Contents DEF Magic, read_block
  <2>2. Readable(device.block[0]) = SuperBlock <=> device.block[0] = SuperBlock
    BY Contents DEF Readable
  <2> QED
    BY <1>6, <2>1, <2>2, FirstBlocks
<1> QED
  BY <1>2, <1>3, <1>4, <1>5, <1>6, <1>7, <1>8 DEF k

LEMMA PrototypeInit ==
  ASSUME MInv, client = "memefs", meme_init
  PROVE  (Inv /\ Prototype)'
<1> DEFINE k == block_dev_init(device)
           n == SavedNext(device)
<1>1. dev = "down" /\ dev' = "up" /\ UNCHANGED <<safe, lost, on_disk, cuts>>
  BY DEF meme_init
<1>2. /\ Up(k, contents, safe, lost)
      /\ k.block = device.block /\ k.next_alloc = n /\ k.freed = {}
      /\ SavedNext(k) = n /\ Stored(k, cuts, on_disk) /\ cuts \in Nat
      /\ n \in 0..MaxBlocks /\ n \in Nat
      /\ safe = 0..(n - 1) /\ DOMAIN contents = 0..(n - 1)
      /\ Magic(k) <=> n > 0 /\ device.block[0] = SuperBlock
  BY <1>1, Found0, FirstBlocks
<1>3. CASE Magic(k)
  <2>1. /\ device' = k /\ superblock' = on_disk /\ contents' = contents
        /\ inode_table' = TableRead(k, on_disk.inode_block)
    BY <1>3 DEF meme_init, k
  <2> HIDE DEF k, n
  <2>2. /\ n > 0 /\ k.block[0] = SuperBlock /\ Complete(k, on_disk, n)
        /\ n \in 3..(3 * (1 + cuts))
        /\ cuts = 0 => on_disk = Found /\ n = 3
    BY <1>2, <1>3 DEF Stored
  <2>3. Rooted(k, on_disk, n)
    BY <2>2 DEF Complete
  <2>4. TableRead(k, on_disk.inode_block) \in Tables
    <3>1. PICK b \in Nat : /\ b = on_disk.inode_block
                           /\ b < n => k.block[b] \in Tables \cup {NoFile, Empty}
      BY <2>2 DEF Complete, Rooted
    <3>2. CASE b >= n
      <4>1. b >= k.next_alloc
        BY <1>2, <3>2
      <4>2. read_block(k, b).data = Untouched
        BY <4>1 DEF read_block
      <4> QED
        BY <3>1, <4>2 DEF TableRead, Tables
    <3>3. CASE b < n
      <4>1. ~(b >= k.next_alloc)
        BY <1>2, <3>1, <3>3
      <4>2. read_block(k, b).data = Readable(k.block[b])
        BY <4>1 DEF read_block
      <4>3. k.block[b] \in Tables => Readable(k.block[b]) = k.block[b] /\ k.block[b] # Untouched
        BY Contents DEF Readable, Tables
      <4>4. k.block[b] \in {NoFile, Empty} => Readable(k.block[b]) = Untouched
        BY DEF Readable
      <4> QED
        BY <3>1, <3>3, <4>2, <4>3, <4>4 DEF TableRead, Tables
    <3> QED
      BY <1>2, <3>1, <3>2, <3>3
  <2>5. Inv'
    BY <1>1, <1>2, <2>1 DEF Inv
  <2>6. /\ device'.next_alloc = n /\ SavedNext(device') = n /\ device'.block[0] = SuperBlock
        /\ Stored(device', cuts', on_disk') /\ Rooted(device', superblock', n)
        /\ inode_table' \in Tables /\ DOMAIN contents' = 0..(n - 1)
    BY <1>1, <1>2, <2>1, <2>2, <2>3, <2>4
  <2>7. Running'
    BY <1>1, <1>2, <2>1, <2>2, <2>6 DEF Running, SavedNext, Rooted
  <2> QED
    BY <1>1, <1>2, <2>5, <2>6, <2>7 DEF Prototype, Stored, SavedNext, Complete, Rooted, Clean
<1>4. CASE ~Magic(k)
  <2> DEFINE k1 == allocate_block(k)
             k2 == allocate_block(k1)
             k3 == allocate_block(k2)
             j == write_block(k3, n + 1, RootDir)
             c1 == With(contents, n, Unwritten)
             c3 == With(With(c1, n + 1, Unwritten), n + 2, Unwritten)
             e == With(With(c1, n + 2, Unwritten), n + 1, RootDir)
             super == [root |-> n + 1, inode_block |-> n + 2]
  <2>1. n + 3 <= MaxBlocks
    BY <1>2, <1>4 DEF meme_init, k
  <2>2. /\ NewBlock(k) = n /\ NewBlock(k1) = n + 1 /\ NewBlock(k2) = n + 2
        /\ Grown(k, contents, safe, k3, c3, lost) /\ k3.next_alloc = n + 3
    <3> HIDE DEF k, n
    <3> QED
      BY <1>2, <2>1, FormatIs
  <2>3. /\ device' = j /\ superblock' = super /\ contents' = e /\ inode_table' = InodeTable
    BY <1>4, <2>2 DEF meme_init, k
  <2>4. With(c3, n + 1, RootDir) = e
    BY <1>2 DEF With
  <2> HIDE DEF k, n, k3, c3, e
  <2>5. /\ Up(k3, c3, safe, lost) /\ k3.freed = {} /\ k3.meta = k.meta
        /\ DOMAIN c3 = 0..(n + 2)
        /\ \A x \in DOMAIN contents : k3.block[x] = k.block[x]
    BY <1>2, <2>2 DEF Grown
  <2>6. Clean(k3) /\ SavedNext(k3) = n
    BY <1>2, <2>5 DEF Clean, SavedNext, Stored
  <2>7. n + 1 \in DOMAIN c3
    BY <1>2, <2>5
  <2>8. /\ Up(j, With(c3, n + 1, RootDir), safe, lost)
        /\ DOMAIN With(c3, n + 1, RootDir) = DOMAIN c3
        /\ j.next_alloc = k3.next_alloc
        /\ Clean(j) /\ SavedNext(j) = SavedNext(k3)
        /\ j.block[n + 1] = RootDir
        /\ \A x \in Blocks \ {n + 1} :
             j.block[x] # k3.block[x] => j.block[x] = Zero
    <3>1. PICK r \in DOMAIN c3 : r = n + 1
      BY <2>7
    <3>2. Up(k3, c3, safe, lost) /\ Clean(k3) /\ RootDir \in Data
      BY <2>5, <2>6, Contents
    <3> HIDE DEF j
    <3>3. LET i == write_block(k3, r, RootDir)
          IN /\ Up(i, With(c3, r, RootDir), safe, lost)
             /\ DOMAIN With(c3, r, RootDir) = DOMAIN c3
             /\ i.version = k3.version /\ i.next_alloc = k3.next_alloc
             /\ Clean(i) /\ SavedNext(i) = SavedNext(k3)
             /\ i.block[r] = RootDir
             /\ \A x \in Blocks \ {r} : /\ k3.block[x] \in Data => i.block[x] = k3.block[x]
                                        /\ i.block[x] # k3.block[x] => i.block[x] = Zero
      BY <3>2, WriteKeeps
    <3>4. j = write_block(k3, r, RootDir)
      BY <3>1 DEF j
    <3> QED
      BY <3>1, <3>3, <3>4
  <2> HIDE DEF j
  <2>9. /\ Up(j, e, safe, lost) /\ DOMAIN e = 0..(n + 2)
        /\ j.next_alloc = n + 3 /\ Clean(j) /\ SavedNext(j) = n
        /\ j.block[n + 1] = RootDir
    BY <2>2, <2>4, <2>5, <2>6, <2>8
  <2>10. n > 0 => k.block[0] # SuperBlock /\ j.block[0] # SuperBlock
    <3> SUFFICES ASSUME n > 0 PROVE k.block[0] # SuperBlock /\ j.block[0] # SuperBlock
      OBVIOUS
    <3>1. k.block[0] # SuperBlock
      BY <1>2, <1>4
    <3>2. 0 \in DOMAIN contents /\ 0 \in Blocks \ {n + 1}
      BY <1>2, FirstBlocks
    <3>3. k3.block[0] = k.block[0]
      BY <2>5, <3>2
    <3> QED
      BY <2>8, <3>1, <3>2, <3>3, Contents
  <2>11. n <= 3 * cuts /\ (n = 0 \/ n >= 3) /\ (cuts = 0 => n = 0)
    BY <1>2, <2>10 DEF Stored
  <2>12. Stored(j, cuts, on_disk)
    BY <1>2, <2>9, <2>10, <2>11 DEF Stored
  <2>13. Rooted(j, super, n + 3)
    BY <1>2, <2>9 DEF Rooted
  <2>14. Inv'
    BY <1>1, <2>3, <2>9 DEF Inv
  <2>15. Running'
    <3>1. device'.next_alloc \in 3..(3 * (1 + cuts')) /\ n <= device'.next_alloc
      BY <1>1, <1>2, <2>3, <2>9, <2>11
    <3>2. DOMAIN contents' = 0..(device'.next_alloc - 1)
      BY <1>2, <2>3, <2>9
    <3>3. Rooted(device', superblock', device'.next_alloc)
      BY <2>3, <2>9, <2>13
    <3>4. inode_table' \in Tables
      BY <2>3 DEF Tables
    <3>5. ~(device'.block[0] = SuperBlock /\ SavedNext(device') > 0)
      BY <2>3, <2>9, <2>10
    <3>6. cuts' = 0 => superblock' = Found /\ device'.next_alloc = 3
      BY <1>1, <2>3, <2>9, <2>11 DEF Found
    <3>7. SavedNext(device') = n
      BY <2>3, <2>9
    <3> QED
      BY <3>1, <3>2, <3>3, <3>4, <3>5, <3>6, <3>7 DEF Running, SavedNext, Rooted
  <2> QED
    <3>1. Stored(device', cuts', on_disk') /\ SavedNext(device') = n
      BY <1>1, <2>3, <2>9, <2>12
    <3> QED
      BY <1>1, <1>2, <2>14, <2>15, <3>1
         DEF Prototype, Stored, SavedNext, Complete, Rooted, Clean
<1> QED
  BY <1>3, <1>4

LEMMA PrototypeInitCrash ==
  ASSUME MInv, client = "memefs", meme_init_crash
  PROVE  (Inv /\ Prototype)'
<1> DEFINE k == block_dev_init(device)
           n == SavedNext(device)
           k1 == allocate_block(k)
           k2 == allocate_block(k1)
           k3 == allocate_block(k2)
<1>1. dev = "down" /\ on_disk' = on_disk /\ cuts' = cuts
  BY DEF meme_init_crash
<1>2. /\ Up(k, contents, safe, lost)
      /\ k.next_alloc = n /\ k.freed = {}
      /\ SavedNext(k) = n /\ Stored(k, cuts, on_disk) /\ cuts \in Nat
      /\ safe = 0..(n - 1) /\ DOMAIN contents = 0..(n - 1)
  BY <1>1, Found0
<1>3. k.next_alloc + 3 <= MaxBlocks
  BY DEF meme_init_crash
<1>4. PICK left \in {k, k1, k2, k3} \cup allocate_cut(k) \cup allocate_cut(k1)
                    \cup allocate_cut(k2) \cup write_cut(k3, NewBlock(k1)) :
             Dies(left, contents, safe)
  BY DEF meme_init_crash
<1>5. \E e : Grown(k, contents, safe, left, e, TRUE)
  <2> HIDE DEF k, n
  <2>1. DOMAIN contents = 0..(k.next_alloc - 1)
    BY <1>2
  <2> QED
    BY <1>2, <1>3, <1>4, <2>1, FormatIs
<1>6. PICK e : Grown(k, contents, safe, left, e, TRUE)
  BY <1>5
<1> HIDE DEF k, n
<1>7. /\ Up(left, e, safe, TRUE) /\ left.freed = {} /\ left.meta = k.meta
      /\ \A x \in 0..(n - 1) : left.block[x] = k.block[x]
      /\ Only(e, safe) = Only(contents, safe)
  BY <1>2, <1>6 DEF Grown
<1>8. k \in Devices /\ Clean(left) /\ SavedNext(left) = n
  BY <1>2, <1>7 DEF Up, Holds, Clean, SavedNext, Stored
<1>9. Stored(left, cuts, on_disk)
  BY <1>2, <1>7, <1>8, StoredSame
<1>10. Dies(left, e, safe)
  BY <1>4, <1>7 DEF Dies
<1> QED
  BY <1>1, <1>2, <1>7, <1>8, <1>9, <1>10, DiedWell

LEMMA PrototypeDestroy ==
  ASSUME MInv, client = "memefs", meme_destroy
  PROVE  (Inv /\ Prototype)'
<1> DEFINE k == Supered
           j == Forgotten(save_state(k))
           n == device.next_alloc
<1>1. /\ dev = "up" /\ dev' = "down" /\ device' = j /\ contents' = SuperedContents
      /\ safe' = owned /\ on_disk' = superblock /\ lost' = lost /\ cuts' = cuts
  BY DEF meme_destroy
<1>2. /\ Up(device, contents, safe, lost) /\ Prototype /\ Running
  BY <1>1 DEF MInv, Inv, Prototype
<1>3. /\ Up(k, SuperedContents, safe, lost) /\ DOMAIN SuperedContents = owned
      /\ k.next_alloc = n /\ Clean(k)
      /\ k.block[0] = SuperBlock /\ Complete(k, superblock, n)
  BY <1>1, <1>2, SuperUp
<1> HIDE DEF k
<1>4. k.freed = {}
  BY <1>3 DEF Clean
<1>5. Fits(k)
  BY <1>4, FS_EmptySet, BackendsAssumption DEF Fits
<1>6. /\ Down(j, SuperedContents, owned, lost)
      /\ j.block = k.block /\ j.meta = State(n, {})
  BY <1>3, <1>4, <1>5, SaveDown
<1>7. j.freed = {} /\ n \in 0..MaxBlocks
  <2>1. k \in Devices /\ device \in Devices
    BY <1>2, <1>3 DEF Up, Holds
  <2> QED
    BY <2>1 DEF Forgotten, save_state, Devices
<1> HIDE DEF j
<1>8. /\ n \in 3..(3 * (1 + cuts)) /\ owned = 0..(n - 1) /\ cuts \in Nat
      /\ cuts = 0 => superblock = Found /\ n = 3
  BY <1>2 DEF Running, Prototype
<1>9. Clean(j) /\ SavedNext(j) = n
  <2>1. State(n, {}) \notin {NoFile, Empty}
    BY <1>7, VersionsAssumption
  <2> QED
    BY <1>6, <1>7, <2>1 DEF Clean, SavedNext
<1> HIDE DEF n
<1>10. Stored(j, cuts, superblock)
  <2>1. Complete(j, superblock, n)
    BY <1>3, <1>6 DEF Complete, Rooted
  <2> QED
    BY <1>3, <1>6, <1>8, <1>9, <2>1 DEF Stored
<1>11. Inv'
  BY <1>1, <1>3, <1>6 DEF Inv
<1>12. Stored(device', cuts', on_disk') /\ safe' = 0..(SavedNext(device') - 1)
  BY <1>1, <1>8, <1>9, <1>10
<1> QED
  BY <1>1, <1>8, <1>11, <1>12 DEF Prototype, Stored, SavedNext, Complete, Rooted, Clean

(* The inode table's image was lost while it was written.                  *)
LEMMA CutInTable ==
  ASSUME Up(device, contents, safe, lost), Prototype, dev = "up",
         NEW k \in write_cut(device, superblock.inode_block)
  PROVE  LET c == Written(contents, superblock.inode_block, Unwritten)
         IN /\ Up(k, c, safe, TRUE)
            /\ SavedNext(k) = SavedNext(device) /\ Stored(k, cuts, on_disk)
<1>1. PICK b \in Nat \ {0} : b = superblock.inode_block
  BY DEF Prototype, Running, Rooted
<1>2. PICK x \in {NoFile, Empty} :
        device.version = 2 /\ ~(b >= device.next_alloc) /\ k = [device EXCEPT !.block[b] = x]
  BY <1>1 DEF write_cut
<1> DEFINE n == SavedNext(device)
<1>3. /\ device \in Devices /\ Clean(device) /\ Stored(device, cuts, on_disk)
      /\ device.next_alloc \in 3..MaxBlocks /\ cuts \in Nat
      /\ owned = 0..(device.next_alloc - 1)
      /\ device.block[0] = SuperBlock /\ n > 0 => superblock = on_disk
  BY FirstBlocks DEF Up, Holds, Devices, Prototype, Stored, Running
<1>4. b \in owned /\ b \in Blocks
  BY <1>2, <1>3, FirstBlocks
<1>5. Up(k, With(contents, b, Unwritten), safe, TRUE)
  BY <1>2, <1>4, CutUp
<1>6. Written(contents, b, Unwritten) = With(contents, b, Unwritten)
  BY <1>4 DEF Written
<1>7. /\ k.next_alloc = device.next_alloc /\ k.freed = device.freed /\ k.meta = device.meta
      /\ k.block[b] \in {NoFile, Empty}
      /\ \A y \in Blocks \ {b} : k.block[y] = device.block[y]
  <2>1. /\ k.next_alloc = device.next_alloc /\ k.freed = device.freed
        /\ k.meta = device.meta /\ k.block[b] = x
        /\ \A y \in Blocks \ {b} : k.block[y] = device.block[y]
    <3>1. device \in Devices /\ b \in Blocks
      BY <1>3, <1>4
    <3> HIDE DEF Blocks
    <3> QED
      BY <1>2, <3>1, CutIs
  <2> QED
    BY <2>1
<1>8. Clean(k) /\ SavedNext(k) = n
  BY <1>3, <1>7 DEF Clean, SavedNext
<1>9. k.block[0] = device.block[0]
  BY <1>7, FirstBlocks
<1>10. n \in 0..MaxBlocks
  BY <1>3, SavedIs
<1>11. ASSUME k.block[0] = SuperBlock, n > 0 PROVE Complete(k, on_disk, n)
  <2>1. on_disk = superblock /\ Complete(device, superblock, n)
    BY <1>3, <1>9, <1>11 DEF Stored
  <2>2. superblock.root \in Nat \ {0, b}
    BY <1>1, <2>1 DEF Complete, Rooted
  <2>3. superblock.root < n => superblock.root \in Blocks \ {b}
    BY <1>10, <2>2, FirstBlocks
  <2>4. Rooted(k, superblock, n)
    BY <1>7, <2>1, <2>3 DEF Complete, Rooted
  <2> QED
    BY <1>1, <1>7, <2>1, <2>4 DEF Complete
<1>12. Stored(k, cuts, on_disk)
  BY <1>3, <1>8, <1>9, <1>11 DEF Stored
<1> QED
  BY <1>1, <1>5, <1>6, <1>8, <1>12

(* The superblock's image was lost while it was written.                   *)
LEMMA CutInSuper ==
  ASSUME Up(device, contents, safe, lost), Prototype, dev = "up",
         NEW k \in write_cut(Tabled, 0)
  PROVE  LET c == Written(TabledContents, 0, Unwritten)
         IN /\ Up(k, c, safe, TRUE)
            /\ SavedNext(k) = SavedNext(device) /\ Stored(k, cuts + 1, on_disk)
<1> DEFINE n == SavedNext(device)
<1>1. PICK x \in {NoFile, Empty} : Tabled.version = 2 /\ k = [Tabled EXCEPT !.block[0] = x]
  BY DEF write_cut
<1>2. /\ Up(Tabled, TabledContents, safe, lost) /\ DOMAIN TabledContents = owned
      /\ SavedNext(Tabled) = n
      /\ Stored(Tabled, cuts, on_disk) /\ Tabled \in Devices /\ Clean(Tabled)
  BY TableUp DEF Up, Holds, Stored
<1>3. 0 \in owned /\ 0 \in Blocks /\ cuts \in Nat
  <2>1. Running /\ cuts \in Nat
    BY DEF Prototype
  <2> QED
    BY <2>1, FirstBlocks DEF Running
<1>4. Up(k, With(TabledContents, 0, Unwritten), safe, TRUE)
  BY <1>1, <1>2, <1>3, CutUp
<1>5. Written(TabledContents, 0, Unwritten) = With(TabledContents, 0, Unwritten)
  BY <1>2, <1>3 DEF Written
<1>6. k.freed = Tabled.freed /\ k.meta = Tabled.meta /\ k.block[0] \in {NoFile, Empty}
  BY <1>1, <1>2, <1>3, CutIs
<1>7. Clean(k) /\ SavedNext(k) = n
  BY <1>2, <1>6 DEF Clean, SavedNext
<1>8. k.block[0] # SuperBlock
  BY <1>6, Contents
<1>9. n = 0 \/ n \in 3..(3 * (1 + cuts))
  BY <1>2 DEF Stored
<1> HIDE DEF n
<1>10. Stored(k, cuts + 1, on_disk)
  BY <1>3, <1>7, <1>8, <1>9 DEF Stored
<1> QED
  BY <1>4, <1>5, <1>7, <1>10 DEF n

LEMMA PrototypeCrash ==
  ASSUME MInv, client = "memefs", meme_crash
  PROVE  (Inv /\ Prototype)'
<1> DEFINE n == SavedNext(device)
<1>1. dev = "up"
  BY DEF meme_crash
<1>2. /\ Up(device, contents, safe, lost) /\ Prototype /\ Running
      /\ Stored(device, cuts, on_disk) /\ cuts \in Nat /\ safe = 0..(n - 1)
  BY <1>1 DEF MInv, Inv, Prototype
<1>3. ASSUME Dies(device, contents, safe), UNCHANGED <<on_disk, cuts>>
      PROVE  (Inv /\ Prototype)'
  BY <1>2, <1>3, DiedWell
<1>4. ASSUME NEW k \in write_cut(device, superblock.inode_block),
             Dies(k, Written(contents, superblock.inode_block, Unwritten), safe),
             UNCHANGED <<on_disk, cuts>>
      PROVE  (Inv /\ Prototype)'
  BY <1>1, <1>2, <1>4, CutInTable, DiedWell
<1>5. ASSUME Dies(Tabled, TabledContents, safe), UNCHANGED <<on_disk, cuts>>
      PROVE  (Inv /\ Prototype)'
  BY <1>1, <1>2, <1>5, TableUp, DiedWell
<1>6. ASSUME NEW k \in write_cut(Tabled, 0),
             Dies(k, Written(TabledContents, 0, Unwritten), safe),
             cuts' = cuts + 1, on_disk' = on_disk
      PROVE  (Inv /\ Prototype)'
  <2>1. cuts' \in Nat
    BY <1>2, <1>6
  <2> QED
    BY <1>1, <1>2, <1>6, <2>1, CutInSuper, DiedWell
<1>7. /\ Up(Supered, SuperedContents, safe, lost)
      /\ Clean(Supered) /\ SavedNext(Supered) = n
      /\ Supered.block[0] = SuperBlock
      /\ Complete(Supered, superblock, device.next_alloc)
  BY <1>1, <1>2, SuperUp
<1>8. ASSUME Dies(Supered, SuperedContents, safe), on_disk' = superblock, cuts' = cuts
      PROVE  (Inv /\ Prototype)'
  <2>1. n = 0 \/ n \in 3..(3 * (1 + cuts))
    BY <1>2 DEF Stored
  <2>2. Complete(Supered, superblock, n)
    <3>1. /\ n <= device.next_alloc /\ device.next_alloc \in Nat /\ n \in Nat
          /\ superblock.root \in Nat /\ superblock.inode_block \in Nat
      BY <1>2, <2>1 DEF Running, Rooted
    <3> HIDE DEF n
    <3> QED
      BY <1>7, <3>1 DEF Complete, Rooted
  <2>3. cuts = 0 /\ n > 0 => superblock = Found /\ n = 3
    BY <1>2, <2>1 DEF Running, Stored
  <2> HIDE DEF n
  <2>4. Stored(Supered, cuts, superblock)
    BY <1>2, <1>7, <2>1, <2>2, <2>3 DEF Stored
  <2> QED
    BY <1>2, <1>7, <1>8, <2>4, DiedWell
<1>9. ASSUME NEW k \in save_cut(Supered), Dies(k, SuperedContents, {}),
             on_disk' = superblock, cuts' = cuts
      PROVE  (Inv /\ Prototype)'
  <2>1. PICK x \in {NoFile, Empty} : k = [Supered EXCEPT !.meta = x]
    BY <1>9 DEF save_cut
  <2>2. Up(k, SuperedContents, {}, lost) /\ k.freed = Supered.freed /\ k.meta = x
    BY <1>7, <2>1, CutSaveUp
  <2>3. Clean(k) /\ SavedNext(k) = 0
    BY <1>7, <2>2 DEF Clean, SavedNext
  <2>4. Stored(k, cuts, superblock)
    BY <1>2, <2>3 DEF Stored
  <2>5. {} = 0..(SavedNext(k) - 1)
    BY <2>3
  <2> QED
    BY <1>2, <1>9, <2>2, <2>4, <2>5, DiedWell
<1> QED
  BY <1>3, <1>4, <1>5, <1>6, <1>8, <1>9 DEF meme_crash

LEMMA MInvAlways == MSpec => []MInv
<1>1. MInit => MInv
  <2> SUFFICES ASSUME MInit PROVE MInv
    OBVIOUS
  <2>1. Inv
    BY InvHoldsFirst DEF MInit
  <2>2. PICK v \in VERSION : device = NewDevice(v)
    BY DEF MInit, Init
  <2>3. device.meta = NoFile /\ device.freed = {}
    BY <2>2 DEF NewDevice
  <2>4. Stored(device, cuts, on_disk) /\ SavedNext(device) = 0 /\ cuts \in Nat
    BY <2>3 DEF MInit, Stored, Clean, SavedNext
  <2>5. safe = 0..(SavedNext(device) - 1) /\ dev = "down"
    BY <2>4 DEF MInit, Init
  <2>6. Prototype
    BY <2>4, <2>5 DEF Prototype
  <2> QED
    BY <2>1, <2>6 DEF MInit, MInv
<1>2. MInv /\ [MNext]_mvars => MInv'
  <2> SUFFICES ASSUME MInv, [MNext]_mvars PROVE MInv'
    OBVIOUS
  <2>1. ASSUME UNCHANGED mvars PROVE MInv'
    BY <2>1 DEF MInv, Inv, Prototype, Running, Stored, Clean, SavedNext,
                 Complete, Rooted, mvars, vars, memory
  <2>2. ASSUME client' = client, client = "any", Next PROVE MInv'
    <3>1. Inv'
      BY <2>2, InvHoldsNext DEF MInv
    <3> QED
      BY <2>2, <3>1 DEF MInv
  <2>3. ASSUME client' = client, client = "memefs", meme_init PROVE MInv'
    BY <2>3, PrototypeInit DEF MInv
  <2>4. ASSUME client' = client, client = "memefs", meme_destroy PROVE MInv'
    BY <2>4, PrototypeDestroy DEF MInv
  <2>5. ASSUME client' = client, client = "memefs", meme_crash PROVE MInv'
    BY <2>5, PrototypeCrash DEF MInv
  <2>6. ASSUME client' = client, Call PROVE MInv'
    BY <2>6 DEF Call, MInv, Inv, Prototype, Running, Stored, Clean, SavedNext,
                 Complete, Rooted, vars
  <2>7. ASSUME client' = client, client = "memefs", meme_init_crash PROVE MInv'
    BY <2>7, PrototypeInitCrash DEF MInv
  <2> QED
    BY <2>1, <2>2, <2>3, <2>4, <2>5, <2>6, <2>7 DEF MNext
<1> QED
  BY <1>1, <1>2, PTL DEF MSpec

-----------------------------------------------------------------------------
(* The types of the device, for any client and for the prototype: no       *)
(* number that is handed out, queued or saved leaves the device, and the   *)
(* last save never covers a block the client does not own.                 *)
THEOREM VersionsTypes == MSpec => []TypeOK
<1>1. MInv => TypeOK
  BY InvTypes DEF MInv
<1> QED
  BY <1>1, MInvAlways, PTL

(* In all three versions, through crashes and refused saves, every block   *)
(* of the client is counted as in use by the allocator and by what it      *)
(* saved; and no other, as long as no session was lost.                    *)
THEOREM AllocatorStaysSound == MSpec => []AllocatorSound
<1>1. MInv => AllocatorSound
  BY InvSound DEF MInv
<1> QED
  BY <1>1, MInvAlways, PTL

(* What was written to a block is read from it while the client owns it.   *)
THEOREM WritesAlwaysStick == MSpec => []WritesStick
<1>1. MInv => WritesStick
  BY InvSticks DEF MInv
<1> QED
  BY <1>1, MInvAlways, PTL

(* Without crashes, the versions that keep files have one for every block  *)
(* of the client and no other, and a new one shows nobody's data.          *)
THEOREM FreedDataStaysGone == MSpec => []FreedDataGone
<1>1. MInv => FreedDataGone
  BY InvGone DEF MInv
<1> QED
  BY <1>1, MInvAlways, PTL

(* A mounted prototype answers for its root directory in every version and *)
(* after every crash that meme_crash and meme_init_crash have; it lists it *)
(* where the allocator knows its block, and has it in block 1 unless the   *)
(* superblock's write was cut off.                                         *)
THEOREM RootAlwaysStays == MSpec => []RootStays
<1>1. MInv => RootStays
  <2> SUFFICES ASSUME MInv, client = "memefs", dev = "up"
               PROVE  /\ meme_getattr(<<>>) = {"mode"}
                      /\ meme_access(<<>>, Read) = {"granted"}
                      /\ superblock.root < device.next_alloc => meme_readdir(<<>>) = {"root"}
                      /\ cuts = 0 => /\ superblock = [root |-> 1, inode_block |-> 2]
                                     /\ meme_readdir(<<>>) = {"root"}
    BY DEF RootStays
  <2>1. /\ Rooted(device, superblock, device.next_alloc) /\ device \in Devices
        /\ cuts = 0 => superblock = Found /\ device.next_alloc = 3
    BY DEF MInv, Inv, Up, Holds, Prototype, Running
  <2>2. find_inode_loc(<<>>) = {"root"}
    BY DEF find_inode_loc
  <2>3. meme_getattr(<<>>) = {"mode"}
    BY <2>2 DEF meme_getattr
  <2>4. meme_access(<<>>, Read) = {"granted"}
    BY <2>2 DEF meme_access, Read
  <2>5. direct(0) = superblock.root
    BY DEF direct
  <2>6. ASSUME superblock.root < device.next_alloc PROVE meme_readdir(<<>>) = {"root"}
    <3>1. device.block[superblock.root] = RootDir
      BY <2>1, <2>6 DEF Rooted
    <3>2. ~(superblock.root >= device.next_alloc)
      BY <2>1, <2>6, FirstBlocks DEF Rooted, Devices
    <3>3. read_block(device, superblock.root).data = RootDir
      BY <3>1, <3>2, Contents DEF read_block, Readable
    <3> QED
      BY <2>2, <2>5, <3>3 DEF meme_readdir, Names
  <2>7. cuts = 0 => superblock.root < device.next_alloc
    BY <2>1 DEF Found
  <2> QED
    BY <2>1, <2>3, <2>4, <2>6, <2>7 DEF Found
<1> QED
  BY <1>1, MInvAlways, PTL

(* The prototype never frees a block, and takes three, and three more for  *)
(* each crash within the superblock's write.                               *)
THEOREM BlocksAlwaysStay == MSpec => []BlocksStay
<1>1. MInv => BlocksStay
  BY DEF MInv, Prototype, Running, Stored, Clean, BlocksStay
<1> QED
  BY <1>1, MInvAlways, PTL
=============================================================================
