-------------------------- MODULE BlockLayerProofs --------------------------
(***************************************************************************)
(* Theorems about the block layer, for every number of blocks, every set   *)
(* of data, reliable and flaky downloads, and any crash points.            *)
(*                                                                         *)
(* TypeOK comes first and is used by all.  The rest falls in two: without  *)
(* crashes the allocator is exact (AllocatorExact, inductive given TypeOK),*)
(* from which a fresh allocation and the refinement of BlockStore follow;  *)
(* with crashes the weaker SafeIsLive is inductive, and it is enough for   *)
(* the blocks in use at the last save.                                     *)
(***************************************************************************)
EXTENDS BlockLayer, TLAPS

USE DEF Blocks, Contents, State, BlockLayerAssumption

(* The kinds of step Next is made of, for the case splits below. *)
LEMMA NextCases ==
  ASSUME NEW P,
         UNCHANGED vars => P,
         block_dev_init => P,
         block_dev_destroy => P,
         allocate_block => P,
         Crash => P,
         \A b \in Blocks : free_block(b) => P,
         \A b \in Blocks : read_block(b) => P,
         \A b \in Blocks, d \in Data : write_block(b, d) => P,
         [Next]_vars
  PROVE  P
  BY DEF Next

(* What a file holds after new_meme and writeData. *)
LEMMA StoredType ==
  ASSUME NEW old, NEW meme \in Memes, NEW d
  PROVE  /\ Stored(old, meme, d) \in {d, Junk, old}
         /\ ~Flaky => Stored(old, meme, d) = d
         /\ Stored(NoFile, meme, d) \in {d, Junk, NoFile}
  BY DEF Stored, Memes

(* Types are preserved, whatever the constants: in particular next_alloc   *)
(* never leaves 0..MaxBlocks and every number queued, saved or handed out  *)
(* is a block.                                                             *)
THEOREM TypeCorrect == Spec => []TypeOK
<1>1. Init => TypeOK
  BY BlockLayerAssumption DEF Init, TypeOK
<1>2. TypeOK /\ [Next]_vars => TypeOK'
  <2> SUFFICES ASSUME TypeOK, [Next]_vars PROVE TypeOK'
    OBVIOUS
  <2> USE BlockLayerAssumption
  <2>0. UNCHANGED vars => TypeOK'
    BY DEF TypeOK, vars
  <2>1. block_dev_init => TypeOK'
    <3> SUFFICES ASSUME block_dev_init PROVE TypeOK'
      OBVIOUS
    <3>1. Loaded \in [next_alloc : 0..MaxBlocks, freed : SUBSET Blocks]
      BY DEF TypeOK, Loaded
    <3>2. CASE UNCHANGED <<dev, next_alloc, freed, meta, owned>>
      BY <3>2 DEF TypeOK, block_dev_init, Returns
    <3>3. CASE ~UNCHANGED <<dev, next_alloc, freed, meta, owned>>
      <4>1. /\ dev' = "up"
            /\ next_alloc' = Loaded.next_alloc
            /\ freed' = Loaded.freed
            /\ meta' = IF meta = NoFile THEN Junk ELSE meta
            /\ owned' = IF Loaded.next_alloc = 0 THEN {} ELSE owned
            /\ ret' = [val |-> 0, data |-> Nothing]
            /\ disk' = disk
        BY <3>3, Zenon DEF block_dev_init, Returns
      <4> QED
        BY <4>1, <3>1 DEF TypeOK
    <3> QED
      BY <3>2, <3>3
  <2>2. block_dev_destroy => TypeOK'
    <3> SUFFICES ASSUME block_dev_destroy PROVE TypeOK'
      OBVIOUS
    <3>1. PICK meme \in Memes : meta' = Stored(NoFile, meme, State(next_alloc, freed))
      BY DEF block_dev_destroy
    <3>2. meta' \in {State(next_alloc, freed), Junk, NoFile}
      BY <3>1, StoredType
    <3>3. State(next_alloc, freed) \in [next_alloc : 0..MaxBlocks, freed : SUBSET Blocks]
      BY DEF TypeOK
    <3>4. meta' \in {NoFile, Junk} \cup [next_alloc : 0..MaxBlocks, freed : SUBSET Blocks]
      BY <3>2, <3>3
    <3> QED
      BY <3>4 DEF TypeOK, block_dev_destroy, Stop, Returns
  <2>3. allocate_block => TypeOK'
    <3> SUFFICES ASSUME allocate_block PROVE TypeOK'
      OBVIOUS
    <3>1. disk' \in [Blocks -> Contents \cup {NoFile, Junk}]
      <4>1. PICK b \in Blocks, meme \in Memes :
              disk' = [disk EXCEPT ![b] = Stored(@, meme, Zero)]
        BY DEF allocate_block
      <4>2. Stored(disk[b], meme, Zero) \in {Zero, Junk, disk[b]}
        BY StoredType
      <4> QED
        BY <4>1, <4>2 DEF TypeOK
    <3>2. /\ next_alloc' \in 0..MaxBlocks
          /\ freed' \in SUBSET Blocks
          /\ owned' \in SUBSET Blocks
      <4>1. PICK b \in Blocks :
              /\ \/ freed' = freed \ {b} /\ next_alloc' = next_alloc
                 \/ freed' = freed /\ b = next_alloc /\ next_alloc' = b + 1
              /\ owned' = owned \cup {b}
        BY DEF allocate_block
      <4>2. next_alloc' \in 0..MaxBlocks
        BY <4>1 DEF TypeOK
      <4>3. freed' \in SUBSET Blocks /\ owned' \in SUBSET Blocks
        BY <4>1 DEF TypeOK
      <4> QED
        BY <4>2, <4>3
    <3>3. ret' \in [val : Blocks \cup {0, -1}, data : Contents \cup {Junk, Nothing}]
      BY DEF allocate_block, Returns
    <3> QED
      BY <3>1, <3>2, <3>3 DEF TypeOK, allocate_block
  <2>4. Crash => TypeOK'
    <3> SUFFICES ASSUME Crash PROVE TypeOK'
      OBVIOUS
    <3>1. disk' \in [Blocks -> Contents \cup {NoFile, Junk}]
      BY DEF TypeOK, Crash
    <3>2. meta' = meta \/ meta' = NoFile
      BY DEF Crash
    <3>3. /\ dev' = "down"
          /\ next_alloc' = 0
          /\ freed' = {}
          /\ ret' = ret
          /\ owned' = owned
      BY DEF Crash, Stop
    <3> QED
      BY <3>1, <3>2, <3>3 DEF TypeOK
  <2>5. \A b \in Blocks : free_block(b) => TypeOK'
    <3> SUFFICES ASSUME NEW b \in Blocks, free_block(b) PROVE TypeOK'
      OBVIOUS
    <3>1. next_alloc' \in 0..MaxBlocks /\ freed' \in SUBSET Blocks
      BY DEF TypeOK, free_block
    <3>2. disk' \in [Blocks -> Contents \cup {NoFile, Junk}]
      BY DEF TypeOK, free_block
    <3> QED
      BY <3>1, <3>2 DEF TypeOK, free_block, Returns
  <2>6. \A b \in Blocks : read_block(b) => TypeOK'
    BY DEF TypeOK, read_block, Returns, Readable
  <2>7. \A b \in Blocks, d \in Data : write_block(b, d) => TypeOK'
    <3> SUFFICES ASSUME NEW b \in Blocks, NEW d \in Data, write_block(b, d)
                 PROVE  TypeOK'
      OBVIOUS
    <3>1. disk' \in [Blocks -> Contents \cup {NoFile, Junk}]
      <4>1. \A meme \in Memes : Stored(NoFile, meme, d) \in {d, Junk, NoFile}
        BY StoredType
      <4> QED
        BY <4>1 DEF TypeOK, write_block
    <3> QED
      BY <3>1 DEF TypeOK, write_block, Returns
  <2> QED
    BY <2>0, <2>1, <2>2, <2>3, <2>4, <2>5, <2>6, <2>7, NextCases
<1> QED
  BY <1>1, <1>2, PTL DEF Spec

-----------------------------------------------------------------------------
(* What free_block does to the allocator, given that it was exact for the  *)
(* blocks o: it is exact for the others.                                   *)
LEMMA FreeKeepsExact ==
  ASSUME NEW n \in Nat, NEW f \in SUBSET Blocks, NEW o,
         o = Live(n, f), \A c \in f : c < n, n - 1 \notin f,
         NEW b \in o,
         NEW n1, n1 = IF b = n - 1 THEN n - 1 ELSE n,
         NEW f1, f1 = IF b = n - 1 THEN f ELSE f \cup {b},
         NEW m \in 0..n, CleanedTo(n1, f1, m)
  PROVE  LET f2 == f1 \ (m..(n1 - 1))
         IN /\ o \ {b} = Live(m, f2)
            /\ \A c \in f2 : c < m
            /\ m - 1 \notin f2
<1> DEFINE f2 == f1 \ (m..(n1 - 1))
<1> USE BlockLayerAssumption
<1>1. b \in Blocks /\ b < n /\ b \notin f
  BY DEF Live
<1>2. n1 \in Int /\ m \in Nat /\ m <= n1 /\ m - 1 \notin f1
  BY <1>1 DEF CleanedTo
<1>3. \A c \in m..(n1 - 1) : c \in f1
  BY DEF CleanedTo
<1>4. f1 \subseteq Blocks /\ \A c \in f1 : c < n1
  BY <1>1
<1>5. \A c \in f2 : c < m
  BY <1>2, <1>4
<1>6. ASSUME NEW c \in Blocks PROVE c \in o \ {b} <=> c \in Live(m, f2)
  <2>1. ASSUME c \in o, c # b PROVE c < m /\ c \notin f2
    <3>1. c < n /\ c \notin f
      BY <2>1 DEF Live
    <3>2. c \notin f1 /\ c < n1
      BY <2>1, <3>1
    <3> QED
      BY <3>2, <1>2, <1>3
  <2>2. ASSUME c < m, c \notin f2 PROVE c \in o /\ c # b
    <3>1. c \notin f1 /\ c < n1
      BY <2>2, <1>2
    <3>2. c \notin f /\ c # b /\ c < n
      BY <3>1, <1>1
    <3> QED
      BY <3>2 DEF Live
  <2> QED
    BY <2>1, <2>2 DEF Live
<1>7. o \ {b} = Live(m, f2)
  BY <1>6 DEF Live
<1> QED
  BY <1>2, <1>5, <1>7

(* Without crashes the allocator never loses track: it is exact for the    *)
(* blocks the client owns, in memory and, across a remount, in the file.   *)
THEOREM AllocatorStaysExact == Spec => []AllocatorExact
<1>1. Init => AllocatorExact
  BY DEF Init, AllocatorExact
<1>2. TypeOK /\ AllocatorExact /\ [Next]_vars => AllocatorExact'
  <2> SUFFICES ASSUME TypeOK, AllocatorExact, [Next]_vars, Crashes = {}
               PROVE  AllocatorExact'
    BY DEF AllocatorExact
  <2> USE BlockLayerAssumption
  <2>0. UNCHANGED vars => AllocatorExact'
    BY DEF AllocatorExact, Exact, vars
  <2>1. block_dev_init => AllocatorExact'
    <3> SUFFICES ASSUME block_dev_init PROVE AllocatorExact'
      OBVIOUS
    <3>1. CASE UNCHANGED <<dev, next_alloc, freed, meta, owned>>
      BY <3>1 DEF AllocatorExact, Exact
    <3>2. CASE ~UNCHANGED <<dev, next_alloc, freed, meta, owned>>
      <4>1. /\ dev = "down" /\ dev' = "up"
            /\ next_alloc' = Loaded.next_alloc
            /\ freed' = Loaded.freed
            /\ owned' = IF Loaded.next_alloc = 0 THEN {} ELSE owned
        BY <3>2, Zenon DEF block_dev_init
      <4>2. CASE meta \in {NoFile, Junk}
        BY <4>1, <4>2 DEF AllocatorExact, Exact, Live, Loaded
      <4>3. CASE meta \notin {NoFile, Junk}
        <5>1. /\ owned = Live(meta.next_alloc, meta.freed)
              /\ \A b \in meta.freed : b < meta.next_alloc
              /\ meta.next_alloc - 1 \notin meta.freed
              /\ next_alloc' = meta.next_alloc /\ freed' = meta.freed
              /\ owned' = IF meta.next_alloc = 0 THEN {} ELSE owned
          BY <4>1, <4>3 DEF AllocatorExact, Exact, Loaded
        <5>2. owned' = owned
          BY <5>1 DEF Live
        <5>3. Exact(next_alloc, freed)'
          BY <5>1, <5>2 DEF Exact, Live
        <5> QED
          BY <5>3, <4>1 DEF AllocatorExact
      <4> QED
        BY <4>2, <4>3
    <3> QED
      BY <3>1, <3>2
  <2>2. block_dev_destroy => AllocatorExact'
    <3> SUFFICES ASSUME block_dev_destroy PROVE AllocatorExact'
      OBVIOUS
    <3>1. PICK meme \in Memes : meta' = Stored(NoFile, meme, State(next_alloc, freed))
      BY DEF block_dev_destroy
    <3>2. /\ meta' \in {State(next_alloc, freed), Junk, NoFile}
          /\ ~Flaky => meta' = State(next_alloc, freed)
      BY <3>1, StoredType
    <3>3. dev = "up" /\ dev' = "down" /\ owned' = owned
      BY DEF block_dev_destroy, Stop
    <3>4. Exact(next_alloc, freed)
      BY <3>3 DEF AllocatorExact
    <3>5. ASSUME meta' = State(next_alloc, freed)
          PROVE  Exact(meta.next_alloc, meta.freed)'
      BY <3>4, <3>5, <3>3 DEF Exact, Live
    <3>6. State(next_alloc, freed) \notin {NoFile, Junk}
      <4>1. next_alloc \in Nat /\ freed \in SUBSET Nat
        BY DEF TypeOK
      <4>2. State(next_alloc, freed) \in [next_alloc : Nat, freed : SUBSET Nat]
        BY <4>1
      <4> QED
        BY <4>2
    <3>7. meta' \notin {NoFile, Junk} => Exact(meta.next_alloc, meta.freed)'
      BY <3>2, <3>5
    <3>8. ~Flaky => meta' \notin {NoFile, Junk}
      BY <3>2, <3>6
    <3> QED
      BY <3>3, <3>7, <3>8 DEF AllocatorExact
  <2>3. allocate_block => AllocatorExact'
    <3> SUFFICES ASSUME allocate_block PROVE AllocatorExact'
      OBVIOUS
    <3>1. dev = "up" /\ dev' = "up"
      BY DEF allocate_block
    <3>2. Exact(next_alloc, freed)
      BY <3>1 DEF AllocatorExact
    <3>3. PICK b \in Blocks :
            /\ \/ b \in freed /\ freed' = freed \ {b} /\ next_alloc' = next_alloc
               \/ freed = {} /\ freed' = freed /\ b = next_alloc /\ next_alloc' = b + 1
            /\ owned' = owned \cup {b}
      BY DEF allocate_block
    <3>4. Exact(next_alloc, freed)'
      <4>1. owned' = Live(next_alloc, freed)'
        BY <3>2, <3>3 DEF TypeOK, Exact, Live
      <4>2. (\A c \in freed : c < next_alloc)'
        <5>1. \A c \in freed' : c \in freed /\ next_alloc' = next_alloc
          BY <3>3
        <5> QED
          BY <5>1, <3>2 DEF Exact
      <4>3. (next_alloc - 1 \notin freed)'
        BY <3>2, <3>3 DEF TypeOK, Exact
      <4> QED
        BY <4>1, <4>2, <4>3 DEF Exact
    <3> QED
      BY <3>1, <3>4 DEF AllocatorExact
  <2>4. Crash => AllocatorExact'
    BY DEF Crash
  <2>5. \A b \in Blocks : free_block(b) => AllocatorExact'
    <3> SUFFICES ASSUME NEW b \in Blocks, free_block(b) PROVE AllocatorExact'
      OBVIOUS
    <3>1. dev = "up" /\ dev' = "up" /\ owned' = owned \ {b} /\ b \in owned
      BY DEF free_block
    <3>2. /\ owned = Live(next_alloc, freed)
          /\ \A c \in freed : c < next_alloc
          /\ next_alloc - 1 \notin freed
      BY <3>1 DEF AllocatorExact, Exact
    <3> DEFINE n == IF b = next_alloc - 1 THEN next_alloc - 1 ELSE next_alloc
               f == IF b = next_alloc - 1 THEN freed ELSE freed \cup {b}
    <3>3. PICK m \in 0..next_alloc :
            CleanedTo(n, f, m) /\ next_alloc' = m /\ freed' = f \ (m..(n - 1))
      BY DEF free_block
    <3>4. next_alloc \in Nat /\ freed \in SUBSET Blocks
      BY DEF TypeOK
    <3> HIDE DEF n, f
    <3>5. n = (IF b = next_alloc - 1 THEN next_alloc - 1 ELSE next_alloc)
          /\ f = (IF b = next_alloc - 1 THEN freed ELSE freed \cup {b})
      BY DEF n, f
    <3>6. LET f2 == f \ (m..(n - 1))
          IN owned \ {b} = Live(m, f2) /\ (\A c \in f2 : c < m) /\ m - 1 \notin f2
      BY <3>1, <3>2, <3>3, <3>4, <3>5, FreeKeepsExact
    <3>7. Exact(next_alloc, freed)'
      BY <3>1, <3>3, <3>6 DEF Exact, Live
    <3> QED
      BY <3>1, <3>7 DEF AllocatorExact
  <2>6. \A b \in Blocks : read_block(b) => AllocatorExact'
    BY DEF read_block, AllocatorExact, Exact
  <2>7. \A b \in Blocks, d \in Data : write_block(b, d) => AllocatorExact'
    BY DEF write_block, AllocatorExact, Exact
  <2> QED
    BY <2>0, <2>1, <2>2, <2>3, <2>4, <2>5, <2>6, <2>7, NextCases
<1> QED
  BY <1>1, <1>2, TypeCorrect, PTL DEF Spec

-----------------------------------------------------------------------------
(* A number that allocate_block chooses was not live. *)
LEMMA NewIsNotLive ==
  ASSUME TypeOK, NEW b \in Live(next_alloc, freed),
         NEW c, c \in freed \/ c = next_alloc
  PROVE  b # c
  BY BlockLayerAssumption DEF Live, TypeOK

(* blocklayer.h:25-26 without crashes: a number handed out is not in use.  *)
THEOREM AllocationIsFresh ==
  ASSUME Crashes = {}
  PROVE  Spec => FreshAllocation
<1>1. TypeOK /\ AllocatorExact /\ [Next]_vars
        => [\A b \in Blocks : HandsOut(b) => b \notin owned]_vars
  <2> SUFFICES ASSUME TypeOK, AllocatorExact, NEW b \in Blocks, HandsOut(b)
               PROVE  b \notin owned
    OBVIOUS
  <2>1. owned = Live(next_alloc, freed)
    BY Crashes = {} DEF HandsOut, allocate_block, AllocatorExact, Exact
  <2>2. b \in freed \/ b = next_alloc
    BY DEF HandsOut, allocate_block, Returns
  <2> QED
    BY <2>1, <2>2, BlockLayerAssumption DEF Live, TypeOK
<1> QED
  BY <1>1, TypeCorrect, AllocatorStaysExact, PTL DEF Spec, FreshAllocation

-----------------------------------------------------------------------------
(* With crashes: whatever was in use at the last save and still is, the    *)
(* allocator in memory knows to be in use; and if it was freed since, it is *)
(* below the counter (a number that was not in use at the save need not be:*)
(* the client may free a block that only the lost state knew of).          *)
SafeIsLive ==
  dev = "up" => /\ Safe \subseteq Live(next_alloc, freed)
                /\ \A b \in freed \cap SavedLive : b < next_alloc

LEMMA SafeStaysLive == Spec => []SafeIsLive
<1>1. Init => SafeIsLive
  BY DEF Init, SafeIsLive
<1>2. TypeOK /\ SafeIsLive /\ [Next]_vars => SafeIsLive'
  <2> SUFFICES ASSUME TypeOK, SafeIsLive, [Next]_vars PROVE SafeIsLive'
    OBVIOUS
  <2> USE BlockLayerAssumption
  <2>0. UNCHANGED vars => SafeIsLive'
    BY DEF SafeIsLive, Safe, SavedLive, Live, vars
  <2>1. block_dev_init => SafeIsLive'
    <3> SUFFICES ASSUME block_dev_init, dev' = "up" PROVE SafeIsLive'
      BY DEF SafeIsLive
    <3>1. /\ next_alloc' = Loaded.next_alloc
          /\ freed' = Loaded.freed
          /\ meta' = IF meta = NoFile THEN Junk ELSE meta
      BY Zenon DEF block_dev_init
    <3>2. SavedLive' \subseteq Live(next_alloc, freed)'
      BY <3>1 DEF SavedLive, Loaded, Live
    <3>3. \A b \in SavedLive' : b < next_alloc'
      BY <3>2 DEF Live
    <3> QED
      BY <3>2, <3>3 DEF SafeIsLive, Safe
  <2>2. block_dev_destroy => SafeIsLive'
    BY DEF block_dev_destroy, Stop, SafeIsLive
  <2>3. allocate_block => SafeIsLive'
    <3> SUFFICES ASSUME allocate_block PROVE SafeIsLive'
      OBVIOUS
    <3>1. PICK b \in Blocks :
            /\ \/ b \in freed /\ freed' = freed \ {b} /\ next_alloc' = next_alloc
               \/ freed = {} /\ freed' = freed /\ b = next_alloc /\ next_alloc' = b + 1
            /\ owned' = owned \cup {b}
            /\ meta' = meta /\ dev = "up"
      BY DEF allocate_block
    <3>2. Safe \subseteq Live(next_alloc, freed)
      BY <3>1 DEF SafeIsLive
    <3>3. b \in SavedLive => b \in Live(next_alloc, freed)'
      BY <3>1 DEF TypeOK, Live, SafeIsLive
    <3>4. Live(next_alloc, freed) \subseteq Live(next_alloc, freed)'
      BY <3>1 DEF TypeOK, Live
    <3>5. SavedLive' = SavedLive /\ Safe' \subseteq Safe \cup ({b} \cap SavedLive)
      BY <3>1 DEF Safe, SavedLive, Live
    <3>6. \A c \in freed' \cap SavedLive' : c < next_alloc'
      BY <3>1, <3>5 DEF SafeIsLive
    <3> QED
      BY <3>2, <3>3, <3>4, <3>5, <3>6 DEF SafeIsLive
  <2>4. Crash => SafeIsLive'
    BY DEF Crash, Stop, SafeIsLive
  <2>5. \A b \in Blocks : free_block(b) => SafeIsLive'
    <3> SUFFICES ASSUME NEW b \in Blocks, free_block(b) PROVE SafeIsLive'
      OBVIOUS
    <3>1. /\ SavedLive' = SavedLive
          /\ Safe' = Safe \ {b}
          /\ b \in SavedLive => b < next_alloc
      BY DEF free_block, Safe, SavedLive, SafeIsLive, Live
    <3> DEFINE n == IF b = next_alloc - 1 THEN next_alloc - 1 ELSE next_alloc
               f == IF b = next_alloc - 1 THEN freed ELSE freed \cup {b}
    <3>2. PICK m \in 0..next_alloc :
            CleanedTo(n, f, m) /\ next_alloc' = m /\ freed' = f \ (m..(n - 1))
      BY DEF free_block
    <3>3. ASSUME NEW c \in Safe' PROVE c \in Live(next_alloc, freed)'
      <4>1. c \in Blocks /\ c < next_alloc /\ c \notin freed /\ c # b
        BY <3>1, <3>3 DEF SafeIsLive, free_block, Live
      <4> QED
        BY <4>1, <3>2 DEF CleanedTo, Live, TypeOK
    <3>4. ASSUME NEW c \in freed' \cap SavedLive PROVE c < next_alloc'
      <4>1. c \in f /\ c \notin m..(n - 1)
        BY <3>2, <3>4
      <4>2. c \in Blocks /\ c < n
        <5>1. CASE c = b
          BY <5>1, <4>1, <3>1, <3>4 DEF TypeOK, free_block
        <5>2. CASE c # b
          <6>1. c \in freed /\ c < next_alloc
            BY <5>2, <4>1, <3>4 DEF SafeIsLive, free_block
          <6> QED
            BY <5>2, <6>1 DEF TypeOK
        <5> QED
          BY <5>1, <5>2
      <4> QED
        BY <4>1, <4>2, <3>2 DEF TypeOK
    <3> QED
      BY <3>1, <3>3, <3>4 DEF SafeIsLive
  <2>6. \A b \in Blocks : read_block(b) => SafeIsLive'
    BY DEF read_block, SafeIsLive, Safe, SavedLive, Live
  <2>7. \A b \in Blocks, d \in Data : write_block(b, d) => SafeIsLive'
    BY DEF write_block, SafeIsLive, Safe, SavedLive, Live
  <2> QED
    BY <2>0, <2>1, <2>2, <2>3, <2>4, <2>5, <2>6, <2>7, NextCases
<1> QED
  BY <1>1, <1>2, TypeCorrect, PTL DEF Spec

(* A block in use since before the last save is never handed out again,    *)
(* wherever and however often the process dies.                            *)
THEOREM SavedBlocksStaySafe == Spec => SavedBlocksSafe
<1>1. TypeOK /\ SafeIsLive /\ [Next]_vars
        => [\A b \in Blocks : HandsOut(b) => b \notin Safe]_vars
  <2> SUFFICES ASSUME TypeOK, SafeIsLive, NEW b \in Blocks, HandsOut(b)
               PROVE  b \notin Safe
    OBVIOUS
  <2>1. Safe \subseteq Live(next_alloc, freed)
    BY DEF HandsOut, allocate_block, SafeIsLive
  <2>2. b \in freed \/ b = next_alloc
    BY DEF HandsOut, allocate_block, Returns
  <2> QED
    BY <2>1, <2>2, BlockLayerAssumption DEF Live, TypeOK
<1> QED
  BY <1>1, TypeCorrect, SafeStaysLive, PTL DEF Spec, SavedBlocksSafe

(* ... and its data changes by a write only, or by a crash in one.  What   *)
(* free_cleanup removes are the files of queued numbers, and those are not *)
(* of blocks in use.                                                       *)
THEOREM SavedDataStays == Spec => SavedDataKept
<1> DEFINE Kept == \A b \in Safe \cap Safe' : disk'[b] # disk[b] =>
                     \/ Crash /\ "in write_block" \in Crashes
                     \/ \E d \in Data : write_block(b, d)
<1>1. TypeOK /\ SafeIsLive /\ [Next]_vars => [Kept]_vars
  <2> SUFFICES ASSUME TypeOK, SafeIsLive, [Next]_vars,
                      NEW b \in Safe \cap Safe', disk'[b] # disk[b],
                      ~(Crash /\ "in write_block" \in Crashes),
                      ~\E d \in Data : write_block(b, d)
               PROVE  FALSE
    OBVIOUS
  <2>b. b \in Blocks /\ b \in owned /\ b \in owned'
    BY DEF Safe, TypeOK
  <2>0. UNCHANGED vars => FALSE
    BY DEF vars
  <2>1. block_dev_init => FALSE
    BY DEF block_dev_init
  <2>2. block_dev_destroy => FALSE
    BY DEF block_dev_destroy
  <2>3. allocate_block => FALSE
    <3> SUFFICES ASSUME allocate_block PROVE FALSE
      OBVIOUS
    <3>1. PICK c \in Blocks, meme \in Memes :
            /\ c \in freed \/ c = next_alloc
            /\ disk' = [disk EXCEPT ![c] = Stored(@, meme, Zero)]
      BY DEF allocate_block
    <3>2. b \in Live(next_alloc, freed)
      BY DEF allocate_block, SafeIsLive
    <3>3. b # c
      BY <3>1, <3>2, NewIsNotLive
    <3> QED
      BY <2>b, <3>1, <3>3 DEF TypeOK
  <2>4. Crash => FALSE
    BY DEF Crash
  <2>5. \A c \in Blocks : free_block(c) => FALSE
    <3> SUFFICES ASSUME NEW c \in Blocks, free_block(c) PROVE FALSE
      OBVIOUS
    <3>1. b # c
      BY <2>b DEF free_block
    <3>2. b \in Live(next_alloc, freed)
      BY DEF free_block, SafeIsLive
    <3>3. b \notin freed
      BY <3>2 DEF Live
    <3> DEFINE n == IF c = next_alloc - 1 THEN next_alloc - 1 ELSE next_alloc
               f == IF c = next_alloc - 1 THEN freed ELSE freed \cup {c}
    <3>4. PICK m \in 0..next_alloc :
            /\ CleanedTo(n, f, m)
            /\ disk' = [x \in Blocks |-> IF x = c \/ x \in m..(n - 1) THEN NoFile ELSE disk[x]]
      BY DEF free_block
    <3>5. b \notin m..(n - 1)
      BY <3>1, <3>3, <3>4 DEF CleanedTo
    <3> QED
      BY <2>b, <3>1, <3>4, <3>5
  <2>6. \A c \in Blocks : read_block(c) => FALSE
    BY DEF read_block
  <2>7. \A c \in Blocks, d \in Data : write_block(c, d) => FALSE
    <3> SUFFICES ASSUME NEW c \in Blocks, NEW d \in Data, write_block(c, d) PROVE FALSE
      OBVIOUS
    <3>1. CASE b = c
      <4>1. write_block(b, d)
        BY <3>1, Zenon DEF write_block
      <4> QED
        BY <4>1
    <3>2. CASE b # c
      BY <2>b, <3>2 DEF write_block, TypeOK
    <3> QED
      BY <3>1, <3>2
  <2> QED
    BY <2>0, <2>1, <2>2, <2>3, <2>4, <2>5, <2>6, <2>7, NextCases
<1> QED
  BY <1>1, TypeCorrect, SafeStaysLive, PTL DEF Spec, SavedDataKept

-----------------------------------------------------------------------------
(* What is read back from a file after new_meme and writeData.             *)
LEMMA ReadableStored ==
  ASSUME NEW old, NEW meme \in Memes, NEW d \in Contents
  PROVE  Readable(Stored(old, meme, d)) \in Store!Outcomes(d)
<1> USE BlockLayerAssumption
<1>1. Readable(Stored(old, meme, d)) \in {d, Junk}
  BY DEF Readable, Stored, Memes
<1>2. CASE Flaky
  BY <1>1, <1>2 DEF Store!Outcomes
<1>3. CASE ~Flaky
  <2>1. Stored(old, meme, d) = d
    BY <1>3, StoredType
  <2> QED
    BY <1>3, <2>1 DEF Store!Outcomes, Readable
<1> QED
  BY <1>2, <1>3

(* Without crashes the block layer implements BlockStore: reliably if      *)
(* every download succeeds, with losses and no stale data otherwise.       *)
THEOREM Refinement ==
  ASSUME Crashes = {}
  PROVE  Spec => ImplementsBlockStore
<1> DEFINE store == [b \in owned |-> Readable(disk[b])]
<1>1. Init => Store!Init
  BY DEF Init, Store!Init, Store!Empty
<1>2. TypeOK /\ AllocatorExact /\ [Next]_vars => [Store!Next]_(Store!vars)
  <2> SUFFICES ASSUME TypeOK, AllocatorExact, [Next]_vars
               PROVE  [Store!Next]_(Store!vars)
    OBVIOUS
  <2> USE BlockLayerAssumption, Crashes = {}
  <2>0. UNCHANGED vars => [Store!Next]_(Store!vars)
    BY DEF vars, Store!vars
  <2>1. block_dev_init => [Store!Next]_(Store!vars)
    <3> SUFFICES ASSUME block_dev_init PROVE Store!Remount
      BY DEF Store!Next
    <3>1. CASE UNCHANGED <<dev, next_alloc, freed, meta, owned>>
      <4>1. store' = store
        BY <3>1 DEF block_dev_init
      <4>2. \/ ret' = [val |-> 0, data |-> Nothing]
            \/ Flaky /\ ret' = [val |-> -1, data |-> Nothing]
        BY Zenon DEF block_dev_init, Returns
      <4> QED
        BY <4>1, <4>2 DEF Store!Remount, Store!Returns
    <3>2. CASE ~UNCHANGED <<dev, next_alloc, freed, meta, owned>>
      <4>1. /\ dev = "down"
            /\ owned' = IF Loaded.next_alloc = 0 THEN {} ELSE owned
            /\ disk' = disk
            /\ ret' = [val |-> 0, data |-> Nothing]
        BY <3>2, Zenon DEF block_dev_init, Returns
      <4>2. CASE owned' = owned
        <5>1. store' = store
          BY <4>1, <4>2
        <5> QED
          BY <5>1, <4>1 DEF Store!Remount, Store!Returns
      <4>3. CASE owned' # owned
        <5>1. owned' = {} /\ owned # {} /\ Loaded.next_alloc = 0
          BY <4>1, <4>3
        <5>2. Flaky
          <6>1. CASE meta \in {NoFile, Junk}
            BY <5>1, <6>1, <4>1 DEF AllocatorExact
          <6>2. CASE meta \notin {NoFile, Junk}
            BY <5>1, <6>2, <4>1 DEF AllocatorExact, Exact, Live, Loaded
          <6> QED
            BY <6>1, <6>2
        <5>3. store' = Store!Empty
          BY <5>1 DEF Store!Empty
        <5> QED
          BY <5>2, <5>3, <4>1 DEF Store!Remount, Store!Returns
      <4> QED
        BY <4>2, <4>3
    <3> QED
      BY <3>1, <3>2
  <2>2. block_dev_destroy => [Store!Next]_(Store!vars)
    <3> SUFFICES ASSUME block_dev_destroy PROVE Store!Remount
      BY DEF Store!Next
    <3>1. store' = store /\ ret' = [val |-> 0, data |-> Nothing]
      BY DEF block_dev_destroy, Returns
    <3> QED
      BY <3>1 DEF Store!Remount, Store!Returns
  <2>3. allocate_block => [Store!Next]_(Store!vars)
    <3> SUFFICES ASSUME allocate_block PROVE Store!allocate_block
      BY DEF Store!Next
    <3>1. PICK b \in Blocks, meme \in Memes :
            /\ b \in freed \/ b = next_alloc
            /\ disk' = [disk EXCEPT ![b] = Stored(@, meme, Zero)]
            /\ owned' = owned \cup {b}
            /\ ret' = [val |-> b, data |-> Nothing]
      BY DEF allocate_block, Returns
    <3>2. owned = Live(next_alloc, freed)
      BY DEF allocate_block, AllocatorExact, Exact
    <3>3. b \notin owned
      BY <3>1, <3>2 DEF Live, TypeOK
    <3> DEFINE d == Readable(Stored(disk[b], meme, Zero))
    <3>4. d \in Store!Outcomes(Zero)
      BY ReadableStored
    <3>5. store' = [c \in owned \cup {b} |-> IF c = b THEN d ELSE store[c]]
      <4>1. \A c \in owned \cup {b} :
              Readable(disk'[c]) = IF c = b THEN d ELSE Readable(disk[c])
        BY <3>1, <3>3 DEF TypeOK
      <4> QED
        BY <3>1, <3>3, <4>1
    <3>6. DOMAIN store = owned
      OBVIOUS
    <3> HIDE DEF store, d
    <3> QED
      BY <3>1, <3>3, <3>4, <3>5, <3>6 DEF Store!allocate_block, Store!Returns, store
  <2>4. Crash => [Store!Next]_(Store!vars)
    BY DEF Crash
  <2>5. \A b \in Blocks : free_block(b) => [Store!Next]_(Store!vars)
    <3> SUFFICES ASSUME NEW b \in Blocks, free_block(b) PROVE Store!free_block(b)
      BY DEF Store!Next
    <3>1. owned = Live(next_alloc, freed)
      BY DEF free_block, AllocatorExact, Exact
    <3> DEFINE n == IF b = next_alloc - 1 THEN next_alloc - 1 ELSE next_alloc
               f == IF b = next_alloc - 1 THEN freed ELSE freed \cup {b}
    <3>2. PICK m \in 0..next_alloc :
            /\ CleanedTo(n, f, m)
            /\ disk' = [x \in Blocks |-> IF x = b \/ x \in m..(n - 1) THEN NoFile ELSE disk[x]]
      BY DEF free_block
    <3>3. owned' = owned \ {b} /\ b \in owned
          /\ ret' = [val |-> 0, data |-> Nothing]
      BY DEF free_block, Returns
    <3>4. \A c \in owned \ {b} : disk'[c] = disk[c]
      BY <3>1, <3>2 DEF CleanedTo, Live
    <3>5. store' = [c \in owned \ {b} |-> store[c]]
      BY <3>3, <3>4
    <3> QED
      BY <3>3, <3>5 DEF Store!free_block, Store!Returns
  <2>6. \A b \in Blocks : read_block(b) => [Store!Next]_(Store!vars)
    <3> SUFFICES ASSUME NEW b \in Blocks, read_block(b) PROVE Store!read_block(b)
      BY DEF Store!Next
    <3>1. b < next_alloc /\ b \in owned
      BY DEF read_block, AllocatorExact, Exact, Live
    <3>2. ret' = [val |-> 0, data |-> Readable(disk[b])] /\ store' = store
      BY <3>1 DEF read_block, Returns, TypeOK
    <3> QED
      BY <3>1, <3>2 DEF Store!read_block, Store!Returns
  <2>7. \A b \in Blocks, d \in Data : write_block(b, d) => [Store!Next]_(Store!vars)
    <3> SUFFICES ASSUME NEW b \in Blocks, NEW d \in Data, write_block(b, d)
                 PROVE  Store!write_block(b, d)
      BY DEF Store!Next
    <3>1. b < next_alloc /\ b \in owned
      BY DEF write_block, AllocatorExact, Exact, Live
    <3>2. PICK meme \in Memes :
            /\ disk' = [disk EXCEPT ![b] = Stored(NoFile, meme, d)]
            /\ ret' = [val |-> 0, data |-> Nothing]
            /\ owned' = owned
      BY <3>1 DEF write_block, Returns, TypeOK
    <3> DEFINE e == Readable(Stored(NoFile, meme, d))
    <3>3. e \in Store!Outcomes(d)
      BY ReadableStored
    <3>4. store' = [store EXCEPT ![b] = e]
      <4>1. \A c \in owned : Readable(disk'[c]) = IF c = b THEN e ELSE Readable(disk[c])
        BY <3>2 DEF TypeOK
      <4> QED
        BY <3>1, <3>2, <4>1
    <3> QED
      BY <3>1, <3>2, <3>3, <3>4 DEF Store!write_block, Store!Returns
  <2> QED
    BY <2>0, <2>1, <2>2, <2>3, <2>4, <2>5, <2>6, <2>7, NextCases
<1> QED
  BY <1>1, <1>2, TypeCorrect, AllocatorStaysExact, PTL
     DEF Spec, ImplementsBlockStore, Store!Spec
=============================================================================
