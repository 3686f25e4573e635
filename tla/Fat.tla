-------------------------------- MODULE Fat --------------------------------
(***************************************************************************)
(* The file allocation table of fatfs.c: how truncate and unlink, and the  *)
(* functions under them (alloc_blocks, realloc_fat, free_blocks), change   *)
(* the table, the superblock's counters and the block allocator.  Each     *)
(* pass through a loop is a step, so that the operations of several        *)
(* threads interleave: fuse_main runs several unless told otherwise, and   *)
(* nothing here is locked.                                                 *)
(*                                                                         *)
(* The size of a file is counted in blocks, BLOCKS(size), and directory    *)
(* entries are a function from names to entries.  The allocator is that of *)
(* BlockLayer.tla with downloads that succeed.                             *)
(***************************************************************************)
EXTENDS Integers, Sequences, FiniteSets, SequencesExt

CONSTANTS
  Threads,        \* threads of the FUSE loop
  Files,          \* names of files
  FAT_PER_BLOCK,  \* table entries in a block (64)
  MaxBlocks,      \* bound on next_alloc
  MaxFile         \* bound on the blocks of a file

ASSUME FatAssumption ==
  /\ FAT_PER_BLOCK \in Nat /\ FAT_PER_BLOCK > 2
  /\ MaxBlocks \in Nat /\ MaxBlocks > 2
  /\ MaxFile \in Nat

VARIABLES
  fat,         \* the table in memory, a function on 0..fat_size-1
  sb,          \* [free_blocks, fat_size, fat_start, fat_end]
  next_alloc,  \* the allocator's counter
  freed,       \* the allocator's queue
  entry,       \* the directory entry of every file, or NoEntry
  stored,      \* [part, sb] as last written: the table's blocks, the superblock
  pc,          \* the next step of every thread
  reg,         \* the local variables of every thread
  fault        \* "none", or the undefined behaviour that was reached

allocator == <<next_alloc, freed>>
vars == <<fat, sb, next_alloc, freed, entry, stored, pc, reg, fault>>

FAT_NULL == 0
Cut == -1                  \* what truncate stores behind a shortened file
Blocks == 0..(MaxBlocks - 1)
Root == 2                  \* the root directory's block

NoEntry == [start |-> FAT_NULL, blocks |-> -1]
Exists(f) == entry[f] # NoEntry
Live == {b \in Blocks : b < next_alloc /\ b \notin freed}

(* Locals: de is the copy of the entry read at the start of the operation, *)
(* start, last, new and todo belong to alloc_blocks, cur to free_blocks.   *)
NoLocals ==
  [op |-> "none", file |-> "none", de |-> NoEntry, want |-> 0, todo |-> 0,
   start |-> FAT_NULL, last |-> FAT_NULL, new |-> FAT_NULL, cur |-> FAT_NULL]

-----------------------------------------------------------------------------
(* Walking the table. *)

(* The blocks from p on, up to FAT_NULL or Cut (or a number that is not in *)
(* the table); a cycle shows up as more blocks than there are.             *)
InTable(p) == p # FAT_NULL /\ p \in DOMAIN fat
ChainIn(table, p) ==
  LET next == [b \in Blocks \cup {Cut} |->
                 IF b \in DOMAIN table \ {FAT_NULL} THEN table[b] ELSE FAT_NULL]
      node[k \in 0..MaxBlocks] == IF k = 0 THEN p ELSE next[node[k - 1]]
      length == Cardinality({k \in 0..MaxBlocks : node[k] \notin {FAT_NULL, Cut}})
  IN [k \in 1..length |-> node[k - 1]]
Chain(p) == ChainIn(fat, p)

(* Mutation: the walk stops a block early. *)
nth_block_before(p, offset) == Chain(p)[IF offset = 0 THEN 1 ELSE offset]

nth_block(p, offset) == Chain(p)[offset + 1]
last_block(p) == Last(Chain(p))

(* last_block reads fat[-1] when the chain from p does not end with NULL.  *)
EndsWell(p) == InTable(last_block(p)) /\ fat[last_block(p)] = FAT_NULL

-----------------------------------------------------------------------------
(* The table on disk: write_fat writes its parts, FAT_PER_BLOCK entries    *)
(* each, into the blocks of the chain from fat_start.                      *)
Part(table, k) == [i \in 0..(FAT_PER_BLOCK - 1) |-> table[(k - 1) * FAT_PER_BLOCK + i]]
write_fat(table, s) ==
  LET c == ChainIn(table, s.fat_start)
      written == {k \in DOMAIN c : k * FAT_PER_BLOCK <= s.fat_size}
  IN [b \in {c[k] : k \in written} |-> Part(table, Max({k \in written : c[k] = b}))]

(* read_fat finds the block of each part in the parts it has read before;  *)
(* calloc left FAT_NULL in those to come, and allocate_block filled a      *)
(* block that was not written since with zeros.                            *)
PartIn(b) ==
  IF b \in DOMAIN stored.part THEN stored.part[b]
  ELSE [i \in 0..(FAT_PER_BLOCK - 1) |-> FAT_NULL]
PartOf(i) == (i \div FAT_PER_BLOCK) + 1   \* the part that has entry i

table_blocks ==
  LET size == stored.sb.fat_size \div FAT_PER_BLOCK
      block[k \in 1..size] ==
        IF k = 1 THEN stored.sb.fat_start
        ELSE LET b == block[k - 1]
             IN IF b = Cut \/ PartOf(b) >= k THEN FAT_NULL
                ELSE PartIn(block[PartOf(b)])[b % FAT_PER_BLOCK]
  IN block

read_fat ==
  LET place == table_blocks
  IN [i \in 0..(stored.sb.fat_size - 1) |->
        IF place[PartOf(i)] = FAT_NULL THEN FAT_NULL
        ELSE PartIn(place[PartOf(i)])[i % FAT_PER_BLOCK]]

-----------------------------------------------------------------------------
(* fatfs_init on an empty store: block 0 is the superblock, block 1 the    *)
(* first block of the table, block 2 the root directory.                   *)
Init ==
  /\ fat = [i \in 0..(FAT_PER_BLOCK - 1) |-> FAT_NULL]
  /\ sb = [free_blocks |-> FAT_PER_BLOCK - 3, fat_size |-> FAT_PER_BLOCK,
           fat_start |-> 1, fat_end |-> 1]
  /\ next_alloc = 3
  /\ freed = {}
  /\ entry = [f \in Files |-> NoEntry]
  /\ stored = [part |-> write_fat(fat, sb), sb |-> sb]
  /\ pc = [t \in Threads |-> "idle"]
  /\ reg = [t \in Threads |-> NoLocals]
  /\ fault = "none"

At(t, step) == fault = "none" /\ pc[t] = step
Goto(t, step) == pc' = [pc EXCEPT ![t] = step]
Set(t, r) == reg' = [reg EXCEPT ![t] = r]

(* The process is killed, or goes on with memory that is not its own. *)
Fails(what) ==
  /\ fault' = what
  /\ UNCHANGED <<fat, sb, next_alloc, freed, entry, stored, pc, reg>>

(* fatfs_mknod: an empty file. *)
Mknod(t, f) ==
  /\ At(t, "idle")
  /\ ~Exists(f)
  /\ entry' = [entry EXCEPT ![f] = [start |-> FAT_NULL, blocks |-> 0]]
  /\ UNCHANGED <<fat, sb, next_alloc, freed, stored, pc, reg, fault>>

(* Bound: room for k blocks and the table blocks they may need. *)
Room(k) == next_alloc + k + (k \div (FAT_PER_BLOCK - 1)) + 1 <= MaxBlocks

(* fatfs_truncate, up to the calls of alloc_blocks or free_blocks. *)
Grow(t, f, n) ==
  /\ At(t, "idle")
  /\ Exists(f) /\ n > entry[f].blocks
  /\ Room(n - entry[f].blocks)
  /\ Set(t, [NoLocals EXCEPT !.op = "truncate", !.file = f, !.de = entry[f],
                             !.want = n, !.todo = n - entry[f].blocks])
  /\ Goto(t, "alloc")
  /\ UNCHANGED <<fat, sb, next_alloc, freed, entry, stored, fault>>

(* Mutation: the kept part is not cut off from the freed one. *)
Shrink_uncut(t, f, n) ==
  /\ At(t, "idle")
  /\ Exists(f) /\ n < entry[f].blocks
  /\ Set(t, [NoLocals EXCEPT
               !.op = "truncate", !.file = f, !.want = n,
               !.de = IF n = 0 THEN [entry[f] EXCEPT !.start = FAT_NULL] ELSE entry[f],
               !.cur = Chain(entry[f].start)[n + 1]])
  /\ Goto(t, "free")
  /\ UNCHANGED <<fat, sb, next_alloc, freed, entry, stored, fault>>

(* A chain shorter than the size says is walked to an entry that is none.  *)
Shrink(t, f, n) ==
  LET de == entry[f]
      r  == [NoLocals EXCEPT !.op = "truncate", !.file = f, !.want = n]
      kept == Chain(de.start)
  IN /\ At(t, "idle")
     /\ Exists(f) /\ n < de.blocks
     /\ \/ n > Len(kept) /\ Fails("wild")
        \/ /\ n = 0
           /\ Set(t, [r EXCEPT !.de = [de EXCEPT !.start = FAT_NULL], !.cur = de.start])
           /\ Goto(t, "free")
           /\ UNCHANGED <<fat, sb, next_alloc, freed, entry, stored, fault>>
        \/ /\ 0 < n /\ n <= Len(kept)
           /\ LET last == nth_block(de.start, n - 1)
              IN /\ last \in DOMAIN fat  \* bound: not beyond the table
                 /\ Set(t, [r EXCEPT !.de = de, !.cur = fat[last]])
                 /\ fat' = [fat EXCEPT ![last] = Cut]
           /\ Goto(t, "free")
           /\ UNCHANGED <<sb, next_alloc, freed, entry, stored, fault>>

(* Mutation: the first block is not freed. *)
Unlink_leaking(t, f) ==
  /\ At(t, "idle")
  /\ Exists(f)
  /\ Set(t, [NoLocals EXCEPT !.op = "unlink", !.file = f, !.cur = fat[entry[f].start]])
  /\ Goto(t, "free")
  /\ UNCHANGED <<fat, sb, next_alloc, freed, entry, stored, fault>>

(* fatfs_unlink: free_blocks first, the entry is deleted after it. *)
Unlink(t, f) ==
  /\ At(t, "idle")
  /\ Exists(f)
  /\ Set(t, [NoLocals EXCEPT !.op = "unlink", !.file = f, !.cur = entry[f].start])
  /\ Goto(t, "free")
  /\ UNCHANGED <<fat, sb, next_alloc, freed, entry, stored, fault>>

-----------------------------------------------------------------------------
(* allocate_block takes the largest queued number, else the counter's.     *)
NewBlock == IF freed = {} THEN next_alloc ELSE Max(freed)

(* alloc_blocks: the counter is read in this step and advanced in another. *)
Take(t) ==
  /\ At(t, "alloc")
  /\ reg[t].todo > 0
  /\ NewBlock < MaxBlocks
  /\ Set(t, [reg[t] EXCEPT !.new = NewBlock])
  /\ freed' = freed \ {NewBlock}
  /\ Goto(t, IF freed = {} THEN "advance" ELSE "place")
  /\ UNCHANGED <<fat, sb, next_alloc, entry, stored, fault>>

Advance(t) ==
  /\ At(t, "advance")
  /\ next_alloc' = next_alloc + 1
  /\ Goto(t, "place")
  /\ UNCHANGED <<fat, sb, freed, entry, stored, reg, fault>>

(* The first block only starts the chain, whatever its number is. *)
PlaceFirst(t) ==
  /\ At(t, "place")
  /\ reg[t].start = FAT_NULL
  /\ Set(t, [reg[t] EXCEPT !.start = reg[t].new, !.last = reg[t].new, !.todo = @ - 1])
  /\ Goto(t, "alloc")
  /\ UNCHANGED <<fat, sb, next_alloc, freed, entry, stored, fault>>

(* realloc_fat: the table grows by a block, which is linked behind its     *)
(* last one.                                                               *)
(* Mutations: an entry too few; the new size is not noted. *)
Longer_short == [i \in 0..(sb.fat_size + FAT_PER_BLOCK - 2) |->
                   IF i \in DOMAIN fat THEN fat[i] ELSE FAT_NULL]
Regrown == [sb EXCEPT !.fat_end = NewBlock, !.free_blocks = @ + FAT_PER_BLOCK - 1]

Longer == [i \in 0..(sb.fat_size + FAT_PER_BLOCK - 1) |->
             IF i \in DOMAIN fat THEN fat[i] ELSE FAT_NULL]
Grown == [sb EXCEPT !.fat_end = NewBlock, !.fat_size = @ + FAT_PER_BLOCK,
                    !.free_blocks = @ + FAT_PER_BLOCK - 1]

(* Mutation: the table's size is taken for its last number. *)
InSize_last(b) == b <= sb.fat_size

InSize(b) == b < sb.fat_size

Expand(t) ==
  /\ At(t, "place")
  /\ reg[t].start # FAT_NULL /\ ~InSize(reg[t].new)
  /\ NewBlock < MaxBlocks
  /\ next_alloc' = IF freed = {} THEN next_alloc + 1 ELSE next_alloc
  /\ freed' = freed \ {NewBlock}
  /\ fat' = [Longer EXCEPT ![sb.fat_end] = NewBlock]
  /\ sb' = Grown
  /\ UNCHANGED <<entry, stored, pc, reg, fault>>

PlaceNext(t) ==
  LET r == reg[t]
  IN /\ At(t, "place")
     /\ r.start # FAT_NULL /\ InSize(r.new)
     /\ fat' = [fat EXCEPT ![r.last] = r.new]
     /\ Set(t, [r EXCEPT !.last = r.new, !.todo = @ - 1])
     /\ Goto(t, "alloc")
     /\ UNCHANGED <<sb, next_alloc, freed, entry, stored, fault>>

(* The chain is ended, counted, and written: superblock first.  A single   *)
(* block's number was never compared with fat_size.                        *)
num_blocks_all(r) == r.want   \* mutation: the file's old blocks too
num_blocks(r) == r.want - r.de.blocks

Ended(r) == [fat EXCEPT ![r.last] = FAT_NULL]
Charged(r) == [sb EXCEPT !.free_blocks = @ - num_blocks(r)]

EndChain(t) ==
  LET r == reg[t]
  IN /\ At(t, "alloc")
     /\ r.todo = 0
     /\ \/ r.last \notin DOMAIN fat /\ Fails("overrun")
        \/ /\ r.last \in DOMAIN fat
           /\ fat' = Ended(r)
           /\ sb' = Charged(r)
           /\ stored' = [part |-> write_fat(fat', sb'), sb |-> sb']
           /\ Goto(t, "attach")
           /\ UNCHANGED <<next_alloc, freed, entry, reg, fault>>

(* Mutation: the new chain takes the place of the old one. *)
Attach_replacing(t) ==
  /\ At(t, "attach")
  /\ Set(t, [reg[t] EXCEPT !.de.start = reg[t].start])
  /\ Goto(t, "save")
  /\ UNCHANGED <<fat, sb, next_alloc, freed, entry, stored, fault>>

(* truncate links the new chain behind the old one. *)
Linked(r) == [fat EXCEPT ![last_block(r.de.start)] = r.start]

Attach(t) ==
  LET r == reg[t]
  IN /\ At(t, "attach")
     /\ \/ /\ r.de.start = FAT_NULL
           /\ Set(t, [r EXCEPT !.de.start = r.start])
           /\ Goto(t, "save")
           /\ UNCHANGED <<fat, sb, next_alloc, freed, entry, stored, fault>>
        \/ r.de.start # FAT_NULL /\ ~EndsWell(r.de.start) /\ Fails("wild")
        \/ /\ r.de.start # FAT_NULL /\ EndsWell(r.de.start)
           /\ fat' = Linked(r)
           /\ stored' = [stored EXCEPT !.part = write_fat(fat', sb)]
           /\ Goto(t, "save")
           /\ UNCHANGED <<sb, next_alloc, freed, entry, reg, fault>>

-----------------------------------------------------------------------------
(* free_blocks: one block after the other; its table entry is left as it   *)
(* is and read once the block is free.  The allocator is that of           *)
(* BlockLayer.tla (free_block, free_cleanup).  A number that is queued     *)
(* already makes a cycle in the list, or two cells of it.                  *)
CleanedTo(n, f, m) == m <= n /\ m - 1 \notin f /\ \A b \in m..(n - 1) : b \in f

FreeNext(t) ==
  LET b == reg[t].cur
  IN /\ At(t, "free")
     /\ b # FAT_NULL
     /\ \/ b = Cut /\ Fails("wild")
        \/ b \in freed /\ Fails("twice")
        \/ /\ b \notin freed \cup {Cut}
           /\ \E m \in 0..next_alloc :
                LET n == IF b = next_alloc - 1 THEN next_alloc - 1 ELSE next_alloc
                    f == IF b = next_alloc - 1 THEN freed ELSE freed \cup {b}
                IN CleanedTo(n, f, m) /\ next_alloc' = m /\ freed' = f \ (m..(n - 1))
           /\ sb' = [sb EXCEPT !.free_blocks = @ + 1]
           /\ Set(t, [reg[t] EXCEPT !.cur = fat[b]])
           /\ UNCHANGED <<fat, entry, stored, pc, fault>>

(* Mutation: write_fat alone. *)
FreeDone_uncounted(t) ==
  /\ At(t, "free")
  /\ reg[t].cur = FAT_NULL
  /\ stored' = [stored EXCEPT !.part = write_fat(fat, sb)]
  /\ Goto(t, "save")
  /\ UNCHANGED <<fat, sb, next_alloc, freed, entry, reg, fault>>

FreeDone(t) ==
  /\ At(t, "free")
  /\ reg[t].cur = FAT_NULL
  /\ stored' = [part |-> write_fat(fat, sb), sb |-> sb]
  /\ Goto(t, "save")
  /\ UNCHANGED <<fat, sb, next_alloc, freed, entry, reg, fault>>

(* The entry is looked up again and overwritten, or deleted; an entry that *)
(* is no longer there stays away.                                          *)
Save(t) ==
  LET r == reg[t]
  IN /\ At(t, "save")
     /\ entry' = [entry EXCEPT ![r.file] =
                     IF r.op = "truncate" /\ Exists(r.file)
                     THEN [start |-> r.de.start, blocks |-> r.want] ELSE NoEntry]
     /\ Set(t, NoLocals)
     /\ Goto(t, "idle")
     /\ UNCHANGED <<fat, sb, next_alloc, freed, stored, fault>>

Begin(t) ==
  \E f \in Files :
    \/ Mknod(t, f)
    \/ Unlink(t, f)
    \/ \E n \in 0..MaxFile : Grow(t, f, n) \/ Shrink(t, f, n)

Step(t) ==
  \/ Take(t) \/ Advance(t) \/ PlaceFirst(t) \/ Expand(t) \/ PlaceNext(t)
  \/ EndChain(t) \/ Attach(t) \/ FreeNext(t) \/ FreeDone(t) \/ Save(t)

(* fatfs_destroy, then fatfs_init on what is there: the allocator's state  *)
(* is kept (BlockLayer.tla), the table and the superblock are read back.   *)
Remount ==
  /\ \A t \in Threads : At(t, "idle")
  /\ fat' = read_fat
  /\ sb' = stored.sb
  /\ UNCHANGED <<next_alloc, freed, entry, stored, pc, reg, fault>>

Next == Remount \/ \E t \in Threads : Begin(t) \/ Step(t)

Spec == Init /\ [][Next]_vars

(* An operation that was begun goes on: its worker thread is scheduled. *)
FairSpec == Spec /\ \A t \in Threads : WF_vars(Step(t))

-----------------------------------------------------------------------------
Quiet == fault = "none" /\ \A t \in Threads : pc[t] = "idle"
Blocked(f) == IF Exists(f) THEN Chain(entry[f].start) ELSE <<>>

(* Types; the table has as many entries as the superblock says. *)
TypeOK ==
  /\ DOMAIN fat = 0..(sb.fat_size - 1)
  /\ \A i \in DOMAIN fat : fat[i] \in Blocks \cup {Cut}
  /\ sb \in [free_blocks : Int, fat_size : Nat, fat_start : Blocks, fat_end : Blocks]
  /\ next_alloc \in 0..MaxBlocks
  /\ freed \subseteq Blocks
  /\ \A f \in Files : entry[f] \in [start : Blocks, blocks : -1..MaxFile]
  /\ \A t \in Threads :
       /\ pc[t] \in {"idle", "alloc", "advance", "place", "attach", "free", "save"}
       /\ reg[t].want \in 0..MaxFile /\ reg[t].todo \in 0..MaxFile
       /\ {reg[t].start, reg[t].last, reg[t].new} \subseteq Blocks
       /\ reg[t].cur \in Blocks \cup {Cut}
  /\ fault \in {"none", "overrun", "wild", "twice"}

(* Between operations every file's chain is as long as its size says.      *)
ChainsFitSizes ==
  Quiet => \A f \in Files : Exists(f) => Len(Blocked(f)) = entry[f].blocks

(* Between operations the blocks in use are exactly the superblock, the    *)
(* root directory, the table's blocks and the files' blocks, and no block  *)
(* is used twice: nothing leaks, no two files share a block.               *)
BlocksPartitioned ==
  Quiet =>
    LET Users == {<<0>>, <<Root>>, Chain(sb.fat_start)} \cup {Blocked(f) : f \in Files}
    IN /\ UNION {ToSet(c) : c \in Users} = Live
       /\ \A c \in Users : IsInjective(c)
       /\ \A c, d \in Users : c # d => ToSet(c) \cap ToSet(d) = {}
       /\ \A f, g \in Files : f # g /\ Blocked(f) # <<>> => Blocked(f) # Blocked(g)

(* fatfs_statfs reports free_blocks: the table's entries that are not of   *)
(* blocks in use.                                                          *)
FreeBlocksCounted ==
  Quiet => sb.free_blocks = sb.fat_size - Cardinality(Live)

(* Whenever the file system may be unmounted, read_fat gets back the table *)
(* in memory: no change is left unwritten, and the entry that leads to a   *)
(* part of the table lies in a part that is read before it.                *)
TableReadable == Quiet => read_fat = fat /\ stored.sb = sb

(* At no step does a file lose its blocks or get them in another order:    *)
(* chains change at their ends.                                            *)
ChainsChangeAtTheEnd ==
  [][\A f \in Files : Exists(f) /\ Exists(f)' =>
       \/ IsPrefix(Blocked(f), Blocked(f)')
       \/ IsPrefix(Blocked(f)', Blocked(f))]_vars

(* No block is handed to the allocator that it has already: the list of    *)
(* freed blocks never gets a number twice.                                 *)
NeverFreedTwice == fault # "twice"

(* Every operation comes to its end: no loop runs for ever. *)
OperationsEnd ==
  \A t \in Threads : pc[t] # "idle" ~> (pc[t] = "idle" \/ fault # "none")

(* The table grows in time (fatfs.c:45-46, 255): a chain is ended beyond   *)
(* it only when its one block was never compared with the table's size;    *)
(* every block behind the first has its entry, in whatever order the       *)
(* numbers come.                                                           *)
OverrunByLoneBlock ==
  fault = "overrun" => \E t \in Threads : reg[t].todo = 0 /\ reg[t].last = reg[t].start

(* fatfs.c:61-62: 0 is the null pointer, and a chain ends with it.         *)
ChainsEndWithNull == fault # "wild"

(* blocklayer.h:25-26: a new block is not used for any other file.         *)
NoSharedBlocks ==
  \A f, g \in Files : f # g => ToSet(Blocked(f)) \cap ToSet(Blocked(g)) = {}
=============================================================================
