------------------------------ MODULE Restart ------------------------------
(***************************************************************************)
(* The whole file system through crashes: the table of Fat.tla in memory   *)
(* and on disk, the directory, and the block layer's allocator, whose      *)
(* state is saved by an orderly unmount only (block_dev_destroy), while    *)
(* the table, the superblock and the directory are written as operations   *)
(* go.  After a crash the next mount combines newer tables with the old    *)
(* state of the allocator, and goes on from there.                         *)
(*                                                                         *)
(* Fat's fat, sb, next_alloc, freed, pc and reg are the process; entry,    *)
(* stored, saved and holds are on disk.  Crashes come between the writes   *)
(* of blocks (BlockLayer.tla has those within one); downloads succeed.     *)
(***************************************************************************)
EXTENDS Fat

CONSTANTS
  NoState,     \* no allocator state was ever saved
  MaxCrashes   \* bound on crashes

ASSUME RestartAssumption ==
  /\ IsFiniteSet(Threads) /\ Cardinality(Threads) = 1
  /\ MaxCrashes \in Nat
  /\ NoState \notin [next_alloc : 0..MaxBlocks, freed : SUBSET Blocks]
  /\ Files \cap {"nothing", "system", "table"} = {}

VARIABLES
  up,        \* the file system is mounted
  saved,     \* meta.jpg: the allocator's state, [next_alloc, freed], or NoState
  holds,     \* what the file of every block was last written for
  crashes,   \* how often the process has died
  clean,     \* (observer) it has not died since the file system was made
  kept       \* (observer) as last unmounted while clean: the table's size, and
             \* the chains of the files that were not changed since

process == <<fat, sb, next_alloc, freed, pc, reg>>
rvars == <<process, entry, stored, fault, up, saved, holds, crashes, clean, kept>>

Formatted(old) ==
  [b \in Blocks |->
     IF b \in {0, Root} THEN "system" ELSE IF b = 1 THEN "table" ELSE old[b]]
Nothing == [files |-> <<>>, fat_size |-> 0]

(* block_dev_init and fatfs_init on an empty store. *)
RInit ==
  /\ Init
  /\ up = TRUE
  /\ saved = NoState
  /\ holds = Formatted([b \in Blocks |-> "nothing"])
  /\ crashes = 0
  /\ clean = TRUE
  /\ kept = Nothing

-----------------------------------------------------------------------------
(* Operations, as in Fat.tla. *)

Holding(blocks, what) ==
  holds' = [b \in Blocks |-> IF b \in blocks THEN what ELSE holds[b]]

Unchanged(f) ==
  [files |-> [g \in DOMAIN kept.files \ {f} |-> kept.files[g]], fat_size |-> kept.fat_size]

RBegin(t) ==
  /\ \E f \in Files :
       /\ \/ Mknod(t, f)
          \/ Unlink(t, f)
          \/ \E n \in 0..MaxFile : Grow(t, f, n) \/ Shrink(t, f, n)
       /\ kept' = Unchanged(f)
  /\ UNCHANGED holds

(* The write_fat of the next step of t, if it has one: the table and the   *)
(* superblock in memory by then, and whether the superblock is written     *)
(* before it, after it, or not at all.                                     *)
Pending(t) ==
  LET r == reg[t]
  IN (IF pc[t] = "alloc" /\ r.todo = 0 /\ r.last \in DOMAIN fat
      THEN {[table |-> Ended(r), sb |-> Charged(r), super |-> "before"]} ELSE {})
     \cup
     (IF pc[t] = "attach" /\ r.de.start # FAT_NULL /\ EndsWell(r.de.start)
      THEN {[table |-> Linked(r), sb |-> sb, super |-> "not"]} ELSE {})
     \cup
     (IF pc[t] = "free" /\ r.cur = FAT_NULL
      THEN {[table |-> fat, sb |-> sb, super |-> "after"]} ELSE {})

(* write_fat: the first k of the table's blocks.                           *)
TableChain(w) == ChainIn(w.table, w.sb.fat_start)
TableBlocks(w, k) ==
  {TableChain(w)[j] : j \in {i \in DOMAIN TableChain(w) :
                                i <= k /\ i * FAT_PER_BLOCK <= w.sb.fat_size}}
AllBlocks(w) == TableBlocks(w, Len(TableChain(w)))

(* write_block refuses a number that the allocator does not know; then     *)
(* write_block_fs ends the process.  So does a walk that comes to Cut.     *)
Known(b) == b < next_alloc
CutOff(w) ==
  LET c == TableChain(w)
  IN w.table[Last(c)] = Cut /\ Len(c) * FAT_PER_BLOCK < w.sb.fat_size
Writable(w) == ~CutOff(w) /\ \A b \in AllBlocks(w) : Known(b)

RStep(t) ==
  /\ UNCHANGED kept
  /\ \/ Take(t) /\ Holding({NewBlock}, reg[t].file)
     \/ Expand(t) /\ Holding({NewBlock}, "table")
     \/ (Advance(t) \/ PlaceFirst(t) \/ PlaceNext(t) \/ Save(t)) /\ UNCHANGED holds
     \/ FreeNext(t) /\ Holding({reg[t].cur} \cup next_alloc'..(next_alloc - 1), "nothing")
     \/ /\ EndChain(t) \/ Attach(t) \/ FreeDone(t)
        /\ \A w \in Pending(t) : Writable(w)
        /\ Holding(UNION {AllBlocks(w) : w \in Pending(t)}, "table")

(* fatfs_write within the file's size, one block of it. *)
Overwrite(t, f) ==
  /\ At(t, "idle") /\ Exists(f)
  /\ \E b \in ToSet(Blocked(f)) : Known(b) /\ Holding({b}, f)
  /\ UNCHANGED <<process, entry, stored, fault, kept>>

-----------------------------------------------------------------------------
(* Memory that is gone; nothing reads it while the system is down. *)
Down ==
  /\ up' = FALSE
  /\ fat' = <<>>
  /\ sb' = [stored'.sb EXCEPT !.fat_size = 0]
  /\ next_alloc' = 0
  /\ freed' = {}
  /\ pc' = [t \in Threads |-> "idle"]
  /\ reg' = [t \in Threads |-> NoLocals]

(* fatfs_destroy: everything but the allocator's state is written already. *)
Unmount ==
  /\ up /\ Quiet
  /\ UNCHANGED <<entry, stored, fault, holds, crashes, clean>>
  /\ saved' = [next_alloc |-> next_alloc, freed |-> freed]
  /\ kept' = IF clean
             THEN [files |-> [f \in {g \in Files : Exists(g)} |-> Blocked(f)],
                   fat_size |-> sb.fat_size]
             ELSE kept
  /\ Down

(* The writes that are done when the process dies within those of a step:  *)
(* the first k blocks of the table, the superblock before or after them.   *)
Torn(w, k) ==
  LET done == TableBlocks(w, k)
      new  == write_fat(w.table, w.sb)
  IN [part |-> [b \in DOMAIN stored.part \cup done |->
                  IF b \in done THEN new[b] ELSE stored.part[b]],
      sb   |-> IF w.super = "before" THEN w.sb ELSE stored.sb]

(* The process is killed, or ends itself because it cannot go on. *)
Crash ==
  /\ up /\ fault = "none"
  /\ crashes < MaxCrashes
  /\ \/ UNCHANGED <<stored, holds>>
     \/ \E t \in Threads : \E w \in Pending(t) : \E k \in 0..Len(TableChain(w)) :
          /\ \A b \in TableBlocks(w, k) : Known(b)
          /\ stored' = Torn(w, k)
          /\ Holding(TableBlocks(w, k), "table")
  /\ crashes' = crashes + 1
  /\ clean' = FALSE
  /\ Down
  /\ UNCHANGED <<entry, fault, saved, kept>>

(* fatfs_init.  If no state of the allocator was saved, block 0 cannot be  *)
(* read and a new file system is made.  Otherwise the table is read; a     *)
(* part whose number the allocator does not know ends the process, as does *)
(* the walk to what comes after Cut; what a part used by something else is *)
(* taken for is left open.                                                 *)
Format ==
  /\ saved = NoState
  /\ LET size == FAT_PER_BLOCK
         table == [i \in 0..(size - 1) |-> FAT_NULL]
         super == [free_blocks |-> size - 3, fat_size |-> size, fat_start |-> 1, fat_end |-> 1]
     IN /\ fat' = table
        /\ sb' = super
        /\ stored' = [part |-> write_fat(table, super), sb |-> super]
  /\ next_alloc' = 3
  /\ freed' = {}
  /\ entry' = [f \in Files |-> NoEntry]
  /\ holds' = Formatted(holds)
  /\ clean' = TRUE
  /\ UNCHANGED fault

ReadParts == {b \in ToSet(table_blocks) : b # FAT_NULL}
Readable == \A b \in ReadParts : b # Cut /\ b < saved.next_alloc

(* Mutation: queue_load counts from the last number in use. *)
Load_behind ==
  /\ saved # NoState
  /\ Readable
  /\ next_alloc' = saved.next_alloc - 1
  /\ freed' = saved.freed
  /\ sb' = stored.sb
  /\ fat' = read_fat
  /\ UNCHANGED <<entry, stored, fault, holds, clean>>

Load ==
  /\ saved # NoState
  /\ Readable
  /\ next_alloc' = saved.next_alloc
  /\ freed' = saved.freed
  /\ sb' = stored.sb
  /\ fat' = read_fat
  /\ fault' = IF \A b \in ReadParts : holds[b] = "table" THEN fault ELSE "garbage"
  /\ UNCHANGED <<entry, stored, holds, clean>>

Mount ==
  /\ ~up
  /\ Format \/ Load
  /\ up' = TRUE
  /\ UNCHANGED <<pc, reg, saved, crashes, kept>>

RNext ==
  \/ Mount
  \/ Unmount
  \/ Crash
  \/ /\ up
     /\ \E t \in Threads :
          \/ RBegin(t)
          \/ RStep(t)
          \/ \E f \in Files : Overwrite(t, f)
     /\ UNCHANGED <<up, saved, crashes, clean>>

RSpec == RInit /\ [][RNext]_rvars

-----------------------------------------------------------------------------
(* Types; Fat's hold while the file system is mounted. *)
RTypeOK ==
  /\ up /\ fault # "garbage" => TypeOK
  /\ saved \in {NoState} \cup [next_alloc : 3..MaxBlocks, freed : SUBSET Blocks]
  /\ holds \in [Blocks -> {"nothing", "system", "table"} \cup Files]
  /\ crashes \in 0..MaxCrashes
  /\ DOMAIN kept.files \subseteq Files

(* Without crashes, through any number of mounts: every block of a file    *)
(* holds what was written for that file, and the table and the system's    *)
(* blocks are their own.                                                   *)
DataOwned ==
  up /\ clean /\ Quiet =>
    /\ \A f \in Files : \A b \in ToSet(Blocked(f)) : holds[b] = f
    /\ \A b \in ToSet(Chain(sb.fat_start)) : holds[b] = "table"
    /\ holds[0] = "system" /\ holds[Root] = "system"

(* What an orderly unmount wrote survives one crash, whatever is done      *)
(* before it and after it: a file that was there and was not changed since *)
(* can still be read whole by the next mount, in spite of the operations   *)
(* on other files that the crash broke; as long as the table on disk has   *)
(* not grown since that unmount.  A second crash, in the middle of         *)
(* write_fat, can link a broken file to an entry of the table that was     *)
(* left from before, and so to a saved file.                               *)
SavedFilesIntact ==
  crashes <= 1 /\ stored.sb.fat_size = kept.fat_size =>
    /\ \A b \in ReadParts : b < saved.next_alloc /\ b \notin saved.freed /\ holds[b] = "table"
    /\ holds[0] = "system" /\ holds[Root] = "system"
    /\ \A f \in DOMAIN kept.files :
         LET chain == kept.files[f]
         IN /\ entry[f].blocks = Len(chain)
            /\ ChainIn(read_fat, entry[f].start) = chain
            /\ \A b \in ToSet(chain) :
                 holds[b] = f /\ b < saved.next_alloc /\ b \notin saved.freed

(* Only crashes make the allocator and the table disagree: as long as the  *)
(* process has not died, through any number of mounts, no number is freed  *)
(* twice and no part of the table is taken from a block of something else. *)
(* (What Fat.tla finds on its own is left: a single block beyond the table *)
(* and a chain that ends with Cut.)                                        *)
BrokenByCrashesOnly == clean => fault \in {"none", "overrun", "wild"}
=============================================================================
