----------------------------- MODULE BlockLayer -----------------------------
(***************************************************************************)
(* The block layer the build uses (blocklayer.c with VERSION 2): every     *)
(* block is a downloaded meme, memes/<n>.jpg, with the data hidden in it.  *)
(* The allocator is the counter next_alloc and the queue freed_blocks;     *)
(* both live in memory between block_dev_init and block_dev_destroy and    *)
(* are kept in memes/meta.jpg otherwise.                                   *)
(*                                                                         *)
(* The queue is the set that Queue.tla shows queue_desc.c to implement     *)
(* (its largest number is popped).  A meme is an image, a download that    *)
(* failed (junk: the errors of url2file are ignored), or none (get_meme    *)
(* returns NULL): see MemeDl.tla.                                          *)
(***************************************************************************)
EXTENDS Integers, FiniteSets

CONSTANTS
  MaxBlocks,  \* bound on next_alloc
  MetaSlots,  \* freed block numbers that fit into the meta block (62)
  Data,       \* contents the client writes
  Zero,       \* a block of zeros
  NoFile,     \* the file does not exist
  Junk,       \* the file exists but no data can be read from it
  Nothing,    \* no data returned
  Flaky,      \* TRUE: downloads may fail
  Crashes     \* where the process may die: a subset of CrashPoints

CrashPoints == {"between calls", "in write_block", "in save_state"}
Blocks == 0..(MaxBlocks - 1)
Contents == Data \cup {Zero}

ASSUME BlockLayerAssumption ==
  /\ MaxBlocks \in Nat \ {0}
  /\ MetaSlots \in Nat
  /\ NoFile \notin Contents
  /\ Junk \notin Contents
  /\ {NoFile, Junk} \cap [next_alloc : Nat, freed : SUBSET Nat] = {}
  /\ Flaky \in BOOLEAN
  /\ Crashes \subseteq CrashPoints

VARIABLES
  dev,         \* "up" between block_dev_init and block_dev_destroy, or "down"
  next_alloc,  \* every block number from here on is free
  freed,       \* freed_blocks, as a set
  disk,        \* the files <n>.jpg
  meta,        \* the file meta.jpg: the saved allocator state, if readable
  ret,         \* [val, data] returned by the last call
  owned        \* (observer) blocks the client was handed and has not freed

allocator == <<next_alloc, freed>>
vars == <<dev, next_alloc, freed, disk, meta, ret, owned>>

State(n, f) == [next_alloc |-> n, freed |-> f]
Live(n, f) == {b \in Blocks : b < n /\ b \notin f}
SavedLive ==
  IF meta \in {NoFile, Junk} THEN {} ELSE Live(meta.next_alloc, meta.freed)

Returns(v, d) == ret' = [val |-> v, data |-> d]

-----------------------------------------------------------------------------
(* Memes and the files made from them. *)

Memes == IF Flaky THEN {"image", "junk", "none"} ELSE {"image"}

(* Mutation of Stored: without a meme nothing is written. *)
Stored_skipping(old, meme, d) ==
  CASE meme = "image" -> d
    [] meme = "junk"  -> Junk
    [] meme = "none"  -> old

(* new_meme followed by writeData: the meme replaces the file, the data d  *)
(* is hidden in it.  Without a meme the rename fails and writeData finds   *)
(* the old file; every error is ignored.                                   *)
Stored(old, meme, d) ==
  CASE meme = "image" -> d
    [] meme = "junk"  -> Junk
    [] meme = "none"  -> IF old \in {NoFile, Junk} THEN old ELSE d

(* readData: the client learns whether the block held data. *)
Readable(content) == IF content \in {NoFile, Junk} THEN Junk ELSE content

-----------------------------------------------------------------------------
Init ==
  /\ dev = "down"
  /\ next_alloc = 0
  /\ freed = {}
  /\ disk = [b \in Blocks |-> NoFile]
  /\ meta = NoFile
  /\ ret = [val |-> 0, data |-> Nothing]
  /\ owned = {}

(* Mutations of Loaded: the counter is read one too high, one too low. *)
Loaded_high ==
  IF meta \in {NoFile, Junk} THEN State(0, {}) ELSE State(meta.next_alloc + 1, meta.freed)
Loaded_low ==
  IF meta \in {NoFile, Junk} \/ meta.next_alloc = 0 THEN State(0, {})
  ELSE State(meta.next_alloc - 1, meta.freed)

(* load_state: a meta file that cannot be read leaves the buffer of zeros. *)
Loaded == IF meta \in {NoFile, Junk} THEN State(0, {}) ELSE meta

(* block_dev_init.  It fails when the feed cannot be read.  Otherwise the  *)
(* open creates an empty meta.jpg if there is none.  A client that cannot  *)
(* read block 0 makes a new file system (fatfs.c:580-607): it owns nothing.*)
block_dev_init ==
  /\ dev = "down"
  /\ UNCHANGED disk
  /\ \/ /\ Flaky
        /\ Returns(-1, Nothing)
        /\ UNCHANGED <<dev, next_alloc, freed, meta, owned>>
     \/ /\ dev' = "up"
        /\ next_alloc' = Loaded.next_alloc
        /\ freed' = Loaded.freed
        /\ meta' = IF meta = NoFile THEN Junk ELSE meta
        /\ owned' = IF Loaded.next_alloc = 0 THEN {} ELSE owned
        /\ Returns(0, Nothing)

Stop == dev' = "down" /\ next_alloc' = 0 /\ freed' = {}

(* block_dev_destroy: save_state rewrites meta.jpg like any block, after   *)
(* memedl_destroy emptied the queue of urls.  A longer queue than fits the *)
(* meta block overruns the buffer, which is not modelled.                  *)
block_dev_destroy ==
  /\ dev = "up"
  /\ Cardinality(freed) <= MetaSlots
  /\ \E meme \in Memes :
       meta' = Stored(NoFile, meme, State(next_alloc, freed))
  /\ Stop
  /\ Returns(0, Nothing)
  /\ UNCHANGED <<disk, owned>>

(* Mutation of allocate_block: the queue is read and not popped. *)
allocate_block_peeking ==
  /\ dev = "up"
  /\ \E b \in Blocks :
       /\ \/ b \in freed /\ (\A c \in freed : c <= b) /\ UNCHANGED next_alloc
          \/ freed = {} /\ b = next_alloc /\ next_alloc' = b + 1
       /\ \E meme \in Memes : disk' = [disk EXCEPT ![b] = Stored(@, meme, Zero)]
       /\ owned' = owned \cup {b}
       /\ Returns(b, Nothing)
  /\ UNCHANGED <<dev, freed, meta>>

(* The number comes off the queue (the largest) or off the counter; then   *)
(* its file is made and filled with zeros.                                 *)
allocate_block ==
  /\ dev = "up"
  /\ \E b \in Blocks :
       /\ \/ /\ b \in freed
             /\ \A c \in freed : c <= b
             /\ freed' = freed \ {b}
             /\ UNCHANGED next_alloc
          \/ /\ freed = {}
             /\ b = next_alloc
             /\ next_alloc' = b + 1
             /\ UNCHANGED freed
       /\ \E meme \in Memes : disk' = [disk EXCEPT ![b] = Stored(@, meme, Zero)]
       /\ owned' = owned \cup {b}
       /\ Returns(b, Nothing)
  /\ UNCHANGED <<dev, meta>>

(* Mutation of CleanedTo: free_cleanup does nothing. *)
CleanedTo_nothing(n, f, m) == m = n

(* free_cleanup: next_alloc moves down over the freed numbers below it.    *)
CleanedTo(n, f, m) == m <= n /\ m - 1 \notin f /\ \A b \in m..(n - 1) : b \in f

(* Mutation of free_block: the cleanup removes one file too many. *)
free_block_removing(b) ==
  /\ dev = "up"
  /\ b \in owned /\ b \notin freed
  /\ \E m \in 0..next_alloc :
       LET last == b = next_alloc - 1
           n    == IF last THEN next_alloc - 1 ELSE next_alloc
           f    == IF last THEN freed ELSE freed \cup {b}
       IN /\ CleanedTo(n, f, m)
          /\ next_alloc' = m
          /\ freed' = f \ (m..(n - 1))
          /\ disk' = [c \in Blocks |->
                        IF c = b \/ c \in (m - 1)..(n - 1) THEN NoFile ELSE disk[c]]
  /\ owned' = owned \ {b}
  /\ Returns(0, Nothing)
  /\ UNCHANGED <<dev, meta>>

(* The number goes back to the counter or into the queue.  The client      *)
(* frees a block it owns; one that is queued already is the case that      *)
(* Queue.tla excludes too.                                                 *)
free_block(b) ==
  /\ dev = "up"
  /\ b \in owned /\ b \notin freed
  /\ \E m \in 0..next_alloc :
       LET last == b = next_alloc - 1
           n    == IF last THEN next_alloc - 1 ELSE next_alloc
           f    == IF last THEN freed ELSE freed \cup {b}
       IN /\ CleanedTo(n, f, m)
          /\ next_alloc' = m
          /\ freed' = f \ (m..(n - 1))
          /\ disk' = [c \in Blocks |->
                        IF c = b \/ c \in m..(n - 1) THEN NoFile ELSE disk[c]]
  /\ owned' = owned \ {b}
  /\ Returns(0, Nothing)
  /\ UNCHANGED <<dev, meta>>

(* 0 is returned whether or not the block's file yielded any data. *)
read_block(b) ==
  /\ dev = "up"
  /\ b \in owned
  /\ IF b >= next_alloc THEN Returns(-1, Nothing) ELSE Returns(0, Readable(disk[b]))
  /\ UNCHANGED <<dev, next_alloc, freed, disk, meta, owned>>

(* The old file is removed before the new meme is downloaded. *)
write_block(b, d) ==
  /\ dev = "up"
  /\ b \in owned
  /\ \/ b >= next_alloc /\ Returns(-1, Nothing) /\ UNCHANGED disk
     \/ /\ b < next_alloc
        /\ Returns(0, Nothing)
        /\ \E meme \in Memes : disk' = [disk EXCEPT ![b] = Stored(NoFile, meme, d)]
  /\ UNCHANGED <<dev, next_alloc, freed, meta, owned>>

-----------------------------------------------------------------------------
(* The process dies: what is in memory is lost, the files stay.  Between   *)
(* calls covers the other calls too, whose file operations are redone or   *)
(* undone by nobody and concern a block that was not in use before or is   *)
(* not in use any more.  write_block and save_state lose the old file      *)
(* while they wait for the download.                                       *)
Crash ==
  /\ dev = "up"
  /\ Stop
  /\ \/ "between calls" \in Crashes /\ UNCHANGED <<disk, meta>>
     \/ /\ "in write_block" \in Crashes
        /\ \E b \in owned : b < next_alloc /\ disk' = [disk EXCEPT ![b] = NoFile]
        /\ UNCHANGED meta
     \/ "in save_state" \in Crashes /\ meta' = NoFile /\ UNCHANGED disk
  /\ UNCHANGED <<ret, owned>>

Next ==
  \/ block_dev_init
  \/ block_dev_destroy
  \/ allocate_block
  \/ Crash
  \/ \E b \in Blocks :
       \/ free_block(b)
       \/ read_block(b)
       \/ \E d \in Data : write_block(b, d)

Spec == Init /\ [][Next]_vars

-----------------------------------------------------------------------------
(* Types; the ranges also say that the allocator's numbers stay in bounds. *)
TypeOK ==
  /\ dev \in {"up", "down"}
  /\ next_alloc \in 0..MaxBlocks
  /\ freed \in SUBSET Blocks
  /\ disk \in [Blocks -> Contents \cup {NoFile, Junk}]
  /\ meta \in {NoFile, Junk} \cup [next_alloc : 0..MaxBlocks, freed : SUBSET Blocks]
  /\ ret \in [val : Blocks \cup {0, -1}, data : Contents \cup {Junk, Nothing}]
  /\ owned \in SUBSET Blocks

(* An allocator state is exact for the blocks the client owns: these are   *)
(* the numbers below the counter that are not queued, the queue holds no   *)
(* other number, and the last number below the counter is not queued.      *)
Exact(n, f) ==
  /\ owned = Live(n, f)
  /\ \A b \in f : b < n
  /\ n - 1 \notin f

(* Without crashes no block leaks and none is handed out twice: the        *)
(* allocator is exact while the device is up, and so is the saved state    *)
(* while it is down (unless the meta file was lost: then nothing is known).*)
AllocatorExact ==
  Crashes = {} =>
    /\ dev = "up" => Exact(next_alloc, freed)
    /\ dev = "down" /\ meta \notin {NoFile, Junk} => Exact(meta.next_alloc, meta.freed)
    /\ dev = "down" /\ ~Flaky /\ meta \in {NoFile, Junk} => owned = {}

(* blocklayer.h:25-26: a new block is not used for any other file. *)
HandsOut(b) == allocate_block /\ ret'.val = b
FreshAllocation == [][\A b \in Blocks : HandsOut(b) => b \notin owned]_vars

(* The blocks in use that were in use at the last save are not handed out  *)
(* again, whatever crashes happened since.                                 *)
Safe == owned \cap SavedLive
SavedBlocksSafe == [][\A b \in Blocks : HandsOut(b) => b \notin Safe]_vars

(* ... and nothing but a write to it, or a crash in that write, changes    *)
(* what such a block holds.                                                *)
SavedDataKept ==
  [][\A b \in Safe \cap Safe' : disk'[b] # disk[b] =>
        \/ Crash /\ "in write_block" \in Crashes
        \/ \E d \in Data : write_block(b, d)]_vars

(* The block layer does what blocklayer.h promises, with the losses that   *)
(* failing downloads bring and no others.                                  *)
Store == INSTANCE BlockStore WITH
  store <- [b \in owned |-> Readable(disk[b])],
  Lost  <- Junk,
  Lossy <- Flaky
ImplementsBlockStore == Store!Spec
=============================================================================
