# A TLA+ model of MemeFS

MemeFS is a FUSE file system that keeps its blocks as data hidden in downloaded
JPEG memes. This directory holds TLA+ modules translated from its C source
(paths below are relative to `src/`), TLC configurations that check them on
small instances, and theorems about the block layer in all its versions, the free
lists, the meme source, the allocation table, directories, the data of files, mounts
and the prototype, with proofs for every size. It covers the program the Makefile builds, and the
alternatives in the source that it does not build.

`PROJECT.json` lists components, runs, mutants, findings, hazards and theorems,
and maps every definition that models code to the lines it stands for.

## 1. Inventory

The Makefile builds `memefs` from `blocklayer.c` (with `VERSION` 2 and
`QUETYPE` 1, which includes `queue_desc.c` and `memedl.c`) and `fatfs.c`.

| part | state | operations | talks to |
|---|---|---|---|
| free list, `queue_desc.c` | linked cells, head, tail, size | push, pop, remove, save, load | used by the block layer |
| meme source, `memedl.c` with `string_queue.c`, `urlextract.c`, `getinmemory.c`, `url2file.c` | queue of urls | init, get_meme, destroy | RSS feed and image hosts through curl |
| block layer, `blocklayer.c` | `next_alloc`, `freed_blocks` in memory; `memes/<n>.jpg`, `memes/meta.jpg` | init, destroy, read, write, allocate, free | meme source, free list, jsteg (Go library that hides the data) |
| allocation table, `fatfs.c` | `fat`, the superblock; their blocks | alloc_blocks, realloc_fat, free_blocks, read_fat, write_fat, truncate | block layer |
| directories, `fatfs.c` | blocks of five entries, chained in the table | mknod, mkdir, symlink, chmod, rename, unlink, rmdir, lookups | table, block layer, called by FUSE |
| file data, `fatfs.c` | blocks of 256 bytes | read, write, truncate | table, block layer |
| mounting, `fatfs.c` | | fatfs_init, fatfs_destroy | all of the above |

Not part of the program that is built, but modelled: `queue.c` (`QUETYPE` 0), the block
layer in one big file and in text files (`VERSION` 0 and 1), the tests in
`blocklayer.c` (`TEST`), and `memefs.c`, an inode-based prototype that uses the
same block layer.

All calls go down: FUSE calls `fatfs.c`, which calls the block layer, which calls
the free list, jsteg and the meme source. A block is read or written with a
download in the middle of it, so every call can be slow and can fail, and nearly
all errors are ignored on the way. `fuse_main` runs requests in several threads
unless told otherwise; there are no locks anywhere.

What is hard in this code, in short (`PROJECT.json` "hazards" has all of it, by line):

- allocation: numbers go back and forth between a counter and a list, and the
  state is saved only at an orderly shutdown;
- the table grows in the middle of an allocation, by a block that is allocated
  in the same way and lies behind the end of the table that is being extended;
- chains are linked, cut and appended to in several steps; entries of freed
  blocks stay as they are;
- directories are packed by moving entries, extended by blocks, and a directory's
  size and parent are kept in several places;
- crashes: the table, the superblock and the directories are written as
  operations go, the allocator's state at unmount only, so that the next mount
  puts an old allocator under a newer table;
- failures: downloads, and threads.

For each part, what makes it correct:

- free list: a set of numbers, no cell lost or in use twice, the largest popped;
- meme source: urls used in order, none twice if the feed is busy enough;
- block layer: a store of blocks; a new block is not in use; a write sticks;
  saved blocks survive crashes;
- table: chains fit sizes, blocks are partitioned and counted, the table on disk
  is the one in memory, loops end;
- directories: an operation changes one name and nothing else; no block of a
  directory is orphaned or shared; the redundant fields agree;
- file data: bytes are read and written where the caller says;
- mounting: what an orderly unmount wrote and nobody changed since survives all
  that comes later, and without crashes table, allocator and data always agree;
- the other two ways to store blocks: the same promises to a client as the images',
  as far as each can keep them;
- the prototype: its root directory is found again, or made again, after a crash, over the
  same blocks unless the crash cut off the superblock's write.

## 2. Modules

| module | what it is | main correspondences |
|---|---|---|
| `FreeSet` | abstract: a set of numbers, with save and load | |
| `Queue` | the lists of `queue_desc.c` and `queue.c` cell by cell | `q`, `mem`, `used` are `struct queue`, the heap's cells, and what malloc has handed out; one action per function; `QUETYPE` says which list it is, `broken` that a freed cell was written |
| `QueueProofs` | theorems about `Queue` | |
| `MemeDl` | `memedl.c` with what it includes | `url_queue` is the string queue; a url is the number of the meme in the order of posting |
| `BlockStore` | abstract: what `blocklayer.h` promises, with the losses failing downloads bring | |
| `BlockLayer` | `blocklayer.c`, `VERSION` 2 | `next_alloc`, `freed`, `disk` (the `<n>.jpg`), `meta` (`meta.jpg`); one action per call of the header, and `Crash` |
| `BlockLayerProofs` | theorems about `BlockLayer` | |
| `MemeDlProofs` | theorems about `MemeDl` | |
| `Fat` | the table in `fatfs.c`, one pass of a loop per step | `fat`, `sb`, `next_alloc`, `freed`; `pc` and `reg` are each thread's place and locals; `stored` is what has been written |
| `FatProofs` | theorems about `Fat` with one thread | |
| `Names` | abstract: what names stand for | |
| `FatFs` | the directories of `fatfs.c` | `disk.dir` are the entries of each block, `disk.fat` the table, `disk.used` the blocks that are allocated; `pending` is the second half of unlink or rename |
| `MCFatFs` | `FatFs` with the symmetry of names for TLC | |
| `FatFsProofs` | theorems about `FatFs` | |
| `Restart` | extends `Fat` with an allocator that is saved at unmount, crashes and mounts | `RBegin`, `RStep` are `Fat`'s steps and what they write to blocks; `saved` is `meta.jpg`, `holds` what each block was last written for, `kept` the files of the last orderly unmount that were not changed since, `Pending` the write_fat of the next step, `Torn` one that is cut off |
| `RestartProofs` | theorems about `Restart` | |
| `Backends` | the block layer of `VERSION` 0, 1 and 2 and its tests, as functions of a device | one operator per function; `block` are the files or the parts of the big file; `write_cut`, `allocate_cut` and `save_cut` are the devices left by a process that dies within a call |
| `Versions` | a client of `Backends`, one action per call, with crashes | `contents` is what the client may expect to read |
| `MemeFs` | `memefs.c` as a client of `Backends`; extends `Versions` | `superblock`, `inode_table`, `on_disk`; one action for init, one for destroy, one for the lookups and stubs; `meme_init_crash` and `meme_crash` for a process that dies between or within their calls of the block layer |
| `MemeFsProofs` | theorems about `Versions` and `MemeFs`: lemmas on the calls of `Backends`, the invariant of any client, the prototype's, and the theorems | |
| `ByteFile` | abstract: bytes at offsets | |
| `FileIO` | fatfs_read, fatfs_write and fatfs_truncate on one file | `chain` are its blocks |
| `FileIOProofs` | theorems about `FileIO` | |

How they fit together. `Queue` refines `FreeSet`; `BlockLayer` uses the set that
`Queue` implements (the largest freed number is popped). `BlockLayer` takes a meme
to be an image, junk, or none, which is what `MemeDl`'s `get_meme` returns.
`BlockLayer` refines `BlockStore`; `Fat` uses the same allocator in two steps
(taking the number and advancing the counter), `FatFs` in one. `FatFs` refines
`Names`, with the directories' entries read back through the chains; `FileIO`
refines `ByteFile`. `Restart` extends `Fat`, whose steps are its own, by the block layer's
unmount, mount and crash. `Backends` has no state:
`Versions` and `MemeFs` are two clients of the same device, and a run of `MemeFs`
chooses version and client at the start.

The actions contain all that the handlers do, downloads, saves and size updates
included. What the caller guarantees is in the guards: FUSE's kernel side looks
names up before it creates or renames, and sends no empty reads or writes; the
file system frees only blocks it owns. Where the code can be brought outside of
these guards, that is listed as a hazard with a note.

Definitions named "Mutation" in comments belong to no specification: each is a
plausible bug which, put in the place of the definition after it, makes a checked
property fail. They show that the properties can fail.

## 3. Runs

### Passing

| run | bounds | shows |
|---|---|---|
| `Queue_both` | numbers 0..3, 3 cells, both lists | the list has every cell in use once and implements a set, `queue_save` then `queue_load` loses nothing, and both return how many numbers there are; that of `queue_desc.c` is strictly descending, and that of `queue.c` goes wrong only by a push through a tail that was freed |
| `MemeDl_busy` | fetches of 2, 6 memes posted | urls are used first to last, none is skipped or used again, whatever fetches and downloads fail |
| `BlockLayer_flaky` | 4 blocks, 1 value, no crashes | the allocator is exact, a new block is not in use, the layer implements `BlockStore`: failing downloads cost the contents of the blocks concerned, or everything if it is the meta block, and nothing else |
| `BlockLayer_crash` | 4 blocks, 1 value, all crash points | blocks in use at the last save and since are not handed out and keep their data |
| `Fat_one` | 1 thread, 2 files of up to 3 blocks, 3 table entries in a block, 10 blocks | the invariants of the table, between operations; that files change only at their ends, at every step; that no block is freed twice; that only a block that is alone in its allocation is put beyond the table; that every operation ends |
| `FatFs_dirs` | 2 names and one too long, 2 permissions, 3 entries in a block, 3 entries, 6 blocks | `Names`, with files, links and directories; directory blocks are named, once each; `.` and `..` stay first; renames onto names that exist, too, orphan no block |
| `FileIO` | 2 bytes in a block, sizes up to 5, all offsets and lengths | reads and writes are exact |
| `Restart` | 1 thread, 2 files of up to 2 blocks, 4 table entries in a block, 7 blocks, 1 crash, any number of mounts | files that were saved by an unmount and not changed since survive the crash and everything done after it; without the crash no block is freed twice and every block holds what its owner wrote; numbers stay in bounds whatever happens |
| `MemeFs` | 3 versions, 2 clients, 9 blocks of which any client uses 3, one freed number fits into the meta block, tests with 3 blocks, 2 crashes within the prototype's superblock write and any number of others | the allocator, running and saved, knows every block of the client; writes stick; freed data is gone where there are files; the repository's tests succeed; the prototype's root directory is there after every start, and a crash costs it blocks only if it cuts off the superblock's write |

Why the bounds are enough. Three cells let a list have a head, a middle and a
tail, so that every branch of insertion and removal is taken at each place; four
numbers let one be missing at either end or between. Four blocks let a hole lie
below the counter with a block on either side, and cleanup move over more than
one. The table's blocks are scaled from 64 entries to 3, and a directory's from 5
to 3 (with `.` and `..` one is left), so that tables are extended twice and
directories get a second block (`MaxEntries` keeps them from a third; the theorems are about any
number). Three blocks of a
file give a chain a first, a middle and a last. In `FileIO` a range can lie within a block, end at
its boundary, and span one or two full ones.

In `Restart`, 4 entries in a part and 7 blocks let the table grow once, before or
after the last unmount, and a crash cut its two parts apart; two files of two
blocks are enough for one to be kept while the other is reallocated over the
crash. One crash is enough for all that the properties allow to go wrong: after
it two files share a block, a block is freed twice and the table is overrun, all
of which were seen in this run. A part of the table that a file has
overwritten (`fault = "garbage"`) needs more blocks than that.

In `MemeFs` one number fits into the meta block, so that two freed blocks below
one in use make VERSION 0 refuse to save and the other two write behind their
buffer. The tests' 30 blocks are 3. The prototype takes three blocks for a file system, and
three more after each crash within the superblock's write, so that 9 blocks and two such crashes
(`MaxCuts`) are a first file system, one that is made because of a crash, and one because of a
crash of that. `MaxCuts` bounds no other crash.

The runs with `CHECK_DEADLOCK FALSE` can stop: `Queue` when it has written to a
freed cell, `MemeDl` when all memes are posted
and the process is gone, `Fat` and `Restart` when the process ran into undefined behaviour, is at
its bounds or cannot mount, `FatFs` when a block was read that is not there,
`MemeFs` when behaviour became undefined (`dev = "undefined"`).

`MaxBlocks`, `MaxClient`, `MaxPosted`, `MaxFile`, `MaxEntries`, `MaxSize`,
`MaxCrashes` and `MaxCuts` are the bounds; they appear in guards only. Five more choices bound
what is looked at:

- `Fat` does not go on from a shortening at a block that lies beyond the table
  (that needs an overrun first), and `Fat`, `Restart` and `Queue` stop at undefined
  behaviour instead of following it;
- in `FatFs`, files and directories are made with one mode, and where the user
  renames onto names that exist modes do not change at all (`Given`); which of
  the two users there is is chosen at the start (`onto`);
- crashes in `Restart` come between writes of blocks, those of `Versions`' client between
  calls, and downloads succeed there and in `Backends`; `BlockLayer` has crashes within the
  write of a block, and downloads that fail. The prototype may die within any call that
  writes: one system call does all of a write in VERSION 0 and 1, while VERSION 2 removes the
  image, downloads another and only then writes into it (`blocklayer.c:941-943`);
- a symbolic link's target in `FatFs` is shorter than 240 bytes. A longer one reaches the bytes
  where a directory block has its count, which matters only where a `..` that mkdir has set
  wrongly leads to the link's block;
- in `MemeFs` the buffer that a read of an empty store leaves uninitialised does not
  contain the magic number by chance. A directory block without contents leaves
  every outcome of a lookup open.

`SavedFilesIntact` is stated as long as the table on disk has not grown since the
unmount. When it has, the new part has a number the saved allocator does not
know: the next mount ends the process in `read_block_fs` (`Load` is not possible
then), or, once such a number is in use again, reads something else as table.

It is stated for one crash, since it is false for two. A crash within
`write_fat` leaves some parts of the new table and some of the old one on disk. The
new ones may have a chain that goes on in an entry whose part was not written, and what
that entry says is from before: as long as nothing was broken, it is the end of a chain or
a number that was free then. After a first crash the allocator of the last unmount
hands out numbers again that are in broken chains; a second crash can then join
such a chain to an entry that leads to a block of a saved file, and deleting the
broken file frees that block.

`NamesUnique` and `ImplementsNames` are stated for users who do not rename onto
names that exist: fatfs_rename makes a second entry of the name (`fatfs.c:963`), which
is hidden until the other is deleted. `BlocksNamed` and `DotsStayFirst` hold for
those users, too.

### Violations: where the code does other than it says

| run | what happens |
|---|---|
| `Fat_null` | a chain that was cut ends with -1 and not with `FAT_NULL` |
| `Fat_threads` | two threads get the same block |
| `FatFs_parent` | a directory entered in its parent's second block gets a wrong `..` |

More of the kind are not runs of their own, but visible in the modules:

- the first block of a chain is not compared with the table's size
  (`fatfs.c:249`), so that `fat[last_block] = FAT_NULL` is written behind the array.
  `Fat_one` reaches it (`fault = "overrun"`); `OverrunByLoneBlock` says that it takes
  an allocation of one block, the loop for the others being right;
- with crashes `FreshAllocation` fails: the allocator's state is saved at shutdown
  only. What still holds is `SavedBlocksSafe`, and for files `SavedFilesIntact`;
- a write whose download fails loses the old and the new data although it returns 0 (`Stored`);
- `get_meme` works after `memedl_destroy`, contrary to `memedl.c:33`
  (`block_dev_destroy` relies on it);
- mkdir and symlink lose a block when the name is too long (`leaked` in `FatFs`);
- `queue_remove` of `queue.c` leaves `tail` on a freed cell (`Dangling`);
- `VERSION` 0 does not erase what was in a freed block, contrary to
  `blocklayer.h:30`, and reads its state from an uninitialised buffer when the first
  session crashed before it wrote (`Undefined`);
- the `TESTLOAD` test uses one block more each time it is run on its own
  store, as it frees numbers 0 to 28 whatever it was given (`TestsPass`);
- the prototype takes the first block that it allocates for block 0 (`memefs.c:115`, "save
  first block for superblock"). When a crash within the superblock's write has left the saved
  counter at 3, this is block 3; the superblock goes to block 0 all the same, the root
  directory is in block 4, and the blocks of the first file system are never freed (`BlocksStay`).

`Fat_one` goes on in spite of these: a state in which the
program ran into undefined behaviour (`fault`) has no successors, and the
invariants are about the states before. A file that was cut and not used since is
among those states.

### Fairness

`OperationsEnd` assumes weak fairness of the steps of every thread within an
operation (`WF_vars(Step(t))`): an operation is a C function without waits other
than for its downloads, which curl ends by success or error, and its thread is
scheduled by the operating system. Nothing is assumed about operations being
begun. No other liveness is claimed.

## 4. Proofs

Every theorem is about all values of the constants that satisfy the assumption named in
the module of the component, and has been checked to its last step by TLAPS (with Z3,
Zenon and, for temporal steps, LS4).

| theorem | module | statement |
|---|---|---|
| `TypeCorrect` | `BlockLayerProofs` | `Spec => []TypeOK` |
| `AllocatorStaysExact` | | `Spec => []AllocatorExact` |
| `AllocationIsFresh` | | without crashes, `Spec => FreshAllocation` |
| `SavedBlocksStaySafe` | | `Spec => SavedBlocksSafe`, with any crashes |
| `SavedDataStays` | | `Spec => SavedDataKept`, with any crashes |
| `Refinement` | | without crashes, `Spec => ImplementsBlockStore` |
| `QueueTypes` | `QueueProofs` | `Spec => []TypeOK` |
| `ListsStayWellFormed` | | `Spec => []WellFormed` |
| `QueueStaysDescending` | | `Spec => []StrictlyDescending` |
| `QueueIsASet` | | `Spec => ImplementsFreeSet` |
| `SourceTypes` | `MemeDlProofs` | `Spec => []TypeOK` |
| `UrlsUsedInOrder` | | `Spec => []UsedInOrder` |
| `MemesAreNew` | | `Spec => []BrandNew` |
| `VersionsTypes` | `MemeFsProofs` | `MSpec => []TypeOK` |
| `AllocatorStaysSound` | | `MSpec => []AllocatorSound` |
| `WritesAlwaysStick` | | `MSpec => []WritesStick` |
| `FreedDataStaysGone` | | `MSpec => []FreedDataGone` |
| `RootAlwaysStays` | | `MSpec => []RootStays` |
| `BlocksAlwaysStay` | | `MSpec => []BlocksStay` |
| `TableTypes` | `FatProofs` | one thread: `Spec => []TypeOK` |
| `SizesAlwaysFit` | | one thread: `Spec => []ChainsFitSizes` |
| `PartitionStays` | | one thread: `Spec => []BlocksPartitioned` |
| `CountIsRight` | | one thread: `Spec => []FreeBlocksCounted` |
| `TableIsReadBack` | | one thread: `Spec => []TableReadable` |
| `ChainsKeepTheirBlocks` | | one thread: `Spec => ChainsChangeAtTheEnd` |
| `NothingFreedTwice` | | one thread: `Spec => []NeverFreedTwice` |
| `OnlyLoneBlocksOverrun` | | one thread: `Spec => []OverrunByLoneBlock` |
| `DirsTyped` | `FatFsProofs` | `Spec => []TypeOK` |
| `NamesStayUnique` | | `Spec => []NamesUnique` |
| `DotsStay` | | `Spec => []DotsStayFirst` |
| `BlocksStayNamed` | | `Spec => []BlocksNamed` |
| `KeepsNames` | | `Spec => ImplementsNames` |
| `DataStaysOwned` | `RestartProofs` | `RSpec => []DataOwned`, through any number of mounts |
| `OnlyCrashesBreak` | | `RSpec => []BrokenByCrashesOnly` |
| `TypesSurvive` | | `RSpec => []RTypeOK`, with any crashes |
| `SavedFilesSurvive` | | `RSpec => []SavedFilesIntact`, with any crashes |
| `FileTypes` | `FileIOProofs` | `Spec => []TypeOK` |
| `FileIsBytes` | | `Spec => ImplementsByteFile` |

### The block layer

`TypeOK` is inductive. `AllocatorExact` is inductive relative to it: "the blocks in
use are those below the counter that are not queued" has to be stated with "queued
numbers are below the counter" and "the last number below the counter is not
queued", since `free_block` compares with the counter only, and it has to be stated
of the saved state too, which `block_dev_init` brings back. `FreeKeepsExact` is the
lemma for `free_block` and `free_cleanup`. `AllocatorExact` gives `FreshAllocation`
at each allocation and the invariant that the refinement needs.

With crashes it does not hold. What is left is `SafeIsLive`: blocks that are owned
and were in use at the last save are below the counter and not queued, or the
device is down. It is inductive with crashes and failing downloads, and both
theorems about saved blocks rest on it.

### The free list

The invariant (`Inv` in `QueueProofs`) says that there is a sequence of cells without
repetition along which `next` leads from the head to NULL, that these are the
allocated cells, `size` of them, and that their numbers differ (`Good`). For
`queue_desc.c` they descend; for `queue.c` the tail is the last of them or a freed cell. The saved
numbers differ, too, and are no more than there are cells, without which malloc
could fail in `queue_load`. `Insertion` and `Removal` say what it takes to keep this, `PushIs`,
`PopIs` and `UnlinkIs` that the three calls do, and `LoadIs` follows the loop of
`queue_load` by induction over the numbers. `ListIs` ties the sequence to the walk of
the code. Each call is then the step of `FreeSet` on the numbers in the cells, so that
`QueueIsASet` needs no more than the lemmas for `Inv`.

`QueueAssumption` says that block numbers are natural numbers, and that there are
finitely many addresses, of which NULL is none.

### The meme source

`Order` says of places in sequences what `UsedInOrder` says of suffixes: what is queued is the
end of the last fetch, and what came before it was handed out last. For `BrandNew`
the invariant has to say of every meme handed out that it is of the last fetch or
older than all of it, and that none of them is queued (`Fresh`); then a fetch of
memes that are newer than all of the last one keeps it. `PopOrder` and
`PopFresh` are the lemmas for the urls a call of `get_meme` uses up.

### Versions 0 and 1, and the prototype

The invariant (`Inv` in `MemeFsProofs`) speaks about a device that is up and one that is
down by the same parts, since a crash turns one into the other at any time: what
the state in memory, the state on disk and the contents of the blocks say about what
the client has (`Up`, `Down`, `Holds`). That the state on disk never
counts as free what the client has is needed for the next start; that it may count as
used what the client has given back is why `AllocatorSound` is one-sided. One
lemma per call of the block layer says that it goes from `Up` to `Up`.

The prototype calls the block layer several times in one step, and may die between two calls or
within one. `Prototype` is what its invariant adds. `Running` says which blocks a mounted one has.
`Stored` says of the disk: either block 0 has a superblock, and then as much of what it names is there
as the saved counter knows, or it has none, and then the saved counter is three lower for it, counting three for
each crash within the superblock's write (`cuts`). `DiedWell` is the lemma for a start from
what a crash left, `CutInTable`, `CutInSuper` and `CutSaveUp` are those for crashes within a call.

It cannot say that the root directory's block is in use. When the superblock's write is cut off,
the next start takes three blocks more; if this one writes its superblock and dies before the
allocator's state is saved, the superblock names blocks that the saved counter does not know. The
start after it finds the magic number, and a read of the root's block is refused. Hence the
parts of `RootStays`: `readdir` lists the root where the allocator knows its block, and always
if no superblock's write was cut off. `BlocksStay` counts what crashes cost: three blocks for one
within the superblock's write, none for any other. The inode table is not part of either:
a crash within its write leaves it without data, and `meme_init` then takes the superblock, which is still in
its buffer, for the table (`TableRead`); no lookup uses it.

### The allocation table

None of the properties is inductive: most of them say something about the moments between
operations only. The invariant (`Shape` in `FatProofs`) follows the blocks through the operations:
there are sequences `C` of blocks, one for each file, one for the table, one for the blocks
that always are there, and three for the thread (the chain `alloc_blocks`
builds, the block it has taken and not linked, what `free_blocks` has yet to
free), such that

- every block in use is at one place of one of these (`Own`);
- the table leads along each of them, and all but the one under construction end
  with `FAT_NULL` or -1 (`Whole`, `Links`);
- a file's sequence is the one its entry will lead to when the operation is over (`Coming`),
  and as long as that entry will say;
- the k-th part of the table lies in a block whose own entry is in a part before
  (`TableShape`), which is what `read_fat` relies on;
- the counter goes no further than the table has entries, but for the first block of the
  new chain, which is not compared with the table's size, and for the block that is about to be
  linked (`Allocator`). This is why one call of `realloc_fat` is enough for every
  other block, and why the block it takes for the table has an entry in the part it
  adds;
- `free_blocks` of the superblock counts the blocks in use, corrected by those that
  the operation has taken and not charged (`Counted`);
- the table on disk is that in memory except within the loops (`Written`).

Each action takes one such `C` to another (`TakeStep` to `RemountStep`), by adding a block at
the end of a sequence, putting one behind another, cutting one in two or dropping
its first block (`OwnAdd`, `OwnJoin`, `OwnDivide`, `OwnPop`), or it runs into
undefined behaviour (`Stops`). `ChainIs` ties the sequences to the walks of the code, and
`ReadBack` says that what `write_fat` writes is what `read_fat` reads: both
by induction over the places of a sequence. The action property needs the invariant in both
states of a step, since the chain before and after is found by walking two tables.

`Threads = {t}` is an assumption of these theorems: with two threads two files get the
same block at once (`Fat_threads`). `FAT_PER_BLOCK > 2` and `MaxBlocks > 2`
(`FatAssumption`) say that the first part of the table has entries for the three blocks a new
file system begins with.

### Directories

The properties are about what a walk from the root finds, and no function of `fatfs.c`
walks from the root: each changes entries, a table or a chain somewhere. So the invariant
(`DirsInv` in `FatFsProofs`, `Tidy` of the disk) names what is walked: there are a set `X` of
directories, a function `C` from each to the blocks of its chain, and a set `E` with
the entry that the second step of unlink, rmdir or rename is about to delete, such that

- chains start at their directories, follow the table, and share no block (`Own`);
- entries lie in chains, and those of each directory start with `.`, whose size is the
  length of the chain, and `..` (`Dots`);
- entries not in `E` lead to directories, to a link's block, or nowhere, no two to the
  same block (`Leads`, `Single`), and each block in use is in a chain, in a link, or
  leaked (`Covers`);
- one gets from the root to all of `X` by entries not in `E` (`Reach`), which is said of
  all sets that are closed under the entries, for there is nothing to count;
- the entry in `E` is the one that a lookup of the pending name finds, and what it led
  to has another entry, or its blocks are free and empty (`Waits`).

The last part is what the two steps need. Between them `BlocksNamed` and `NamesUnique` hold of
what the walk finds, and it finds one directory more than `X`, the one that was
freed (`Husks`, `DirsAre`): its blocks have no entries, so it disturbs neither.

For each function there is a lemma of what it does to these parts: `Freed`, `Delete`, `Grow`
with `SizedInParent` and `SizedBelow` for the sizes that `modify_dir_size` writes
(into entries which need not be those of the directory's parent, see `FatFs_parent`, but are
never a `.` of another directory), `MakeFile`, `NewDir`, `Chmoded`. Each operation combines them
(`MknodGoes` to `DeleteGoes`). rename is the hard one: while the entry is there twice, `Single` and `Unique`
fail unless one of the two is in `E`, and `Reach` must hold with the other. A walk by the new
entry reaches the directory since the guard says that it does not move below
itself; that guard is about the walk of the code, and `BelowIs` ties it to `X`: a set of blocks is
closed after as many levels as there are blocks, by counting.

For the refinement, `Graph` is the set of rows of all names on a disk. Each step
leaves it, adds a row, drops one, or replaces one by a row with other permissions
(`Turns`), and the functions these tabulate take the steps of `Names` (`Adding`, `Dropping`,
`Chmodding`). With names unique, `Listed` is the function the graph tabulates (`ListedIs`).

`FatFsAssumption` says that a block holds more than two entries, so that one with `.` and
`..` has room, that there are blocks behind the root directory's, and that neither
`.` nor `..` is a name users give. Renames onto names that exist are part of all these theorems,
except that `NamesUnique` and `ImplementsNames` say nothing of a user who makes them.

### Mounts and crashes

`RestartProofs` has three invariants, for what is true before the first crash, after
any crash, and in between.

*Before the first crash* (`CleanInv`), the invariant of `FatProofs` holds while the file system is
mounted (`Running`), and when it is not, the disk has all of it: the table of the last unmount in its
parts, the entries, and the allocator's state (`Rests`). Beside it, every block of
one of the sequences `C` was last written for that sequence's user (`Held`). Since a step
of `Fat` only says that there is a new `C`, `Moved` shows from the numbers in use that a block
changes its user in three ways only: it is new, it is linked behind a file, or it becomes a part of
the table. That gives `DataStaysOwned` and `OnlyCrashesBreak`.

*Whatever crashes* (`WeakInv`), two files may share blocks, queued numbers may be in use, and a chain
may have a cycle. What stays is that every number in the table, an entry, the queue or a
local variable of the thread has an entry in the table (`Sane`). The allocator is the hard part of it: it hands out
numbers that the table has no entry for, and that these become entries again before
the operation is over rests on how far ahead it can be (`Ahead`), which is the argument of
`Allocator` in `FatProofs` without its chains.

*What survives the first crash* (`SafeInv`) is said of the kept files `K` and the blocks `S` of the table
only: a table `T`, read from the parts on disk, leads along all of them, and they are
neither free nor beyond the counter in the saved allocator (`OnDisk`). Nothing is known of the other files but
that their entries and all that these lead to stay among blocks `B` which are none
of those (`Foreign` on disk, `Apart` in memory). So no step of another file can free or overwrite a block
of a kept one, whatever the chains among the `B` look like; `ChainCloses` lets a
file's own chain become part of `B` when an operation on it begins. The step that could break this is
a crash within `write_fat`, after which the disk has a table `M` that is partly new and partly
old (`Mixed`). For `unlink`, `attach` and cut chains both tables lead from `B` to `B` only. While
a chain is built it differs: the new blocks were free on disk, so that the old
table may lead from them anywhere. Before the first crash, however, nothing on disk leads
to them (`Before`, from `FatProofs`): blocks `A`, apart from those, are
what other files lead to, in the old table and in the new one. This is where the
second crash differs from the first.

`RestartAssumption` says that there is one thread, that the labels in `holds` are no
files, and that "no state" is not a state.

### The data of a file

The invariant (`Inv` in `FileIOProofs`) is `TypeOK` with the chain as a function; the work is
in what the loops of `fatfs_read` and `fatfs_write` do. `PiecesFollow` says of the
pieces of a range, in each of the cases of the code, that the k-th lies in the k-th block
from the one with the offset, begins where the one before ended, and that the last ends with the
range (`Follow`, `Ends`). Then, by induction over the pieces, the blocks after k pieces of a write
are the old ones with the bytes from the offset to the end of the k-th replaced
(`AllWrittenIs`), and the buffer after k pieces of a read holds the bytes from the offset to
there (`AllReadIs`). `CoveredBytes`, `ResizedBytes` and `Part` say what that is in the
bytes of the whole file, which is where the steps of `ByteFile` are. The only assumption is
that a block has at least one byte and that 0 is one (`FileAssumption`).

### Only model-checked

- `OperationsEnd`, and all that is about ENABLED or fairness: beyond the proof system.
- `TestsPass`: the test programs are recursive over numbers they allocate, and their
  outcome is a statement about one particular sequence of calls.

## 5. Not modelled, and why

- Contents of the feed, images, jsteg: external; a download yields an image, junk
  or nothing, and a file yields its data or none.
- Other operations between the two steps of unlink and rename, and the table's array
  moved under other threads: hazards with notes. There are no locks, so that
  `Fat_threads` already ends every claim about several threads at the first
  allocation.
- What a process does after undefined behaviour: writing behind the table or the
  meta block's buffer, a cycle in the free list.
- Directories under crashes: `Restart` has one entry per file and takes its write to be the
  last step of an operation, which is what `fatfs_truncate` and `delete_de` do.
- getattr, access, open, readlink, statfs: they change nothing. readdir is
  `Named`; what the others show is in the properties (`Listed`, `FreeBlocksCounted`).
- `meme_readlink` of the prototype, which asks the host's file system, and the code
  behind the `return -ENOSYS` of its stubs.
- `struct stat`'s other fields, times, users, link counts: not kept by the code.
- The Makefile and `README.md`: nothing that runs.

## 6. Plan

Written, in this order, the layers from below and the most important first: `Queue`,
`BlockLayer` with its proofs, `MemeDl`, `Fat`, `FatFs`, `FileIO`, `Restart`,
`Backends` with `Versions` and `MemeFs`.

What is left is one model: threads that use the window between the two steps of unlink
and rename, once there is a locking discipline to state it under.
