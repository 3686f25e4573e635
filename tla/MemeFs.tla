------------------------------- MODULE MemeFs -------------------------------
(***************************************************************************)
(* The inode file system of memefs.c, a prototype that comes to an empty   *)
(* root directory: the superblock in block 0, the inode table and the root *)
(* directory in blocks of their own.  Everything else is a stub.  It is    *)
(* one of the clients of Versions.tla here; which client runs is chosen at *)
(* the start.                                                              *)
(*                                                                         *)
(* The prototype may die anywhere: between its calls of the block layer,   *)
(* and within one, where VERSION 2 loses what it is about to write.        *)
(***************************************************************************)
EXTENDS Versions

CONSTANTS
  SuperBlock, InodeTable, RootDir, \* contents of blocks
  MaxCuts                          \* bound on crashes within the superblock's write

ASSUME MemeFsAssumption ==
  /\ MaxBlocks >= 3
  /\ {SuperBlock, InodeTable, RootDir} \subseteq Data
  /\ Cardinality({SuperBlock, InodeTable, RootDir}) = 3
  /\ Zero # SuperBlock           \* the magic number is not 0
  /\ MaxCuts \in Nat

VARIABLES
  client,      \* "any" or "memefs" (never changes)
  superblock,  \* in memory: [root, inode_block], as block numbers
  inode_table, \* in memory
  on_disk,     \* the superblock last written
  cuts,        \* (observer) crashes within the superblock's write
  result       \* of the last call

memory == <<superblock, inode_table, result>>
mvars == <<vars, client, memory, on_disk, cuts>>

NoBlocks == [root |-> 0, inode_block |-> 0]
OtherNames == {"x"}           \* a name that is in no directory
Read == 4                     \* R_OK
Masks == {0, 1, 2, Read}      \* F_OK, X_OK, W_OK, R_OK

MInit ==
  /\ Init
  /\ client \in {"any", "memefs"}
  /\ superblock = NoBlocks /\ on_disk = NoBlocks
  /\ inode_table = Unwritten
  /\ cuts = 0
  /\ result = "none"

-----------------------------------------------------------------------------
(* Mutation: the magic number is never found. *)
Magic_never(k) == FALSE

(* What block 0 could not fill is taken not to hold the magic number.      *)
Magic(k) == read_block(k, 0).data = SuperBlock

(* A table that cannot be read is the superblock, still in the buffer.     *)
TableRead(k, n) ==
  LET d == read_block(k, n).data IN IF d = Untouched THEN SuperBlock ELSE d

meme_init ==
  /\ dev = "down" /\ ~Undefined(device)
  /\ LET k == block_dev_init(device)
     IN \/ /\ Magic(k)
           /\ device' = k
           /\ superblock' = on_disk
           /\ inode_table' = TableRead(k, on_disk.inode_block)
           /\ UNCHANGED contents
        \/ /\ ~Magic(k) /\ k.next_alloc + 3 <= MaxBlocks
           /\ LET k1 == allocate_block(k)
                  k2 == allocate_block(k1)
                  super == [root |-> NewBlock(k1), inode_block |-> NewBlock(k2)]
                  given == With(With(contents, NewBlock(k), Unwritten), super.inode_block, Unwritten)
              IN /\ device' = write_block(allocate_block(k2), super.root, RootDir)
                 /\ superblock' = super
                 /\ contents' = With(given, super.root, RootDir)
           /\ inode_table' = InodeTable
  /\ dev' = "up"
  /\ result' = "none"
  /\ UNCHANGED <<safe, lost, on_disk, cuts>>

Gone == superblock' = NoBlocks /\ inode_table' = Unwritten /\ result' = "none"

(* The process dies and leaves the files of k; of the contents c, the      *)
(* blocks S were saved.                                                    *)
Dies(k, c, S) ==
  /\ device' = Forgotten(k)
  /\ dev' = "down"
  /\ contents' = Only(c, S) /\ safe' = S
  /\ lost' = TRUE
  /\ Gone

(* Before, between and within the calls that make a file system.           *)
meme_init_crash ==
  /\ dev = "down" /\ ~Undefined(device)
  /\ LET k  == block_dev_init(device)
         k1 == allocate_block(k)
         k2 == allocate_block(k1)
         k3 == allocate_block(k2)
     IN /\ ~Magic(k) /\ k.next_alloc + 3 <= MaxBlocks
        /\ \E left \in {k, k1, k2, k3} \cup allocate_cut(k) \cup allocate_cut(k1)
                       \cup allocate_cut(k2) \cup write_cut(k3, NewBlock(k1)) :
             Dies(left, contents, safe)
  /\ UNCHANGED <<on_disk, cuts>>

(* The inode table is written, then the superblock; a block that is not    *)
(* there is not written.                                                   *)
Tabled  == write_block(device, superblock.inode_block, inode_table)
Supered == write_block(Tabled, 0, SuperBlock)

Written(c, b, d) == IF b \in DOMAIN c THEN With(c, b, d) ELSE c
TabledContents  == Written(contents, superblock.inode_block, inode_table)
SuperedContents == Written(TabledContents, 0, SuperBlock)

(* Mutation: the superblock is not written. *)
meme_destroy_halfway ==
  /\ dev = "up" /\ ~Overruns(device)
  /\ device' = Forgotten(save_state(Tabled))
  /\ contents' = TabledContents
  /\ safe' = owned
  /\ dev' = "down"
  /\ Gone
  /\ UNCHANGED <<lost, on_disk, cuts>>

meme_destroy ==
  /\ dev = "up" /\ ~Overruns(device)
  /\ device' = Forgotten(save_state(Supered))
  /\ contents' = SuperedContents
  /\ safe' = owned
  /\ on_disk' = superblock
  /\ dev' = "down"
  /\ Gone
  /\ UNCHANGED <<lost, cuts>>

(* The process dies before the superblock is written, while it is, or      *)
(* after it was; while the block layer's state is saved, this is lost.     *)
meme_crash ==
  /\ dev = "up"
  /\ \/ /\ \/ Dies(device, contents, safe)
           \/ \E k \in write_cut(device, superblock.inode_block) :
                Dies(k, Written(contents, superblock.inode_block, Unwritten), safe)
           \/ Dies(Tabled, TabledContents, safe)
        /\ UNCHANGED <<on_disk, cuts>>
     \/ /\ cuts < MaxCuts
        /\ \E k \in write_cut(Tabled, 0) : Dies(k, Written(TabledContents, 0, Unwritten), safe)
        /\ cuts' = cuts + 1
        /\ UNCHANGED on_disk
     \/ /\ \/ Dies(Supered, SuperedContents, safe)
           \/ \E k \in save_cut(Supered) : Dies(k, SuperedContents, {})
        /\ on_disk' = superblock
        /\ UNCHANGED cuts

-----------------------------------------------------------------------------
(* Looking up.  Of the root's block list only the first number was set;    *)
(* find_inode_loc reads the directory from the second, which is 0.         *)
direct(i) == IF i = 0 THEN superblock.root ELSE 0
Names(content) == IF content = RootDir THEN {".", ".."} ELSE {}

(* "/" is the path without names.  A block without contents leaves the     *)
(* names to what happens to be on the stack.  The possible results.        *)
find_inode_loc(path) ==
  LET dir == read_block(device, direct(1)).data
  IN IF path = <<>> THEN {"root"}
     ELSE IF dir = Untouched THEN {"none", "root", "any"}
     ELSE IF ToSet(path) \subseteq Names(dir) THEN {"root"}
     ELSE {"none"}

meme_getattr(path) ==
  {IF loc = "none" THEN "ENOENT" ELSE "mode" : loc \in find_inode_loc(path)}

(* The mode is 700 decimal, 01274: of the bits asked for, the last three   *)
(* are 4, and none asked for is none granted.                              *)
meme_access(path, mask) ==
  UNION {CASE loc = "none" -> {"ENOENT"}
           [] loc = "root" -> {IF mask = Read THEN "granted" ELSE "EACCES"}
           [] loc = "any"  -> {"granted", "EACCES"} : loc \in find_inode_loc(path)}

meme_readdir(path) ==
  LET listed == IF Names(read_block(device, direct(0)).data) = {".", ".."}
                THEN "root" ELSE "garbage"
  IN {CASE loc = "none" -> "ENOENT"
        [] loc = "root" -> listed
        [] loc = "any"  -> "garbage" : loc \in find_inode_loc(path)}

(* mknod, mkdir, unlink, rmdir, symlink, rename, link, chmod, chown,       *)
(* truncate, utimens, open, read, write, statfs, release and fsync; not    *)
(* readlink, which asks the host's file system.                            *)
Stub == "ENOSYS"

Paths == {<<>>} \cup {<<name>> : name \in {".", ".."} \cup OtherNames}
Call ==
  /\ dev = "up"
  /\ \/ result' = Stub
     \/ \E path \in Paths :
          \/ result' \in meme_getattr(path)
          \/ result' \in meme_readdir(path)
          \/ \E mask \in Masks : result' \in meme_access(path, mask)
  /\ UNCHANGED <<vars, superblock, inode_table, on_disk, cuts>>

MNext ==
  /\ UNCHANGED client
  /\ \/ client = "any" /\ Next /\ UNCHANGED <<memory, on_disk, cuts>>
     \/ /\ client = "memefs"
        /\ meme_init \/ meme_init_crash \/ meme_destroy \/ meme_crash \/ Call

MSpec == MInit /\ [][MNext]_mvars

-----------------------------------------------------------------------------
(* In every version and through the crashes of meme_init_crash and         *)
(* meme_crash: a mounted file system answers for its root directory, and   *)
(* lists it if the allocator knows the directory's block; and unless the   *)
(* superblock's write was cut off, that is block 1.                        *)
RootStays ==
  client = "memefs" /\ dev = "up" =>
    /\ meme_getattr(<<>>) = {"mode"} /\ meme_access(<<>>, Read) = {"granted"}
    /\ superblock.root < device.next_alloc => meme_readdir(<<>>) = {"root"}
    /\ cuts = 0 => /\ superblock = [root |-> 1, inode_block |-> 2]
                   /\ meme_readdir(<<>>) = {"root"}

(* A crash costs no blocks: what it left is found, or made anew over it.   *)
(* Only one within the superblock's write may cost three, since what was   *)
(* saved counts the blocks whose superblock is gone.                       *)
BlocksStay ==
  client = "memefs" /\ dev = "up" =>
    /\ device.freed = {}
    /\ device.next_alloc \in 3..(3 * (1 + cuts))
=============================================================================
