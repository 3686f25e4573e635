------------------------------- MODULE FatFs -------------------------------
(***************************************************************************)
(* The directories of fatfs.c: entries packed into blocks of FILES_PER_DIR *)
(* which are chained in the table, looked up by walking the chain, added   *)
(* behind the last one, and deleted by moving a block's last entry into    *)
(* the gap.  An operation is a step, but unlink and rename are two: what   *)
(* is between them is on the disk for a while.  Operations do not overlap. *)
(*                                                                         *)
(* What the kernel looks up before it calls (a new name is new, an old one *)
(* is there, a directory does not move below itself) is in the guards.     *)
(* Files have no blocks here (Fat.tla is about those), a link's text is    *)
(* one block that reads as an empty directory (strncpy pads the target     *)
(* with zeros; targets are shorter than the 240 bytes of five entries,     *)
(* behind which lies the count), and the table is long enough.  A          *)
(* directory's size is counted in blocks.                                  *)
(***************************************************************************)
EXTENDS Integers, Sequences, FiniteSets, SequencesExt

CONSTANTS
  NameSet,        \* names of entries
  LongNames,      \* those of MAX_NAME_LEN characters or more
  Perms,          \* permission bits
  RootPerm,       \* those of the root directory (0755)
  LinkPerm,       \* those of a new link (0600)
  Made,           \* what is created: among "file", "link" and "dir"
  FILES_PER_DIR,  \* entries in a block (5)
  MaxBlocks,      \* bound on the blocks in use
  MaxEntries      \* bound on the entries of all directories, "." and ".." apart

Kinds == {"file", "link", "dir"}

ASSUME FatFsAssumption ==
  /\ LongNames \subseteq NameSet
  /\ "." \notin NameSet /\ ".." \notin NameSet
  /\ Made \subseteq Kinds
  /\ {RootPerm, LinkPerm} \subseteq Perms
  /\ FILES_PER_DIR \in Nat /\ FILES_PER_DIR > 2
  /\ MaxBlocks \in Nat /\ MaxBlocks > 3
  /\ MaxEntries \in Nat

VARIABLES
  disk,     \* [dir, fat, used]: entries of every block, chains, live blocks
  pending,  \* the entry that delete_de has yet to remove, or NoPending
  fault,    \* TRUE: a block that is not there was read
  leaked,   \* (observer) blocks that no entry was made for
  onto      \* the user also renames onto names that exist (never changes)

vars == <<disk, pending, fault, leaked, onto>>

FAT_NULL == 0
Blocks == 0..(MaxBlocks - 1)
RootDir == 2
NoPending == <<>>

Entry(name, kind, perm, start, size) ==
  [name |-> name, kind |-> kind, perm |-> perm, start |-> start, size |-> size]

-----------------------------------------------------------------------------
(* Reading. *)

(* From start along the table; a cycle would show up as a chain of as many *)
(* blocks as there are.                                                    *)
Chain(k, start) ==
  LET walk[n \in 0..MaxBlocks] ==
        [b \in Blocks |->
           IF n = 0 \/ b = FAT_NULL THEN <<>> ELSE <<b>> \o walk[n - 1][k.fat[b]]]
  IN walk[MaxBlocks][start]

(* The places <<block, index>> of the entries in a directory's blocks. *)
PlacesIn(k, chain) == UNION {{b} \X DOMAIN k.dir[b] : b \in ToSet(chain)}
Places(k, d) == PlacesIn(k, Chain(k, d))

At(k, place) == k.dir[place[1]][place[2]]

(* Of some places, the one that a walk along the chain comes to first. *)
Before(chain, p, q) ==
  \/ p[1] = q[1] /\ p[2] < q[2]
  \/ \E i, j \in DOMAIN chain : i < j /\ chain[i] = p[1] /\ chain[j] = q[1]
Firsts(chain, places) == {p \in places : \A q \in places \ {p} : Before(chain, p, q)}
First(chain, places) == CHOOSE p \in Firsts(chain, places) : TRUE

(* find_in_dir: the first place with the name, if there is one. *)
Hits(k, d, name) == {p \in Places(k, d) : At(k, p).name = name}
find_in_dir(k, d, name) == First(Chain(k, d), Hits(k, d, name))
Found(k, d, name) == Hits(k, d, name) # {}

(* The entries a user gave names to. *)
Named(k, d) == {p \in Places(k, d) : At(k, p).name \in NameSet}
Subdirs(k, d) == {At(k, p).start : p \in {q \in Named(k, d) : At(k, q).kind = "dir"}}

(* resolve_path gets to the directories below one, name by name. *)
Below(k, d) ==
  LET level[i \in 0..MaxBlocks] ==
        IF i = 0 THEN {d} ELSE UNION {{b} \cup Subdirs(k, b) : b \in level[i - 1]}
  IN level[MaxBlocks]
Dirs(k) == Below(k, RootDir)

-----------------------------------------------------------------------------
(* Writing: what each function makes of the disk k. *)

(* allocate_block: the largest freed number, else the next one. *)
NewBlock(k) ==
  LET holes == 0..Max(k.used) \ k.used
  IN IF holes = {} THEN Max(k.used) + 1 ELSE Max(holes)

(* alloc_blocks(1) *)
alloc_block(k) ==
  [used |-> k.used \cup {NewBlock(k)},
   fat  |-> [k.fat EXCEPT ![NewBlock(k)] = FAT_NULL],
   dir  |-> [k.dir EXCEPT ![NewBlock(k)] = <<>>]]

(* Mutation: a directory is taken to be one block. *)
free_blocks_one(k, start) ==
  [k EXCEPT !.used = @ \ {start}, !.dir[start] = <<>>]

(* free_blocks: table entries stay as they are. *)
free_blocks(k, start) ==
  LET gone == ToSet(Chain(k, start))
  IN [k EXCEPT !.used = @ \ gone,
               !.dir = [b \in Blocks |-> IF b \in gone THEN <<>> ELSE k.dir[b]]]

(* modify_dir_size: the entry "." of the directory, the first entry that   *)
(* leads to it in the directory its ".." leads to, and the ".." of its     *)
(* subdirectories ("." and ".." of its first block are passed over).       *)
Parent(k, d) == k.dir[d][2].start
InParent(k, d) == {p \in Places(k, Parent(k, d)) : At(k, p).start = d}

ResizedInParent(k, d, size) ==
  IF InParent(k, d) = {} THEN k
  ELSE LET p == First(Chain(k, Parent(k, d)), InParent(k, d))
       IN [k EXCEPT !.dir[p[1]][p[2]].size = size]

ResizedBelow(k, d, size) ==
  LET skipped == {<<d, 1>>, <<d, 2>>}
      subdirs == {At(k, p).start : p \in
                    {q \in Places(k, d) \ skipped : At(k, q).kind = "dir"}}
  IN [k EXCEPT !.dir = [b \in Blocks |->
        IF b \in subdirs THEN [k.dir[b] EXCEPT ![2].size = size] ELSE k.dir[b]]]

modify_dir_size(k, d) ==
  LET size == k.dir[d][1].size + 1
  IN ResizedBelow(ResizedInParent([k EXCEPT !.dir[d][1].size = size], d, size), d, size)

(* Mutation: one entry more than fits. *)
Space_beyond(k, d) ==
  {i \in DOMAIN Chain(k, d) : Len(k.dir[Chain(k, d)[i]]) <= FILES_PER_DIR}

(* make_file: in the first block with room, or in a block added behind.    *)
Space(k, d) ==
  {i \in DOMAIN Chain(k, d) : Len(k.dir[Chain(k, d)[i]]) < FILES_PER_DIR}

(* Mutation: the entry goes over the last one of a full block. *)
make_file_over(k, d, e) ==
  LET last == Last(Chain(k, d)) IN [k EXCEPT !.dir[last][Len(k.dir[last])] = e]

(* Mutation: the size of the directory is not changed. *)
Added_unsized(k, d) ==
  [alloc_block(k) EXCEPT !.fat[Last(Chain(k, d))] = NewBlock(k)]

Added(k, d) ==
  modify_dir_size([alloc_block(k) EXCEPT !.fat[Last(Chain(k, d))] = NewBlock(k)], d)

make_file(k, d, e) ==
  IF Space(k, d) # {} THEN [k EXCEPT !.dir[Chain(k, d)[Min(Space(k, d))]] = Append(@, e)]
  ELSE [Added(k, d) EXCEPT !.dir[NewBlock(k)] = <<e>>]

(* modify_dir_size reads the blocks ".." leads to; a block that was freed  *)
(* cannot be read: the process exits, or goes on with an old buffer.       *)
Unreadable(k, d) ==
  /\ Space(k, d) = {}
  /\ ~(ToSet(Chain(k, Parent(k, d))) \subseteq alloc_block(k).used)

(* init_dir, with the parent's entry as fatfs_mkdir reads it: the first of *)
(* the block in which the new directory was entered.                       *)
init_dir(k, d, name) ==
  LET place == find_in_dir(k, d, name)
      de == At(k, place)
      parent_de == k.dir[place[1]][1]
  IN [k EXCEPT !.dir[de.start] =
        << [de EXCEPT !.name = "."], [parent_de EXCEPT !.name = ".."] >>]

(* Mutations: the last entry is dropped in place of the gap; the block's   *)
(* count is not written.                                                   *)
Deleted_last(s, i) == Front(s)
Deleted_uncounted(s, i) == [s EXCEPT ![i] = Last(s)]

(* delete_de: the block's last entry moves into the gap. *)
Deleted(s, i) == Front([s EXCEPT ![i] = Last(s)])
delete_de(k, d, name) ==
  LET p == find_in_dir(k, d, name) IN [k EXCEPT !.dir[p[1]] = Deleted(@, p[2])]

-----------------------------------------------------------------------------
(* fatfs_init on an empty store: superblock, table, root directory. *)
Init ==
  /\ disk = [used |-> 0..RootDir,
             fat |-> [b \in Blocks |-> FAT_NULL],
             dir |-> [b \in Blocks |->
               IF b = RootDir
               THEN << Entry(".", "dir", RootPerm, RootDir, 1),
                       Entry("..", "dir", RootPerm, RootDir, 1) >>
               ELSE <<>>]]
  /\ pending = NoPending
  /\ fault = FALSE
  /\ leaked = {}
  /\ onto \in BOOLEAN

Idle == ~fault /\ pending = NoPending
AllNamed(k) == UNION {Named(k, d) : d \in Dirs(k)}

(* Bounds: files and directories are made with RootPerm; permissions do    *)
(* not vary where names are renamed onto.                                  *)
Given == IF onto THEN {RootPerm} ELSE Perms

(* Bound: room for an entry in d, with n blocks of its own. *)
Room(d, n) ==
  Cardinality(disk.used) + n + (IF Space(disk, d) = {} THEN 1 ELSE 0) <= MaxBlocks

(* The entry e is made in d, on a disk k that has its blocks, which makes  *)
(* of k the disk made; if the name is too long, k is what remains.  That   *)
(* the name is there already is not looked at.                             *)
Enter(k, d, e, made) ==
  /\ leaked' = IF e.name \in LongNames THEN leaked \cup (k.used \ disk.used) ELSE leaked
  /\ \/ /\ e.name \in LongNames
        /\ disk' = k
        /\ UNCHANGED fault
     \/ /\ e.name \notin LongNames /\ Unreadable(k, d)
        /\ fault' = TRUE
        /\ UNCHANGED disk
     \/ /\ e.name \notin LongNames /\ ~Unreadable(k, d)
        /\ disk' = made
        /\ UNCHANGED fault

Mknod(d, name, perm) ==
  /\ Idle /\ Room(d, 0) /\ "file" \in Made /\ ~Found(disk, d, name)
  /\ LET e == Entry(name, "file", perm, FAT_NULL, 0)
     IN Enter(disk, d, e, make_file(disk, d, e))
  /\ UNCHANGED <<pending, onto>>

(* The target's text is left out: shorter than 240 bytes, see above.       *)
Symlink(d, name) ==
  /\ Idle /\ Room(d, 1) /\ "link" \in Made /\ ~Found(disk, d, name)
  /\ LET k == alloc_block(disk)
         e == Entry(name, "link", LinkPerm, NewBlock(disk), 1)
     IN Enter(k, d, e, make_file(k, d, e))
  /\ UNCHANGED <<pending, onto>>

Mkdir(d, name, perm) ==
  /\ Idle /\ Room(d, 1) /\ "dir" \in Made /\ ~Found(disk, d, name)
  /\ LET k == alloc_block(disk)
         e == Entry(name, "dir", perm, NewBlock(disk), 1)
     IN Enter(k, d, e, init_dir(make_file(k, d, e), d, name))
  /\ UNCHANGED <<pending, onto>>

(* The kernel asks this of what a link leads to, not of a link. *)
Chmod(d, name, perm) ==
  /\ Idle
  /\ Found(disk, d, name)
  /\ LET p == find_in_dir(disk, d, name)
     IN /\ At(disk, p).kind # "link"
        /\ disk' = [disk EXCEPT !.dir[p[1]][p[2]].perm = perm]
  /\ UNCHANGED <<pending, fault, leaked, onto>>

(* fatfs_rmdir's check: two entries in the first block, none in the others. *)
Empty(k, d) == Len(k.dir[d]) = 2 /\ \A b \in ToSet(Chain(k, d)) \ {d} : k.dir[b] = <<>>

(* fatfs_unlink, fatfs_rmdir: the blocks are freed, then the entry goes. *)
Unlink(d, name) ==
  /\ Idle
  /\ Found(disk, d, name)
  /\ LET de == At(disk, find_in_dir(disk, d, name))
     IN /\ de.kind = "dir" => Empty(disk, de.start)
        /\ disk' = free_blocks(disk, de.start)
  /\ pending' = <<d, name>>
  /\ UNCHANGED <<fault, leaked, onto>>

(* What the kernel lets a rename replace: something else, but a directory  *)
(* by a directory only, and not by what is below it.                       *)
Replaceable(d, name, d2, name2) ==
  LET old == At(disk, find_in_dir(disk, d2, name2))
      new == At(disk, find_in_dir(disk, d, name))
  IN /\ <<d, name>> # <<d2, name2>>
     /\ old.kind = "dir" <=> new.kind = "dir"
     /\ old.kind = "dir" => d \notin Below(disk, old.start)

(* fatfs_rename: the entry is made a second time, then the old one goes;   *)
(* one that was there under the new name stays.                            *)
Rename(d, name, d2, name2) ==
  /\ Idle /\ Room(d2, 0)
  /\ Found(disk, d, name)
  /\ Found(disk, d2, name2) => onto /\ Replaceable(d, name, d2, name2)
  /\ LET de == At(disk, find_in_dir(disk, d, name))
         e == [de EXCEPT !.name = name2]
     IN /\ de.kind = "dir" => d2 \notin Below(disk, de.start)
        /\ Enter(disk, d2, e, make_file(disk, d2, e))
  /\ pending' = IF fault' \/ name2 \in LongNames THEN NoPending ELSE <<d, name>>
  /\ UNCHANGED onto

DeleteEntry ==
  /\ ~fault /\ pending # NoPending
  /\ disk' = delete_de(disk, pending[1], pending[2])
  /\ pending' = NoPending
  /\ UNCHANGED <<fault, leaked, onto>>

Next ==
  \/ DeleteEntry
  \/ LET dirs == Dirs(disk)
     IN \E d \in dirs, name \in NameSet :
          \/ Unlink(d, name)
          \/ \E perm \in Given : Chmod(d, name, perm)
          \/ /\ Cardinality(AllNamed(disk)) < MaxEntries
             /\ \/ Mknod(d, name, RootPerm)
                \/ Mkdir(d, name, RootPerm)
                \/ Symlink(d, name)
                \/ \E d2 \in dirs, name2 \in NameSet : Rename(d, name, d2, name2)

Spec == Init /\ [][Next]_vars

-----------------------------------------------------------------------------
Quiet == pending = NoPending /\ ~fault
Sources == {"."} \cup {".."} \cup NameSet

(* Types; a block holds at most FILES_PER_DIR entries. *)
TypeOK ==
  /\ disk.used \subseteq Blocks
  /\ disk.fat \in [Blocks -> Blocks]
  /\ \A b \in Blocks :
       /\ Len(disk.dir[b]) <= FILES_PER_DIR
       /\ \A i \in DOMAIN disk.dir[b] :
            disk.dir[b][i] \in [name : Sources, kind : Kinds, perm : Perms,
                                start : Blocks, size : 0..MaxBlocks]
  /\ pending \in {NoPending} \cup (Blocks \X NameSet)
  /\ fault \in BOOLEAN
  /\ leaked \subseteq disk.used

(* Every operation does to the names what its user asked for: packing,     *)
(* chaining and moving entries never lose, duplicate or exchange any; as   *)
(* long as the user does not rename onto names that exist.                 *)
Listed(k) ==
  [key \in UNION {{<<d, At(k, p).name>> : p \in Named(k, d)} : d \in Dirs(k)} |->
     LET e == At(k, find_in_dir(k, key[1], key[2]))
     IN [kind |-> e.kind, perm |-> e.perm, start |-> e.start]]

N == INSTANCE Names WITH
       Name <- NameSet, Block <- Blocks, Kind <- Kinds, Perm <- Perms,
       Root <- RootDir, names <- IF onto THEN <<>> ELSE Listed(disk)
ImplementsNames == N!Spec

(* No two entries of a directory have the same name, as long as the user   *)
(* does not rename onto names that exist.                                  *)
NamesUnique ==
  ~onto => \A d \in Dirs(disk) : \A p, q \in Places(disk, d) :
    At(disk, p).name = At(disk, q).name => p = q

(* The files' and directories' blocks. *)
Trees == {Chain(disk, d) : d \in Dirs(disk)} \cup
         {Chain(disk, At(disk, p).start) : p \in
            {q \in AllNamed(disk) : At(disk, q).kind = "link"}}

(* The blocks in use are the superblock, the table and those an entry      *)
(* leads to, each by one chain only; nothing is orphaned at any step, not  *)
(* even within a rename, and what a rename hides under its new name still  *)
(* has its blocks.  Only a name that is too long leaves a block behind.    *)
BlocksNamed ==
  LET named == UNION {ToSet(c) : c \in Trees}
  IN /\ disk.used \subseteq {0, 1} \cup named \cup leaked
     /\ Quiet => disk.used = {0, 1} \cup named \cup leaked
     /\ named \cap leaked = {}
     /\ \A c, e \in Trees : c # e => ToSet(c) \cap ToSet(e) = {}

(* A directory's first block begins with "." and "..", as modify_dir_size  *)
(* and fatfs_rmdir take for granted, whatever entries come and go; "."     *)
(* leads to the directory and has its size.                                *)
DotsStayFirst ==
  Quiet =>
    \A d \in Dirs(disk) :
      /\ Len(disk.dir[d]) >= 2
      /\ disk.dir[d][1].name = "." /\ disk.dir[d][2].name = ".."
      /\ disk.dir[d][1].start = d
      /\ disk.dir[d][1].size = Len(Chain(disk, d))

(* fatfs.c:404-422: looking a directory up in its parent finds it.         *)
FoundInParent == Quiet => \A d \in Dirs(disk) : InParent(disk, d) # {}
=============================================================================
