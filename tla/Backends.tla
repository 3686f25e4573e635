------------------------------ MODULE Backends ------------------------------
(***************************************************************************)
(* The three ways in which blocklayer.c stores blocks: one big file        *)
(* (VERSION 0), a text file for every block (VERSION 1), an image for      *)
(* every block (VERSION 2, here with downloads that succeed; BlockLayer    *)
(* has those that fail).  The operators take a device and return what the  *)
(* call makes of it; Versions.tla and MemeFs.tla are clients.              *)
(*                                                                         *)
(* The three have the same allocator.  They differ in what is done to the  *)
(* files, and in how the allocator's state is saved.                       *)
(***************************************************************************)
EXTENDS Integers, Sequences, FiniteSets, SequencesExt

CONSTANTS
  MaxBlocks,   \* bound on the numbers of blocks
  MetaSlots,   \* freed numbers that fit into the meta block (62)
  TestBlocks,  \* blocks the larger tests allocate (30)
  Zero,        \* a block of zeros
  Pattern,     \* what the tests write
  NoFile,      \* no such file; beyond the end of the big file
  Empty,       \* a file of no bytes
  Untouched    \* the caller's buffer is left as it was

ASSUME BackendsAssumption ==
  /\ MaxBlocks \in Nat /\ MetaSlots \in Nat
  /\ TestBlocks \in Nat \ {0}
  /\ Cardinality({Zero, Pattern, NoFile, Empty, Untouched}) = 5

VERSION == 0..2
Blocks == 0..(MaxBlocks - 1)

(* meta is the meta block: NoFile, Empty, or an allocator's state.         *)
State(n, f) == [next_alloc |-> n, freed |-> f]
NewDevice(v) ==
  [version |-> v, next_alloc |-> 0, freed |-> {},
   block |-> [b \in Blocks |-> NoFile], meta |-> NoFile]

Live(k) == {b \in Blocks : b < k.next_alloc /\ b \notin k.freed}

-----------------------------------------------------------------------------
(* Reading and writing. *)

Readable(content) == IF content \in {NoFile, Empty} THEN Untouched ELSE content

read_block(k, b) ==
  IF b >= k.next_alloc THEN [val |-> -1, data |-> Untouched]
  ELSE [val |-> 0, data |-> Readable(k.block[b])]

(* The big file is extended with zeros up to the block, the meta block     *)
(* before all others included.                                             *)
Extended(k, b) ==
  [k EXCEPT !.block = [c \in Blocks |-> IF c < b /\ @[c] = NoFile THEN Zero ELSE @[c]],
            !.meta  = IF @ = Empty THEN State(0, {}) ELSE @]

(* A text file is opened without O_CREAT; an image is a new one. *)
write_block(k, b, d) ==
  IF b >= k.next_alloc THEN k
  ELSE CASE k.version = 0 -> [Extended(k, b) EXCEPT !.block[b] = d]
         [] k.version = 1 -> IF k.block[b] = NoFile THEN k ELSE [k EXCEPT !.block[b] = d]
         [] k.version = 2 -> [k EXCEPT !.block[b] = d]

-----------------------------------------------------------------------------
(* The allocator. *)

NewBlock(k) == IF k.freed = {} THEN k.next_alloc ELSE Max(k.freed)

(* Mutation: the file is not made before it is written. *)
Made_not(k, old) == old

(* create_file does not truncate; new_meme and writeData replace the file; *)
(* the big file is not touched.                                            *)
Made(k, old) ==
  CASE k.version = 0 -> old
    [] k.version = 1 -> IF old = NoFile THEN Empty ELSE old
    [] k.version = 2 -> Zero

allocate_block(k) ==
  LET b == NewBlock(k)
  IN [k EXCEPT !.next_alloc = IF k.freed = {} THEN @ + 1 ELSE @,
               !.freed = @ \ {b},
               !.block[b] = Made(k, @)]

(* Mutation: one number is cleaned up at most. *)
Top_one(n, f) == IF n - 1 \in f THEN n - 1 ELSE n

(* free_cleanup: the counter moves down over the freed numbers below it.   *)
Top(n, f) == CHOOSE m \in 0..n : m - 1 \notin f /\ \A b \in m..(n - 1) : b \in f

(* Mutation: cleaned-up blocks keep their files. *)
free_block_keeping(k, b) ==
  LET last == b = k.next_alloc - 1
      n    == IF last THEN b ELSE k.next_alloc
      f    == IF last THEN k.freed ELSE k.freed \cup {b}
  IN [k EXCEPT !.next_alloc = Top(n, f), !.freed = {c \in f : c < Top(n, f)}]

(* Files of the block and of those cleaned up are removed, but there are   *)
(* none in the big file, where the data stays.                             *)
free_block(k, b) ==
  LET last == b = k.next_alloc - 1
      n    == IF last THEN b ELSE k.next_alloc
      f    == IF last THEN k.freed ELSE k.freed \cup {b}
      m    == Top(n, f)
      gone == IF k.version = 0 THEN {} ELSE {b} \cup m..(n - 1)
  IN [k EXCEPT !.next_alloc = m,
               !.freed = f \ (m..(n - 1)),
               !.block = [c \in Blocks |-> IF c \in gone THEN NoFile ELSE @[c]]]

-----------------------------------------------------------------------------
(* Sessions. *)

Fits(k) == Cardinality(k.freed) <= MetaSlots

(* save_state: VERSION 0 refuses a queue that is too long and leaves the   *)
(* old state; the others write behind their buffer (see Overruns).         *)
save_state(k) == IF Fits(k) THEN [k EXCEPT !.meta = State(k.next_alloc, k.freed)] ELSE k
Overruns(k) == k.version # 0 /\ ~Fits(k)

Forgotten(k) == [k EXCEPT !.next_alloc = 0, !.freed = {}]

(* What the files may be when the process dies within a call: one system   *)
(* call does all of a write in VERSION 0 and 1, but VERSION 2 removes the  *)
(* image, downloads another (a new block has one from the start), and only *)
(* then writes into it.  An image without data reads as an empty file.     *)
write_cut(k, b) ==
  IF k.version # 2 \/ b >= k.next_alloc THEN {}
  ELSE {[k EXCEPT !.block[b] = c] : c \in {NoFile, Empty}}

allocate_cut(k) ==
  IF k.version # 2 THEN {} ELSE {[allocate_block(k) EXCEPT !.block[NewBlock(k)] = Empty]}

save_cut(k) ==
  IF k.version # 2 THEN {} ELSE {[k EXCEPT !.meta = c] : c \in {NoFile, Empty}}

(* block_dev_init: the meta file is made if there is none.  One without    *)
(* bytes is read as zeros, but VERSION 0 has not cleared its buffer.       *)
Undefined(k) == k.version = 0 /\ k.meta = Empty

(* Mutation: the counter is read one too low. *)
block_dev_init_low(k) ==
  IF k.meta \in {NoFile, Empty} THEN [Forgotten(k) EXCEPT !.meta = Empty]
  ELSE [k EXCEPT !.next_alloc = k.meta.next_alloc - 1, !.freed = k.meta.freed]

block_dev_init(k) ==
  IF k.meta \in {NoFile, Empty} THEN [Forgotten(k) EXCEPT !.meta = Empty]
  ELSE [k EXCEPT !.next_alloc = k.meta.next_alloc, !.freed = k.meta.freed]

-----------------------------------------------------------------------------
(* The test program.  A test is [ok, k]: whether it succeeds, and what it  *)
(* makes of the device.                                                    *)

ReadsBack(k, b) ==
  LET w == write_block(k, b, Pattern)
  IN b < w.next_alloc /\ read_block(w, b).data = Pattern

basic_test(k) ==
  LET b == NewBlock(k)
      a == allocate_block(k)
  IN [ok |-> ReadsBack(a, b), k |-> free_block(write_block(a, b, Pattern), b)]

(* The blocks of n calls, in order, and the device afterwards. *)
allocate(k, n) ==
  LET call(s, i) == [got |-> Append(s.got, NewBlock(s.k)), k |-> allocate_block(s.k)]
  IN FoldLeft(call, [got |-> <<>>, k |-> k], [i \in 1..n |-> i])
free(k, blocks) == FoldLeft(free_block, k, blocks)

better_test(k) ==
  LET a == allocate(k, 3)
      freed(i) == free(a.k, SubSeq(a.got, 1, i)).freed
  IN [ok |-> \A i \in 0..3 : Cardinality(freed(i)) = i % 3,
      k  |-> free(a.k, a.got)]

(* The last block is written and read; then all are freed, from the last   *)
(* to the first, or from the first to the last.                            *)
Filled(a) == write_block(a.k, Last(a.got), Pattern)
far_test(k) ==
  LET a == allocate(k, TestBlocks)
  IN [ok |-> ReadsBack(a.k, Last(a.got)), k |-> free(Filled(a), Reverse(a.got))]
queue_test(k) ==
  LET a == allocate(k, TestBlocks)
  IN [ok |-> ReadsBack(a.k, Last(a.got)), k |-> free(Filled(a), a.got)]

(* run_tests. *)
run_tests(k) ==
  LET basic  == basic_test(k)
      better == better_test(basic.k)
      far    == far_test(better.k)
      queue  == queue_test(far.k)
  IN IF k.version = 0 THEN [ok |-> basic.ok /\ better.ok /\ far.ok, k |-> far.k]
     ELSE [ok |-> basic.ok /\ better.ok /\ far.ok /\ queue.ok, k |-> queue.k]

(* run_tests with TESTLOAD: all the numbers but the last are freed,        *)
(* whatever numbers were handed out.                                       *)
load_test(k) == free(allocate(k, TestBlocks).k, [i \in 1..(TestBlocks - 1) |-> i - 1])
=============================================================================
