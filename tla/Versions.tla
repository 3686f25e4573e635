------------------------------ MODULE Versions ------------------------------
(***************************************************************************)
(* Any client of any of the three ways to store blocks, through orderly    *)
(* unmounts, crashes between calls, and a free list that is too long to be *)
(* saved.                                                                  *)
(***************************************************************************)
EXTENDS Backends

CONSTANTS
  Data,        \* what the client writes
  MaxClient,   \* bound on next_alloc while the client runs
  Unwritten    \* contents of a block that was not written since it was handed out

States == [next_alloc : 0..MaxBlocks, freed : SUBSET Blocks]

ASSUME VersionsAssumption ==
  /\ MaxClient \in Nat /\ MaxClient <= MaxBlocks
  /\ States \cap {NoFile, Empty} = {}
  /\ (Data \cup {Zero}) \cap {NoFile, Empty, Untouched, Unwritten} = {}

VARIABLES
  device,    \* the device, see Backends.tla
  dev,       \* "up", "down", or "undefined": behaviour is undefined from here on
  contents,  \* (observer) what the client wrote to the blocks it owns
  safe,      \* (observer) blocks it owned at the last save and ever since
  lost       \* (observer) a session ended without a save

vars == <<device, dev, contents, safe, lost>>
owned == DOMAIN contents

Only(f, S) == [b \in DOMAIN f \cap S |-> f[b]]
With(f, b, d) == [c \in DOMAIN f \cup {b} |-> IF c = b THEN d ELSE f[c]]

Init ==
  /\ \E v \in VERSION : device = NewDevice(v)
  /\ dev = "down"
  /\ contents = <<>>
  /\ safe = {}
  /\ lost = FALSE

Mount ==
  /\ dev = "down"
  /\ \/ Undefined(device) /\ dev' = "undefined" /\ UNCHANGED device
     \/ ~Undefined(device) /\ dev' = "up" /\ device' = block_dev_init(device)
  /\ UNCHANGED <<contents, safe, lost>>

Allocate ==
  LET b == NewBlock(device)
  IN /\ dev = "up" /\ b < MaxClient
     /\ device' = allocate_block(device)
     /\ contents' = With(contents, b, Unwritten)
     /\ safe' = safe \ {b}
     /\ UNCHANGED <<dev, lost>>

Write(b, d) ==
  /\ dev = "up" /\ b \in owned
  /\ device' = write_block(device, b, d)
  /\ contents' = With(contents, b, d)
  /\ UNCHANGED <<dev, safe, lost>>

Free(b) ==
  /\ dev = "up" /\ b \in owned
  /\ device' = free_block(device, b)
  /\ contents' = Only(contents, Blocks \ {b})
  /\ safe' = safe \ {b}
  /\ UNCHANGED <<dev, lost>>

(* The session is over without its state being saved: what the client can  *)
(* count on are the blocks it had when it was last saved, and kept.        *)
Loses ==
  /\ contents' = Only(contents, safe)
  /\ lost' = TRUE
  /\ UNCHANGED safe

(* block_dev_destroy. *)
Unmount ==
  /\ dev = "up"
  /\ \/ Overruns(device) /\ dev' = "undefined" /\ UNCHANGED <<device, contents, safe, lost>>
     \/ /\ ~Overruns(device)
        /\ device' = Forgotten(save_state(device))
        /\ dev' = "down"
        /\ \/ Fits(device) /\ safe' = owned /\ UNCHANGED <<contents, lost>>
           \/ ~Fits(device) /\ Loses

Crash ==
  /\ dev = "up"
  /\ device' = Forgotten(device)
  /\ dev' = "down"
  /\ Loses

Next ==
  \/ Mount \/ Allocate \/ Unmount \/ Crash
  \/ \E b \in Blocks : Free(b) \/ \E d \in Data : Write(b, d)

Spec == Init /\ [][Next]_vars

-----------------------------------------------------------------------------
(* Types. *)
TypeOK ==
  /\ device \in [version : VERSION, next_alloc : 0..MaxBlocks, freed : SUBSET Blocks,
                 block : [Blocks -> Data \cup {Zero, NoFile, Empty}],
                 meta : States \cup {NoFile, Empty}]
  /\ dev \in {"up", "down", "undefined"}
  /\ owned \subseteq Blocks /\ safe \subseteq owned
  /\ lost \in BOOLEAN

(* The allocator, running or saved, counts every block of the client as in *)
(* use, in all versions and through crashes and refused saves; and without *)
(* those it counts no other block, so that none leaks.                     *)
Sound(n, f) ==
  LET live == {b \in Blocks : b < n /\ b \notin f}
  IN owned \subseteq live /\ (~lost => owned = live)
AllocatorSound ==
  /\ dev = "up" => Sound(device.next_alloc, device.freed)
  /\ dev = "down" /\ device.meta \notin {NoFile, Empty} =>
       Sound(device.meta.next_alloc, device.meta.freed)

(* What was written to a block is read from it as long as the client owns  *)
(* the block, through remounts, crashes and whatever is done to others.    *)
WritesStick ==
  dev = "up" => \A b \in owned :
    contents[b] # Unwritten => read_block(device, b) = [val |-> 0, data |-> contents[b]]

(* blocklayer.h:29-30 for the versions that have files: without crashes a  *)
(* freed block's data is gone, and a new block shows nobody's data.        *)
FreedDataGone ==
  device.version # 0 /\ ~lost =>
    \A b \in Blocks :
      /\ b \notin owned => device.block[b] = NoFile
      /\ b \in owned => contents[b] = device.block[b] \/ device.block[b] \in {Empty, Zero}

(* The repository's tests succeed on every device without a free list, and *)
(* leave the allocator as it was; and the test that is run once more on    *)
(* what it left behind costs one more block.                               *)
TestsPass ==
  /\ dev = "up" /\ device.freed = {} /\ device.next_alloc + TestBlocks <= MaxBlocks =>
       LET t == run_tests(device)
       IN /\ t.ok
          /\ t.k.next_alloc = device.next_alloc
          /\ t.k.freed = {}
  /\ dev = "up" /\ owned = {} /\ Live(device) = {} =>
       LET once  == load_test(device)
           twice == load_test(once)
       IN /\ once.next_alloc = TestBlocks
          /\ twice.next_alloc = TestBlocks + 1
          /\ once.freed = twice.freed
=============================================================================
