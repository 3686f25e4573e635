----------------------------- MODULE BlockStore -----------------------------
(***************************************************************************)
(* What blocklayer.h promises to the file system: a store of blocks.  A    *)
(* block number handed out is not in use, a block reads back what was last *)
(* written to it, a freed block's data is never seen again, and all of it  *)
(* survives an unmount and the next mount.                                 *)
(*                                                                         *)
(* Lossy is the promise left when memes cannot always be downloaded: a     *)
(* block or the whole store may be lost, and is then seen to be lost, but  *)
(* nothing stale or foreign is ever read.                                  *)
(***************************************************************************)
EXTENDS Integers

CONSTANTS
  Blocks,   \* block numbers
  Data,     \* what can be written to a block
  Zero,     \* the contents of a new block
  Lost,     \* read from a block whose contents are gone
  Nothing,  \* the data returned by calls that return none
  Lossy     \* TRUE: contents may be lost

VARIABLES
  store,    \* contents of the blocks in use, a function on those blocks
  ret       \* [val, data] returned by the last call

vars == <<store, ret>>

Returns(v, d) == ret' = [val |-> v, data |-> d]
Outcomes(d) == IF Lossy THEN {d, Lost} ELSE {d}
Empty == [b \in {} |-> Zero]

Init == store = Empty /\ ret = [val |-> 0, data |-> Nothing]

allocate_block ==
  \E b \in Blocks \ DOMAIN store : \E d \in Outcomes(Zero) :
    /\ store' = [c \in DOMAIN store \cup {b} |-> IF c = b THEN d ELSE store[c]]
    /\ Returns(b, Nothing)

free_block(b) ==
  /\ b \in DOMAIN store
  /\ store' = [c \in DOMAIN store \ {b} |-> store[c]]
  /\ Returns(0, Nothing)

read_block(b) ==
  /\ b \in DOMAIN store
  /\ Returns(0, store[b])
  /\ UNCHANGED store

write_block(b, d) ==
  /\ b \in DOMAIN store
  /\ \E e \in Outcomes(d) : store' = [store EXCEPT ![b] = e]
  /\ Returns(0, Nothing)

(* An unmount or a mount, each of which may fail if memes do. *)
Remount ==
  \/ Returns(0, Nothing) /\ UNCHANGED store
  \/ Lossy /\ Returns(0, Nothing) /\ store' = Empty
  \/ Lossy /\ Returns(-1, Nothing) /\ UNCHANGED store

Next ==
  \/ allocate_block
  \/ Remount
  \/ \E b \in Blocks :
       \/ free_block(b)
       \/ read_block(b)
       \/ \E d \in Data : write_block(b, d)

Spec == Init /\ [][Next]_vars
=============================================================================
