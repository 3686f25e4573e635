------------------------------- MODULE FileIO -------------------------------
(***************************************************************************)
(* fatfs_read and fatfs_write: how a range of bytes is cut into pieces of  *)
(* blocks, and what fatfs_truncate leaves behind for them.  The file's     *)
(* chain is the sequence of its blocks (Fat.tla says how it is kept); a    *)
(* new block is filled with zeros by allocate_block.  The kernel sends no  *)
(* empty reads or writes.                                                  *)
(***************************************************************************)
EXTENDS Integers, Sequences

CONSTANTS
  Byte,        \* values of a byte, 0 among them
  BLOCK_SIZE,  \* bytes in a block (256)
  MaxSize      \* bound on the size of the file

ASSUME FileAssumption ==
  /\ 0 \in Byte
  /\ BLOCK_SIZE \in Nat \ {0}
  /\ MaxSize \in Nat

VARIABLES
  chain,  \* the blocks, each a sequence of BLOCK_SIZE bytes
  size,   \* the entry's size
  call,   \* the last call: its operation and arguments
  out     \* what it returned, if it was a read

vars == <<chain, size, call, out>>

Data == UNION {[1..n -> Byte] : n \in 1..MaxSize}
BLOCKS(n) == (n + BLOCK_SIZE - 1) \div BLOCK_SIZE
Piece(block, at, n) == [block |-> block, at |-> at, n |-> n]

-----------------------------------------------------------------------------
(* The pieces of n bytes from offset, as both functions take them: all of  *)
(* it if that ends within the block it begins in; else the rest of that    *)
(* block unless offset is at its start, then full blocks, then what is     *)
(* left.                                                                   *)
Head1(offset) == IF offset % BLOCK_SIZE = 0 THEN 0 ELSE BLOCK_SIZE - (offset % BLOCK_SIZE)

Full(offset, n) == (n - Head1(offset)) \div BLOCK_SIZE

Pieces(offset, n) ==
  LET first == offset \div BLOCK_SIZE
      next  == IF Head1(offset) = 0 THEN first ELSE first + 1
      full  == Full(offset, n)
      left  == n - Head1(offset) - full * BLOCK_SIZE
  IN IF (offset % BLOCK_SIZE) + n < BLOCK_SIZE
     THEN << Piece(first, offset % BLOCK_SIZE, n) >>
     ELSE (IF Head1(offset) = 0 THEN <<>>
           ELSE << Piece(first, offset % BLOCK_SIZE, Head1(offset)) >>)
          \o [i \in 1..full |-> Piece(next + i - 1, 0, BLOCK_SIZE)]
          \o (IF left > 0 THEN << Piece(next + full, 0, left) >> ELSE <<>>)

Init ==
  /\ chain = <<>> /\ size = 0
  /\ call = [op |-> "truncate", n |-> 0] /\ out = <<>>

-----------------------------------------------------------------------------
(* Mutation: a block too many for full blocks. *)
Resized_up(n) ==
  [i \in 1..(n \div BLOCK_SIZE + 1) |->
     IF i <= Len(chain) THEN chain[i] ELSE [j \in 1..BLOCK_SIZE |-> 0]]

(* Blocks are added or freed behind those that are kept. *)
Resized(n) ==
  [i \in 1..BLOCKS(n) |->
     IF i <= Len(chain) THEN chain[i] ELSE [j \in 1..BLOCK_SIZE |-> 0]]

fatfs_truncate(n) ==
  /\ call' = [op |-> "truncate", n |-> n]
  /\ chain' = Resized(n)
  /\ size' = n
  /\ out' = <<>>

(* Mutation: buf stays at its beginning. *)
Written_rewound(blocks, p, data, done) ==
  [blocks EXCEPT ![p.block + 1] =
     [j \in 1..BLOCK_SIZE |->
        IF p.at < j /\ j <= p.at + p.n THEN data[j - p.at] ELSE @[j]]]

(* A block is read, changed and written back, one piece after the other.   *)
Written(blocks, p, data, done) ==
  [blocks EXCEPT ![p.block + 1] =
     [j \in 1..BLOCK_SIZE |->
        IF p.at < j /\ j <= p.at + p.n THEN data[done + j - p.at] ELSE @[j]]]

(* How far into buf the first k pieces take the write. *)
Done(pieces) ==
  LET done[k \in 0..Len(pieces)] == IF k = 0 THEN 0 ELSE done[k - 1] + pieces[k].n
  IN done

AllWritten(blocks, pieces, data) ==
  LET after[k \in 0..Len(pieces)] ==
        IF k = 0 THEN blocks
        ELSE Written(after[k - 1], pieces[k], data, Done(pieces)[k - 1])
  IN after[Len(pieces)]

fatfs_write(offset, data) ==
  LET end == offset + Len(data)
  IN /\ end <= MaxSize
     /\ call' = [op |-> "write", offset |-> offset, data |-> data]
     /\ chain' = AllWritten(IF end > size THEN Resized(end) ELSE chain,
                            Pieces(offset, Len(data)), data)
     /\ size' = IF end > size THEN end ELSE size
     /\ out' = <<>>

Clipped(offset, n) == IF offset + n > size THEN size - offset ELSE n

(* What is in a piece is copied behind what was in those before.           *)
AllRead(blocks, pieces) ==
  LET buf[k \in 0..Len(pieces)] ==
        IF k = 0 THEN <<>>
        ELSE LET p == pieces[k]
             IN buf[k - 1] \o SubSeq(blocks[p.block + 1], p.at + 1, p.at + p.n)
  IN buf[Len(pieces)]

fatfs_read(offset, n) ==
  /\ call' = [op |-> "read", offset |-> offset, n |-> n]
  /\ out' = IF offset >= size THEN <<>>
            ELSE AllRead(chain, Pieces(offset, Clipped(offset, n)))
  /\ UNCHANGED <<chain, size>>

Next ==
  \/ \E n \in 0..MaxSize : fatfs_truncate(n)
  \/ \E offset \in 0..MaxSize :
       \/ \E data \in Data : fatfs_write(offset, data)
       \/ \E n \in 1..MaxSize : fatfs_read(offset, n)

Spec == Init /\ [][Next]_vars

-----------------------------------------------------------------------------
(* Types; the chain has exactly the blocks that the size needs. *)
TypeOK ==
  /\ size \in 0..MaxSize
  /\ Len(chain) = BLOCKS(size)
  /\ \A i \in DOMAIN chain : chain[i] \in [1..BLOCK_SIZE -> Byte]
  /\ Len(out) <= size

(* fatfs_read and fatfs_write get at the bytes the caller means, however   *)
(* the range lies on the blocks: no byte is missed, moved or taken twice.  *)
Bytes ==
  [i \in 1..(Len(chain) * BLOCK_SIZE) |->
     chain[((i - 1) \div BLOCK_SIZE) + 1][((i - 1) % BLOCK_SIZE) + 1]]
B == INSTANCE ByteFile WITH bytes <- Bytes
ImplementsByteFile == B!Spec
=============================================================================
