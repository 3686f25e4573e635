----------------------------- MODULE ByteFile -----------------------------
(***************************************************************************)
(* What the blocks of a file amount to for its user: bytes at offsets.     *)
(* The file has room for whole blocks; what is behind its size but within  *)
(* its last block stays there, and shows again when the file grows.        *)
(***************************************************************************)
EXTENDS Integers, Sequences

CONSTANTS
  Byte,        \* 0 among them
  BLOCK_SIZE,
  MaxSize      \* bound on the size

VARIABLES
  bytes,   \* as many as there is room for
  size,
  call,    \* the last call: what its caller asked for
  out      \* what it returned

vars == <<bytes, size, call, out>>

Data == UNION {[1..n -> Byte] : n \in 1..MaxSize}
Call ==
  [op : {"truncate"}, n : 0..MaxSize]
  \cup [op : {"write"}, offset : 0..MaxSize, data : Data]
  \cup [op : {"read"}, offset : 0..MaxSize, n : 1..MaxSize]

Init == bytes = <<>> /\ size = 0 /\ call = [op |-> "truncate", n |-> 0] /\ out = <<>>

Rounded(n) == ((n + BLOCK_SIZE - 1) \div BLOCK_SIZE) * BLOCK_SIZE
Resized(n) ==
  [i \in 1..Rounded(n) |-> IF i <= Len(bytes) THEN bytes[i] ELSE 0]

Truncate ==
  /\ call'.op = "truncate"
  /\ bytes' = Resized(call'.n)
  /\ size' = call'.n
  /\ out' = <<>>

(* Everything is written, in its place, and nothing else changes. *)
Write ==
  LET offset == call'.offset
      end == offset + Len(call'.data)
      old == IF end > size THEN Resized(end) ELSE bytes
  IN /\ call'.op = "write"
     /\ bytes' = [i \in DOMAIN old |->
                    IF offset < i /\ i <= end THEN call'.data[i - offset] ELSE old[i]]
     /\ size' = IF end > size THEN end ELSE size
     /\ out' = <<>>

(* A read ends at the end of the file. *)
Read ==
  LET end == call'.offset + call'.n
  IN /\ call'.op = "read"
     /\ out' = SubSeq(bytes, call'.offset + 1, IF end > size THEN size ELSE end)
     /\ UNCHANGED <<bytes, size>>

(* The call is the caller's choice. *)
Next == call' \in Call /\ (Truncate \/ Write \/ Read)

Spec == Init /\ [][Next]_vars
=============================================================================
