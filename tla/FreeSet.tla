------------------------------ MODULE FreeSet ------------------------------
(***************************************************************************)
(* What the block layer needs from its queue of freed block numbers: a set *)
(* to which a number is added, from which some number is taken, and from   *)
(* which a given number can be withdrawn; and that the set survives being  *)
(* saved to the meta block and loaded back.                                *)
(***************************************************************************)
EXTENDS Integers, FiniteSets

CONSTANT Numbers  \* the block numbers that may be queued

VARIABLES
  free,       \* the numbers currently queued
  saved,      \* the numbers queued at the last save
  result,     \* what the last call returned
  largest     \* TRUE: the largest number is taken first (never changes)

vars == <<free, saved, result, largest>>

Init == free = {} /\ saved = {} /\ result = 0 /\ largest \in BOOLEAN

(* queue_push: the number was not queued (the block was in use). *)
Add(n) ==
  /\ n \notin free
  /\ free' = free \cup {n}
  /\ result' = 0
  /\ UNCHANGED <<saved, largest>>

(* queue_pop: -1 if there is none, else one of the queued numbers. *)
Take ==
  /\ UNCHANGED <<saved, largest>>
  /\ \/ free = {} /\ result' = -1 /\ UNCHANGED free
     \/ \E n \in free :
          /\ largest => \A m \in free : m <= n
          /\ free' = free \ {n}
          /\ result' = n

(* queue_remove: 0 if the number was queued, -1 if it was not. *)
Withdraw(n) ==
  /\ free' = free \ {n}
  /\ result' = IF n \in free THEN 0 ELSE -1
  /\ UNCHANGED <<saved, largest>>

(* queue_save and, into the new queue of the next mount, queue_load: both  *)
(* return how many numbers there are.                                      *)
Save == saved' = free /\ result' = Cardinality(free) /\ UNCHANGED <<free, largest>>
Load == free' = saved /\ result' = Cardinality(saved) /\ UNCHANGED <<saved, largest>>

Next ==
  \/ Take
  \/ Save
  \/ Load
  \/ \E n \in Numbers : Add(n) \/ Withdraw(n)

Spec == Init /\ [][Next]_vars
=============================================================================
