------------------------------- MODULE Queue -------------------------------
(***************************************************************************)
(* The queue of freed block numbers: the singly linked lists of queue.c    *)
(* (QUETYPE 0, unordered) and queue_desc.c (QUETYPE 1, the build's), with  *)
(* the head, tail and size fields of struct queue and the nodes as memory  *)
(* cells that malloc hands out and free takes back.  A freed cell stays    *)
(* addressable, as tail may point to one, and malloc may hand it out       *)
(* again.  The two differ in queue_push alone.                             *)
(***************************************************************************)
EXTENDS Integers, Sequences, FiniteSets, SequencesExt

CONSTANTS
  Numbers,   \* block numbers that may be freed
  Cells,     \* addresses malloc may return
  NULL       \* the null pointer

ASSUME QueueAssumption ==
  /\ Numbers \subseteq Nat
  /\ IsFiniteSet(Cells)
  /\ NULL \notin Cells

VARIABLES
  q,         \* [size, head, tail], the struct queue freed_blocks
  mem,       \* contents of every cell: [data, next]
  used,      \* the cells malloc has handed out and free has not taken back
  buffer,    \* the numbers in the saved image; its length is buffer[0]
  result,    \* return value of the last call
  QUETYPE,   \* 0 or 1, chosen when the program is compiled (never changes)
  broken     \* TRUE: queue.c has written to a freed cell

vars == <<q, mem, used, buffer, result, QUETYPE, broken>>

Pointers == Cells \cup {NULL}
Blank == [data |-> 0, next |-> NULL]
new_queue == [size |-> 0, head |-> NULL, tail |-> NULL]

(* The cells reached from pointer p, in list order.  The walk ends at NULL *)
(* or after one step more than there are cells, so that a cycle shows up   *)
(* as a repeated cell and not as an endless walk.                          *)
Follow(m, p) == IF p = NULL THEN NULL ELSE m[p].next
ListFrom(m, p) ==
  LET node[k \in 0..Cardinality(Cells)] ==
        IF k = 0 THEN p ELSE Follow(m, node[k - 1])
      length == Cardinality({k \in 0..Cardinality(Cells) : node[k] # NULL})
  IN [k \in 1..length |-> node[k - 1]]

Data(m, cells) == [i \in DOMAIN cells |-> m[cells[i]].data]
List == ListFrom(mem, q.head)
Queued == Data(mem, List)

-----------------------------------------------------------------------------
(* A heap is the queue with the memory it lives in. *)

heap == [q |-> q, mem |-> mem, used |-> used]
HeapIs(h) == q' = h.q /\ mem' = h.mem /\ used' = h.used

(* How many cells, from the head on, hold a number larger than n. *)
LeadingLarger(h, list, n) ==
  CHOOSE k \in 0..Len(list) :
    /\ \A i \in 1..k : h.mem[list[i]].data > n
    /\ k < Len(list) => h.mem[list[k + 1]].data <= n

(* Mutation of Inserted: the test against the head is left out. *)
Inserted_behind_head(h, new) ==
  LET list == ListFrom(h.mem, h.q.head)
      k    == LeadingLarger(h, list, h.mem[new].data)
      last == IF k = 0 THEN h.q.head ELSE list[k]
  IN [h EXCEPT !.mem = [@ EXCEPT ![last].next = new, ![new].next = h.mem[last].next],
               !.q.size = @ + 1]

(* The new cell goes behind the cells holding larger numbers; tail is not  *)
(* maintained.                                                             *)
Inserted(h, new) ==
  LET n    == h.mem[new].data
      list == ListFrom(h.mem, h.q.head)
      k    == LeadingLarger(h, list, n)
      last == IF k = 0 THEN h.q.head ELSE list[k]
      next == IF k = 0 THEN h.q.head ELSE h.mem[last].next
  IN IF h.mem[h.q.head].data < n
     THEN [h EXCEPT !.mem[new].next = h.q.head, !.q.head = new,
                    !.q.size = @ + 1]
     ELSE [h EXCEPT !.mem = [@ EXCEPT ![last].next = new, ![new].next = next],
                    !.q.size = @ + 1]

(* queue.c has the new cell behind tail. *)
Appended(h, new) ==
  [h EXCEPT !.mem[h.q.tail].next = new, !.q.tail = new, !.q.size = @ + 1]

Pushed(h, n, new) ==
  LET g == [h EXCEPT !.mem[new] = [data |-> n, next |-> NULL],
                     !.used = @ \cup {new}]
  IN IF g.q.size = 0 THEN [g EXCEPT !.q = [size |-> 1, head |-> new, tail |-> new]]
     ELSE IF QUETYPE = 1 THEN Inserted(g, new) ELSE Appended(g, new)

(* The tail is cleared only with the last cell. *)
Popped(h) ==
  [h EXCEPT !.used = @ \ {h.q.head},
            !.mem[h.q.head] = Blank,
            !.q = IF h.q.size = 1 THEN new_queue
                  ELSE [size |-> h.q.size - 1, head |-> h.mem[h.q.head].next,
                        tail |-> h.q.tail]]

(* Mutation of Unlinked: the cell is not freed. *)
Unlinked_leaking(h, last, c) ==
  [h EXCEPT !.mem[last].next = h.mem[c].next, !.q.size = @ - 1]

(* queue_remove of a cell behind the head: its predecessor last skips it.  *)
(* If it was the last one, tail still points to it.                        *)
Unlinked(h, last, c) ==
  [h EXCEPT !.mem = [@ EXCEPT ![last].next = h.mem[c].next, ![c] = Blank],
            !.used = @ \ {c},
            !.q.size = @ - 1]

-----------------------------------------------------------------------------
Init ==
  /\ q = new_queue
  /\ mem = [c \in Cells |-> Blank]
  /\ used = {}
  /\ buffer = <<>>
  /\ result = 0
  /\ QUETYPE \in 0..1
  /\ broken = FALSE

(* queue_push of queue.c writes to the cell behind which it appends. *)
Dangling == QUETYPE = 0 /\ q.size > 0 /\ q.tail \notin used

(* free_block pushes a block that was in use, so it is not queued. *)
queue_push(n) ==
  /\ n \notin ToSet(Queued)
  /\ \/ Dangling /\ broken' = TRUE /\ UNCHANGED <<q, mem, used, result>>
     \/ /\ ~Dangling
        /\ \E new \in Cells \ used : HeapIs(Pushed(heap, n, new))
        /\ result' = 0
        /\ UNCHANGED broken
  /\ UNCHANGED <<buffer, QUETYPE>>

(* With size > 0 and a NULL head the process dies in pop and remove, as it *)
(* does in save when size exceeds the list: no step is possible then.      *)
queue_pop ==
  \/ q.size = 0 /\ result' = -1 /\ UNCHANGED <<q, mem, used, buffer, QUETYPE, broken>>
  \/ /\ q.size > 0 /\ q.head # NULL
     /\ result' = mem[q.head].data
     /\ HeapIs(Popped(heap))
     /\ UNCHANGED <<buffer, QUETYPE, broken>>

(* Mutation of queue_remove: the size goes down even if nothing is found. *)
queue_remove_counting(n) ==
  /\ n \notin ToSet(Queued)
  /\ q' = [q EXCEPT !.size = @ - 1]
  /\ result' = -1
  /\ UNCHANGED <<mem, used, buffer, QUETYPE, broken>>

queue_remove(n) ==
  \/ /\ n \notin ToSet(Queued) /\ (q.size > 0 => q.head # NULL)
     /\ result' = -1
     /\ UNCHANGED <<q, mem, used, buffer, QUETYPE, broken>>
  \/ \E i \in DOMAIN List :
       /\ Queued[i] = n /\ \A j \in 1..(i - 1) : Queued[j] # n
       /\ HeapIs(IF i = 1 THEN Popped(heap) ELSE Unlinked(heap, List[i - 1], List[i]))
       /\ result' = 0
       /\ UNCHANGED <<buffer, QUETYPE, broken>>

(* Mutation of queue_save: the last number is not copied. *)
queue_save_short ==
  /\ q.size > 0
  /\ buffer' = SubSeq(Queued, 1, q.size - 1)
  /\ result' = q.size
  /\ UNCHANGED <<q, mem, used, QUETYPE, broken>>

(* save_state at unmount: size numbers are copied from the list. *)
queue_save ==
  /\ q.size <= Len(List)
  /\ buffer' = SubSeq(Queued, 1, q.size)
  /\ result' = q.size
  /\ UNCHANGED <<q, mem, used, QUETYPE, broken>>

(* queue_destroy at unmount frees every cell; load_state at the next mount *)
(* makes a new queue and pushes the saved numbers in the order saved.      *)
fresh == [q |-> new_queue, mem |-> [c \in Cells |-> Blank], used |-> {}]
Loaded(numbers) ==
  LET pushed[k \in 0..Len(numbers)] ==
        IF k = 0 THEN fresh
        ELSE Pushed(pushed[k - 1], numbers[k],
                    CHOOSE c \in Cells : c \notin pushed[k - 1].used)
  IN pushed[Len(numbers)]

queue_load ==
  /\ HeapIs(Loaded(buffer))
  /\ result' = Len(buffer)
  /\ UNCHANGED <<buffer, QUETYPE, broken>>

Next ==
  /\ ~broken
  /\ \/ queue_pop
     \/ queue_save
     \/ queue_load
     \/ \E n \in Numbers : queue_push(n) \/ queue_remove(n)

Spec == Init /\ [][Next]_vars

-----------------------------------------------------------------------------
(* Types of the fields; a cell's number stays a valid block number. *)
TypeOK ==
  /\ q \in [size : Nat, head : Pointers, tail : Pointers]
  /\ mem \in [Cells -> [data : Numbers \cup {0}, next : Pointers]]
  /\ used \subseteq Cells
  /\ buffer \in Seq(Numbers)
  /\ result \in Nat \cup {-1}
  /\ QUETYPE \in 0..1 /\ broken \in BOOLEAN

(* The list is well formed: it has exactly size cells, none twice, all of  *)
(* them allocated, and no allocated cell is outside of it (nothing leaks,  *)
(* nothing dangles); and the tail that queue.c appends to is the last cell *)
(* unless it is one that was taken back.                                   *)
WellFormed ==
  /\ q.size = Len(List)
  /\ IsInjective(List)
  /\ ToSet(List) = used
  /\ QUETYPE = 0 /\ q.size > 0 => Dangling \/ q.tail = Last(List)

(* The push of queue_desc.c keeps the numbers strictly descending, so that *)
(* the block handed out next is the largest freed one.                     *)
StrictlyDescending ==
  QUETYPE = 1 => \A i, j \in DOMAIN Queued : i < j => Queued[i] > Queued[j]

(* The cells are an implementation of a set of numbers: every push, pop,   *)
(* remove, save and load does to the list what FreeSet does to a set, up   *)
(* to the push of queue.c that writes to a freed cell.                     *)
Abstract == INSTANCE FreeSet WITH
  free  <- ToSet(Queued),
  saved <- ToSet(buffer),
  largest <- QUETYPE = 1
ImplementsFreeSet == Abstract!Spec
=============================================================================
