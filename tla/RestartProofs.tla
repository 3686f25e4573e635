--------------------------- MODULE RestartProofs ---------------------------
(***************************************************************************)
(* Theorems about the file system through unmounts, mounts and crashes,    *)
(* for any number of them, of files and of blocks.  As long as the process *)
(* has not died, the invariant of FatProofs holds whenever the file system *)
(* is mounted, the disk has all of it when it is not, and every block of a *)
(* chain was last written for the chain's user.  After that, numbers at    *)
(* least stay in bounds, and after one crash the files that an orderly     *)
(* unmount left, and that were not changed since, are still whole.         *)
(***************************************************************************)
EXTENDS Restart, FatProofs

In(b, s) == \E i \in 1..Len(s) : s[i] = b

(* What the blocks of the chains were last written for. *)
Held(t, C) ==
  /\ \A f \in Files : \A b : In(b, C[File(f)]) => holds[b] = f
  /\ \A b : In(b, C[Table]) => holds[b] = "table"
  /\ \A b : In(b, C[Fixed]) => holds[b] = "system"
  /\ \A b : In(b, C[New]) => holds[b] = reg[t].file
  /\ pc[t] \in {"advance", "place"} => holds[reg[t].new] = reg[t].file

(* Memory, while the file system is mounted and no process has died. *)
Running(t) ==
  /\ Types
  /\ fault \in {"none", "overrun", "wild"}
  /\ fault = "none" => \E C : Shape(t, C) /\ Held(t, C)

(* The disk, while it is not: the chains, in the table of the last unmount *)
(* and with the superblock of then, and the allocator's state.             *)
LiveThen == {b \in Blocks : b < saved.next_alloc /\ b \notin saved.freed}
Rests(table, C) ==
  LET s == stored.sb
  IN /\ s \in [free_blocks : Int, fat_size : Nat, fat_start : Blocks, fat_end : Blocks]
     /\ table \in [0..(s.fat_size - 1) -> Blocks \cup {Cut}]
     /\ stored = [part |-> write_fat(table, s), sb |-> s]
     /\ saved.next_alloc \in 0..MaxBlocks /\ saved.freed \subseteq Blocks
     /\ \A b \in saved.freed : b < saved.next_alloc /\ b < s.fat_size
     /\ saved.next_alloc - 1 \notin saved.freed
     /\ saved.next_alloc <= s.fat_size
     /\ Own(C, LiveThen)
     /\ \A f \in Files : Whole(table, C[File(f)]) /\ Matches(C[File(f)], entry[f])
     /\ C[Fixed] = <<0, Root>> /\ C[New] = <<>> /\ C[Pend] = <<>> /\ C[Rest] = <<>>
     /\ Whole(table, C[Table])
     /\ C[Table] # <<>> /\ C[Table][1] = s.fat_start /\ C[Table][Len(C[Table])] = s.fat_end
     /\ s.fat_size = FAT_PER_BLOCK * Len(C[Table])
     /\ \A k \in 1..Len(C[Table]) : C[Table][k] < k * FAT_PER_BLOCK
     /\ s.free_blocks = s.fat_size - Cardinality(LiveThen)
     /\ \A f \in Files : \A b : In(b, C[File(f)]) => holds[b] = f
     /\ \A b : In(b, C[Table]) => holds[b] = "table"
     /\ \A b : In(b, C[Fixed]) => holds[b] = "system"

CleanInv(t) ==
  /\ ~up => pc = [u \in Threads |-> "idle"] /\ reg = [u \in Threads |-> NoLocals] /\ fault = "none"
  /\ clean /\ up => Running(t)
  /\ clean /\ ~up => /\ saved # NoState
                     /\ entry \in [Files -> Entries]
                     /\ \E table, C : Rests(table, C)

-----------------------------------------------------------------------------
(* The one thread. *)
LEMMA OneThread == \E t : Threads = {t}
<1>1. IsFiniteSet(Threads) /\ Cardinality(Threads) = 1
  BY RestartAssumption
<1>2. PICK t : Threads = {t}
  BY <1>1, FS_Singleton
<1> QED
  BY <1>2

(* A block that has passed from one user to another. *)
LEMMA Moved ==
  ASSUME NEW t, Threads = {t}, Types, NEW C, Shape(t, C), NEW D, Shape(t, D)', Passes(t, C, D),
         reg[t].file \in Files \/ C[New] = <<>>,
         NEW u \in Users, u \notin {Rest, Pend}, NEW b, In(b, D[u])
  PROVE  \/ In(b, C[u])
         \/ reg[t].file \in Files /\ u = File(reg[t].file) /\ In(b, C[New])
         \/ u = New /\ In(b, C[Pend])
         \/ u = Table /\ b = NewBlock /\ sb'.fat_size # sb.fat_size
<1> USE UsersAre
<1>1. Own(C, Live) /\ DOMAIN C = Users
  BY DEF Shape, Own
<1>2. /\ \A h \in Users : C[h] \in Seq(Live) /\ Len(C[h]) \in Nat
      /\ \A h \in Users : C[h] = <<>> <=> Len(C[h]) = 0
  BY <1>1, OwnFacts
<1>3. PICK k \in 1..Len(D[u]) : D[u][k] = b
  BY DEF In
<1>4. CASE D = C
  BY <1>4
<1>5. ASSUME NEW x, D = Added(C, Pend, x) PROVE In(b, C[u])
  <2>1. D[u] = C[u]
    BY <1>1, <1>5, AddedIs
  <2> QED
    BY <2>1
<1>6. CASE D = Added(C, Table, NewBlock)
  <2>1. D[Table] = Append(C[Table], NewBlock) /\ \A x \in Users : x # Table => D[x] = C[x]
    BY <1>1, <1>6, AddedIs
  <2>2. CASE u # Table
    BY <2>1, <2>2
  <2>3. CASE u = Table
    <3>1. PICK n : n = Len(C[Table])
      OBVIOUS
    <3>2. /\ n \in Nat /\ Len(D[Table]) = n + 1
          /\ \A i \in 1..n : D[Table][i] = C[Table][i]
          /\ D[Table][n + 1] = NewBlock
      BY <1>2, <2>1, <3>1, AppendProperties
    <3>3. CASE k \in 1..n
      BY <1>3, <2>3, <3>1, <3>2, <3>3 DEF In
    <3>4. CASE k = n + 1
      <4>1. b = NewBlock
        BY <1>3, <2>3, <3>2, <3>4
      <4>2. sb.fat_size = FAT_PER_BLOCK * n
        BY <3>1 DEF Shape, SystemChains, TableShape
      <4>3. sb'.fat_size = FAT_PER_BLOCK * (n + 1)
        BY <3>2 DEF Shape, SystemChains, TableShape
      <4>4. FAT_PER_BLOCK * (n + 1) # FAT_PER_BLOCK * n
        <5>1. \A a, m \in Nat : a * (m + 1) = a * m + a /\ a * m \in Nat
          OBVIOUS
        <5> QED
          BY <3>2, <5>1, FatAssumption
      <4> QED
        BY <2>3, <4>1, <4>2, <4>3, <4>4
    <3> QED
      BY <1>3, <2>3, <3>2, <3>3, <3>4
  <2> QED
    BY <2>2, <2>3
<1>7. ASSUME NEW g \in Users, NEW h \in Users, g # h, D = Joined(C, g, h)
      PROVE  In(b, C[u]) \/ (u = g /\ In(b, C[h]))
  <2>1. /\ D[g] = C[g] \o C[h] /\ D[h] = <<>>
        /\ \A x \in Users : x # g /\ x # h => D[x] = C[x]
    BY <1>1, <1>7 DEF Joined
  <2>2. CASE u # g /\ u # h
    BY <2>1, <2>2
  <2>3. CASE u = h
    <3>1. Len(D[h]) = 0
      BY <2>1
    <3> QED
      BY <1>3, <2>3, <3>1
  <2>4. CASE u = g
    <3>1. PICK n, m : n = Len(C[g]) /\ m = Len(C[h])
      OBVIOUS
    <3>2. /\ n \in Nat /\ m \in Nat /\ Len(D[g]) = n + m
          /\ \A i \in 1..(n + m) : D[g][i] = IF i <= n THEN C[g][i] ELSE C[h][i - n]
      <4>1. PICK p, q : p = C[g] /\ q = C[h]
        OBVIOUS
      <4>2. p \in Seq(Live) /\ q \in Seq(Live) /\ n = Len(p) /\ m = Len(q) /\ n \in Nat /\ m \in Nat
        BY <1>2, <3>1, <4>1
      <4>3. /\ Len(p \o q) = Len(p) + Len(q)
            /\ \A i \in 1..(Len(p) + Len(q)) : (p \o q)[i] = IF i <= Len(p) THEN p[i] ELSE q[i - Len(p)]
        BY <4>2, ConcatProperties
      <4>4. D[g] = p \o q
        BY <2>1, <4>1
      <4>5. \A i \in 1..(n + m) : (p \o q)[i] = IF i <= n THEN p[i] ELSE q[i - n]
        BY <4>2, <4>3
      <4>6. Len(D[g]) = n + m
        BY <4>2, <4>3, <4>4
      <4>7. \A i \in 1..(n + m) : D[g][i] = IF i <= n THEN p[i] ELSE q[i - n]
        BY <4>4, <4>5
      <4> QED
        BY <4>1, <4>2, <4>6, <4>7
    <3>3. CASE k <= n
      <4>1. k \in 1..n /\ D[g][k] = C[g][k]
        BY <1>3, <2>4, <3>2, <3>3
      <4> QED
        BY <1>3, <2>4, <3>1, <4>1 DEF In
    <3>4. CASE ~(k <= n)
      <4>1. k - n \in 1..m /\ D[g][k] = C[h][k - n]
        BY <1>3, <2>4, <3>2, <3>4
      <4> QED
        BY <1>3, <2>4, <3>1, <4>1 DEF In
    <3> QED
      BY <3>3, <3>4
  <2> QED
    BY <2>2, <2>3, <2>4
<1>8. ASSUME D = Joined(C, File(reg[t].file), New)
      PROVE  In(b, C[u]) \/ (reg[t].file \in Files /\ u = File(reg[t].file) /\ In(b, C[New]))
  <2>1. CASE reg[t].file \in Files
    BY <1>7, <1>8, <2>1
  <2>2. CASE reg[t].file \notin Files
    <3>1. C[New] = <<>>
      BY <2>2
    <3>2. File(reg[t].file) \notin Users
      BY <2>2
    <3>3. D[u] = C[u]
      BY <1>1, <1>8, <3>1, <3>2 DEF Joined
    <3> QED
      BY <3>3
  <2> QED
    BY <2>1, <2>2
<1>9. ASSUME NEW f \in Files, NEW n \in 0..Len(C[File(f)]), D = Divided(C, File(f), Rest, n)
      PROVE  In(b, C[u])
  <2>1. D[File(f)] = SubSeq(C[File(f)], 1, n) /\ \A x \in Users : x # File(f) /\ x # Rest => D[x] = C[x]
    BY <1>1, <1>9 DEF Divided
  <2>2. CASE u # File(f)
    BY <2>1, <2>2
  <2>3. CASE u = File(f)
    <3>1. Len(D[u]) = n /\ \A i \in 1..n : D[u][i] = C[u][i]
      BY <1>2, <2>1, <2>3, Parts
    <3>2. k \in 1..n /\ n \in Nat /\ n <= Len(C[u]) /\ Len(C[u]) \in Nat
      BY <1>2, <1>3, <2>3, <3>1
    <3> QED
      BY <1>3, <3>1, <3>2 DEF In
  <2> QED
    BY <2>2, <2>3
<1>10. ASSUME D = Popped(C, Rest) PROVE In(b, C[u])
  <2>1. D[u] = C[u]
    BY <1>1, <1>10 DEF Popped
  <2> QED
    BY <2>1
<1>11. CASE D = Joined(C, New, Pend)
  BY <1>7, <1>11
<1> QED
  BY <1>4, <1>5, <1>6, <1>8, <1>9, <1>10, <1>11 DEF Passes

(* What the blocks of the chains after a step held before it.              *)
HeldBefore(t, C, D) ==
  /\ \A f \in Files : \A b : In(b, D[File(f)]) => holds[b] = f
  /\ \A b : In(b, D[Table]) =>
        holds[b] = "table" \/ (b = NewBlock /\ sb'.fat_size # sb.fat_size)
  /\ \A b : In(b, D[Fixed]) => holds[b] = "system"
  /\ \A b : In(b, D[New]) => holds[b] = reg[t].file /\ (C[New] # <<>> \/ C[Pend] # <<>>)

LEMMA WasHeld ==
  ASSUME NEW t, Threads = {t}, Types, NEW C, Shape(t, C), Held(t, C),
         NEW D, Shape(t, D)', Passes(t, C, D)
  PROVE  HeldBefore(t, C, D)
<1> USE UsersAre
<1>1. reg[t].file \in Files \/ C[New] = <<>>
  BY Basics DEF Shape, AtWork, Allocating, Steps
<1>2. \A f \in Files : \A b : In(b, D[File(f)]) => holds[b] = f
  <2> SUFFICES ASSUME NEW f \in Files, NEW b, In(b, D[File(f)]) PROVE holds[b] = f
    OBVIOUS
  <2>1. PICK u : u = File(f)
    OBVIOUS
  <2>2. u \in Users /\ u \notin {Rest, Pend} /\ u # New /\ u # Table /\ In(b, D[u])
    BY <2>1
  <2>3. In(b, C[u]) \/ (reg[t].file \in Files /\ u = File(reg[t].file) /\ In(b, C[New]))
    BY <1>1, <2>2, Moved
  <2> QED
    BY <2>1, <2>3 DEF Held
<1>3. \A b : In(b, D[Table]) => holds[b] = "table" \/ (b = NewBlock /\ sb'.fat_size # sb.fat_size)
  <2> SUFFICES ASSUME NEW b, In(b, D[Table])
               PROVE  holds[b] = "table" \/ (b = NewBlock /\ sb'.fat_size # sb.fat_size)
    OBVIOUS
  <2>1. PICK u : u = Table
    OBVIOUS
  <2>2. u \in Users /\ u \notin {Rest, Pend} /\ u # New /\ (\A f : u # File(f)) /\ In(b, D[u])
    BY <2>1
  <2>3. \/ In(b, C[u])
        \/ reg[t].file \in Files /\ u = File(reg[t].file) /\ In(b, C[New])
        \/ u = New /\ In(b, C[Pend])
        \/ u = Table /\ b = NewBlock /\ sb'.fat_size # sb.fat_size
    BY <1>1, <2>2, Moved
  <2>4. In(b, C[Table]) \/ (b = NewBlock /\ sb'.fat_size # sb.fat_size)
    BY <2>1, <2>2, <2>3, Zenon
  <2> QED
    BY <2>4 DEF Held
<1>4. \A b : In(b, D[Fixed]) => holds[b] = "system"
  <2> SUFFICES ASSUME NEW b, In(b, D[Fixed]) PROVE holds[b] = "system"
    OBVIOUS
  <2>1. In(b, C[Fixed])
    BY <1>1, Moved
  <2> QED
    BY <2>1 DEF Held
<1>5. \A b : In(b, D[New]) => holds[b] = reg[t].file /\ (C[New] # <<>> \/ C[Pend] # <<>>)
  <2> SUFFICES ASSUME NEW b, In(b, D[New])
               PROVE  holds[b] = reg[t].file /\ (C[New] # <<>> \/ C[Pend] # <<>>)
    OBVIOUS
  <2>1. In(b, C[New]) \/ In(b, C[Pend])
    BY <1>1, Moved
  <2>2. CASE In(b, C[New])
    <3>1. C[New] # <<>>
      BY <2>2 DEF In
    <3> QED
      BY <2>2, <3>1 DEF Held
  <2>3. CASE In(b, C[Pend])
    <3>1. C[Pend] # <<>>
      BY <2>3 DEF In
    <3>2. pc[t] = "place" /\ C[Pend] = <<reg[t].new>>
      BY <3>1 DEF Shape, AtWork
    <3>3. b = reg[t].new
      BY <2>3, <3>2 DEF In
    <3> QED
      BY <3>1, <3>2, <3>3 DEF Held
  <2> QED
    BY <2>1, <2>2, <2>3
<1> QED
  BY <1>2, <1>3, <1>4, <1>5 DEF HeldBefore

(* A block is in one chain only. *)
LEMMA OneChain ==
  ASSUME NEW D, NEW live, Own(D, live), NEW u \in Users, NEW v \in Users, NEW b,
         In(b, D[u]), In(b, D[v])
  PROVE  u = v /\ b \in live
BY OwnOnce, OwnFacts DEF In

(* They still hold it, where the step writes blocks of the table or of the *)
(* new chain only.                                                         *)
WritesItsOwn(t, C, D) ==
  /\ \A b \in Live' : \/ holds'[b] = holds[b]
                      \/ holds'[b] = "table" /\ In(b, D[Table])
                      \/ In(b, D[Pend])
  /\ sb'.fat_size # sb.fat_size => holds'[NewBlock] = "table"
  /\ reg'[t].file = reg[t].file \/ (C[New] = <<>> /\ C[Pend] = <<>>)
  /\ pc'[t] \in {"advance", "place"} => holds'[reg'[t].new] = reg'[t].file

LEMMA StillHeld ==
  ASSUME NEW t, Threads = {t}, NEW C, NEW D, Shape(t, D)', HeldBefore(t, C, D),
         WritesItsOwn(t, C, D)
  PROVE  Held(t, D)'
<1> USE UsersAre
<1>1. Own(D, Live')
  BY DEF Shape
<1>2. ASSUME NEW u \in Users, u \notin {Pend, Table}, NEW b, In(b, D[u]) PROVE holds'[b] = holds[b]
  <2>1. b \in Live' /\ ~In(b, D[Table]) /\ ~In(b, D[Pend])
    BY <1>1, <1>2, OneChain
  <2> QED
    BY <2>1 DEF WritesItsOwn
<1>3. ASSUME NEW b, In(b, D[Table]) PROVE holds'[b] = "table"
  <2>1. b \in Live' /\ ~In(b, D[Pend])
    BY <1>1, <1>3, OneChain
  <2> QED
    BY <1>3, <2>1 DEF HeldBefore, WritesItsOwn
<1>4. \A f \in Files : \A b : In(b, D[File(f)]) => holds'[b] = f
  BY <1>2 DEF HeldBefore
<1>5. \A b : In(b, D[Fixed]) => holds'[b] = "system"
  BY <1>2 DEF HeldBefore
<1>6. \A b : In(b, D[New]) => holds'[b] = reg'[t].file
  BY <1>2 DEF HeldBefore, WritesItsOwn
<1> QED
  BY <1>3, <1>4, <1>5, <1>6 DEF Held, WritesItsOwn

-----------------------------------------------------------------------------
(* The steps, one kind after the other.  A step that begins an operation   *)
(* writes no block.                                                        *)
LEMMA BeginHeld ==
  ASSUME NEW t, Threads = {t}, Types, NEW C, Shape(t, C), NEW D, Shape(t, D)',
         HeldBefore(t, C, D), fault' = "none", RBegin(t)
  PROVE  Held(t, D)'
<1>1. /\ pc[t] = "idle" /\ holds' = holds /\ sb' = sb
      /\ pc'[t] \in {"idle", "alloc", "free"}
  <2>1. t \in Threads /\ pc \in [Threads -> Steps]
    BY Basics DEF Types
  <2>2. /\ pc[t] = "idle" /\ holds' = holds /\ sb' = sb
        /\ pc' = pc \/ \E step \in {"idle", "alloc", "free"} : pc' = [pc EXCEPT ![t] = step]
    BY Zenon DEF RBegin, Mknod, Unlink, Grow, Shrink, At, Goto, Fails
  <2> QED
    BY <2>1, <2>2
<1>2. C[New] = <<>> /\ C[Pend] = <<>>
  BY <1>1 DEF Shape, AtWork
<1>3. WritesItsOwn(t, C, D)
  BY <1>1, <1>2 DEF WritesItsOwn
<1> QED
  BY <1>3, StillHeld

(* A new block is fetched for the file. *)
LEMMA TakeHeld ==
  ASSUME NEW t, Threads = {t}, Types, NEW C, Shape(t, C), NEW D, Shape(t, D)',
         HeldBefore(t, C, D), Take(t), Holding({NewBlock}, reg[t].file)
  PROVE  Held(t, D)'
<1>1. /\ t \in Threads /\ reg \in [Threads -> Locals] /\ pc \in [Threads -> Steps]
  BY DEF Types
<1>2. PICK n : n = NewBlock
  OBVIOUS
<1>3. /\ n \in Blocks /\ n \in Nat
      /\ reg' = [reg EXCEPT ![t] = [reg[t] EXCEPT !.new = n]] /\ sb' = sb
      /\ next_alloc' = next_alloc
      /\ freed' = freed \ {n}
      /\ pc'[t] = IF freed = {} THEN "advance" ELSE "place"
      /\ holds' = [b \in Blocks |-> IF b \in {n} THEN reg[t].file ELSE holds[b]]
  BY <1>1, <1>2, NewBlockIs, FatAssumption DEF Take, Set, Goto, Holding, Blocks
<1>4. reg'[t].new = n /\ reg'[t].file = reg[t].file
  BY <1>1, <1>3 DEF Locals
<1>5. \A b \in Live' : holds'[b] = holds[b] \/ In(b, D[Pend])
  <2> SUFFICES ASSUME NEW b \in Live', b = n PROVE In(b, D[Pend])
    BY <1>3 DEF Live
  <2>1. freed # {}
    <3> SUFFICES ASSUME freed = {} PROVE FALSE
      OBVIOUS
    <3>1. n = next_alloc
      BY <1>2, NewBlockIs
    <3> QED
      BY <1>3, <3>1, Basics DEF Live
  <2>2. D[Pend] = <<n>>
    BY <1>3, <1>4, <2>1 DEF Shape, AtWork
  <2> QED
    BY <2>2 DEF In
<1>6. holds'[n] = reg[t].file
  BY <1>3
<1>7. WritesItsOwn(t, C, D)
  BY <1>3, <1>4, <1>5, <1>6 DEF WritesItsOwn
<1> QED
  BY <1>7, StillHeld

(* A new block is fetched for the table. *)
LEMMA ExpandHeld ==
  ASSUME NEW t, Threads = {t}, Types, NEW C, Shape(t, C), Held(t, C), NEW D, Shape(t, D)',
         HeldBefore(t, C, D), Expand(t), Holding({NewBlock}, "table")
  PROVE  Held(t, D)'
<1> USE UsersAre
<1>1. PICK n : n = NewBlock
  OBVIOUS
<1>2. /\ n \in Blocks /\ n \notin Live
      /\ pc[t] = "place" /\ reg' = reg /\ pc' = pc
      /\ sb' = Grown
      /\ holds' = [b \in Blocks |-> IF b \in {n} THEN "table" ELSE holds[b]]
  BY <1>1, NewBlockIs, FatAssumption DEF Expand, At, Holding, Blocks
<1>3. holds'[n] = "table" /\ Live' \subseteq Blocks
  BY <1>2 DEF Live
<1>4. In(n, D[Table])
  <2>1. sb'.fat_end = n
    BY <1>1, <1>2 DEF Grown, Types
  <2>2. D[Table] # <<>> /\ D[Table][Len(D[Table])] = n /\ Own(D, Live')
    BY <2>1 DEF Shape, SystemChains, TableShape
  <2>3. Len(D[Table]) \in Nat /\ Len(D[Table]) # 0
    BY <2>2, OwnFacts
  <2> QED
    BY <2>2, <2>3 DEF In
<1>5. \A b \in Live' : holds'[b] = holds[b] \/ (holds'[b] = "table" /\ In(b, D[Table]))
  BY <1>2, <1>3, <1>4
<1>6. reg[t].new # n /\ reg[t].new \in Blocks
  <2>1. C[Pend] = <<reg[t].new>>
    BY <1>2 DEF Shape, AtWork
  <2>2. 1 \in 1..Len(C[Pend]) /\ C[Pend][1] = reg[t].new
    BY <2>1
  <2>3. reg[t].new \in Live
    BY <2>2, Basics
  <2> QED
    BY <1>2, <2>3 DEF Live
<1>7. holds'[reg'[t].new] = reg'[t].file
  BY <1>2, <1>6 DEF Held
<1>8. WritesItsOwn(t, C, D)
  BY <1>1, <1>2, <1>3, <1>5, <1>7 DEF WritesItsOwn
<1> QED
  BY <1>8, StillHeld

(* The steps that write no block. *)
LEMMA PlainHeld ==
  ASSUME NEW t, Threads = {t}, Types, NEW C, Shape(t, C), Held(t, C), NEW D, Shape(t, D)',
         HeldBefore(t, C, D),
         Advance(t) \/ PlaceFirst(t) \/ PlaceNext(t) \/ Save(t), UNCHANGED holds
  PROVE  Held(t, D)'
<1>1. t \in Threads /\ reg \in [Threads -> Locals] /\ pc \in [Threads -> Steps]
  BY DEF Types
<1>2. CASE Advance(t)
  <2>1. pc[t] = "advance" /\ reg' = reg /\ sb' = sb
    BY <1>2 DEF Advance, At
  <2>2. WritesItsOwn(t, C, D)
    BY <2>1 DEF WritesItsOwn, Held
  <2> QED
    BY <2>2, StillHeld
<1>3. CASE PlaceFirst(t) \/ PlaceNext(t)
  <2>1. PICK r : r = reg[t]
    OBVIOUS
  <2>2. PICK q \in {[r EXCEPT !.start = r.new, !.last = r.new, !.todo = @ - 1],
                    [r EXCEPT !.last = r.new, !.todo = @ - 1]} :
          /\ reg' = [reg EXCEPT ![t] = q]
          /\ pc' = [pc EXCEPT ![t] = "alloc"]
          /\ sb' = sb
    BY <1>3, <2>1 DEF PlaceFirst, PlaceNext, Goto, Set
  <2>3. q.file = r.file /\ r.file = reg[t].file
    BY <1>1, <2>1 DEF Locals
  <2>4. pc'[t] = "alloc" /\ sb' = sb /\ reg'[t].file = reg[t].file
    BY <1>1, <2>2, <2>3
  <2>5. WritesItsOwn(t, C, D)
    BY <2>4 DEF WritesItsOwn
  <2> QED
    BY <2>5, StillHeld
<1>4. CASE Save(t)
  <2>1. pc[t] = "save" /\ pc'[t] = "idle" /\ sb' = sb
    BY <1>1, <1>4 DEF Save, Goto, At
  <2>2. C[New] = <<>> /\ C[Pend] = <<>>
    BY <2>1 DEF Shape, AtWork
  <2>3. WritesItsOwn(t, C, D)
    BY <2>1, <2>2 DEF WritesItsOwn
  <2> QED
    BY <2>3, StillHeld
<1> QED
  BY <1>2, <1>3, <1>4

(* A block is given back, and with it those that may go from the end: none *)
(* of them is in use any more.                                             *)
LEMMA FreeNextHeld ==
  ASSUME NEW t, Threads = {t}, Types, NEW C, Shape(t, C), NEW D, Shape(t, D)',
         HeldBefore(t, C, D), FreeNext(t), fault' = "none",
         Holding({reg[t].cur} \cup next_alloc'..(next_alloc - 1), "nothing")
  PROVE  Held(t, D)'
<1>1. PICK c : c = reg[t].cur
  OBVIOUS
<1>2. PICK m, n, f :
        /\ m \in 0..next_alloc
        /\ n = IF c = next_alloc - 1 THEN next_alloc - 1 ELSE next_alloc
        /\ f = IF c = next_alloc - 1 THEN freed ELSE freed \cup {c}
        /\ CleanedTo(n, f, m) /\ next_alloc' = m /\ freed' = f \ (m..(n - 1))
  BY <1>1 DEF FreeNext, Fails
<1>3. /\ sb' = [sb EXCEPT !.free_blocks = @ + 1]
      /\ reg' = [reg EXCEPT ![t] = [reg[t] EXCEPT !.cur = fat[c]]]
      /\ pc[t] = "free" /\ pc' = pc
  BY <1>1 DEF FreeNext, Fails, Set, At
<1>4. sb'.fat_size = sb.fat_size
  BY <1>3 DEF Types
<1>5. C[New] = <<>> /\ C[Pend] = <<>>
  BY <1>3 DEF Shape, AtWork
<1>6. holds' = [b \in Blocks |-> IF b \in {c} \cup m..(next_alloc - 1) THEN "nothing" ELSE holds[b]]
  BY <1>1, <1>2 DEF Holding
<1>7. next_alloc \in Nat /\ Live' = {b \in Blocks : b < m /\ b \notin freed'}
  BY <1>2, Basics DEF Live
<1>8. \A b \in Live' : holds'[b] = holds[b]
  <2> SUFFICES ASSUME NEW b \in Blocks, b < m, b \notin freed'
               PROVE  b \notin {c} \cup m..(next_alloc - 1)
    BY <1>6, <1>7
  <2>1. b \in Nat
    BY FatAssumption DEF Blocks
  <2>2. b # c
    <3> SUFFICES ASSUME b = c PROVE FALSE
      OBVIOUS
    <3>1. CASE c = next_alloc - 1
      BY <1>2, <1>7, <2>1, <3>1 DEF CleanedTo
    <3>2. CASE c # next_alloc - 1
      <4>1. b \in f /\ ~(m <= b)
        BY <1>2, <2>1, <3>2
      <4> QED
        BY <1>2, <4>1
    <3> QED
      BY <3>1, <3>2
  <2> QED
    BY <1>2, <1>7, <2>1, <2>2
<1>9. WritesItsOwn(t, C, D)
  BY <1>3, <1>4, <1>5, <1>8 DEF WritesItsOwn
<1> QED
  BY <1>9, StillHeld

(* What write_fat writes to is the table's chain. *)
LEMMA WritesTable ==
  ASSUME NEW t, Threads = {t}, Types', NEW D, Shape(t, D)',
         NEW w, w.table = fat', w.sb = sb'
  PROVE  /\ TableChain(w) = D[Table]
         /\ \A b \in AllBlocks(w) : In(b, D[Table])
<1> USE UsersAre
<1>1. /\ Own(D, Live') /\ D[Fixed] = <<0, Root>> /\ Whole(fat', D[Table])
      /\ D[Table] # <<>> /\ D[Table][1] = sb'.fat_start
      /\ sb'.fat_size \in Nat /\ fat' \in [0..(sb'.fat_size - 1) -> Blocks \cup {Cut}]
      /\ Live' \subseteq Blocks
  BY DEF Shape, SystemChains, TableShape, Types, Live
<1>2. /\ D[Table] \in Seq(Live') /\ Len(D[Table]) \in Nat
      /\ \A i \in 1..Len(D[Table]) : D[Table][i] \in Live'
      /\ \A i, j \in 1..Len(D[Table]) : D[Table][i] = D[Table][j] => i = j
  BY <1>1, OwnFacts
<1>3. D[Table] \in Seq(Blocks)
  BY <1>1, <1>2, SeqMonotonic
<1>4. \A i \in 1..Len(D[Table]) : D[Table][i] # FAT_NULL
  <2> SUFFICES ASSUME NEW i \in 1..Len(D[Table]), D[Table][i] = 0 PROVE FALSE
    BY DEF FAT_NULL
  <2>1. 1 \in 1..Len(D[Fixed]) /\ D[Fixed][1] = D[Table][i] /\ Table # Fixed
    BY <1>1
  <2> QED
    BY <1>1, <2>1, OwnOnce
<1>5. ChainIn(fat', First(D[Table])) = D[Table]
  <2>1. PICK table, size : table = fat' /\ size = sb'.fat_size
    OBVIOUS
  <2>2. ChainIn(table, First(D[Table])) = D[Table]
    BY <1>1, <1>2, <1>3, <1>4, <2>1, ChainIs
  <2> QED
    BY <2>1, <2>2
<1>6. TableChain(w) = D[Table]
  BY <1>1, <1>5 DEF TableChain, First
<1>7. PICK T : T = D[Table]
  OBVIOUS
<1>8. T = [i \in 1..Len(T) |-> T[i]] /\ DOMAIN T = 1..Len(T)
  BY <1>2, <1>7, LenProperties
<1>9. \A b \in AllBlocks(w) : In(b, T)
  BY <1>6, <1>7, <1>8 DEF AllBlocks, TableBlocks, In
<1> QED
  BY <1>6, <1>7, <1>9

(* The table is written. *)
LEMMA TableHeld ==
  ASSUME NEW t, Threads = {t}, Types, NEW C, Shape(t, C), Types', NEW D, Shape(t, D)',
         HeldBefore(t, C, D), EndChain(t) \/ Attach(t) \/ FreeDone(t), fault' = "none",
         Holding(UNION {AllBlocks(w) : w \in Pending(t)}, "table")
  PROVE  Held(t, D)'
<1>1. t \in Threads /\ reg \in [Threads -> Locals] /\ pc \in [Threads -> Steps]
  BY DEF Types
<1>2. PICK r : r = reg[t]
  OBVIOUS
<1>3. /\ pc[t] \in {"alloc", "attach", "free"} /\ pc'[t] \in {"attach", "save"}
      /\ reg'[t].file = reg[t].file /\ sb'.fat_size = sb.fat_size
      /\ \A w \in Pending(t) : w.table = fat' /\ w.sb = sb'
  <2>1. CASE EndChain(t)
    <3>1. /\ pc[t] = "alloc" /\ reg' = reg /\ pc' = [pc EXCEPT ![t] = "attach"]
          /\ fat' = Ended(r) /\ sb' = Charged(r)
      BY <1>2, <2>1 DEF EndChain, Fails, At, Goto
    <3>2. Pending(t) \subseteq {[table |-> Ended(r), sb |-> Charged(r), super |-> "before"]}
      BY <1>2, <3>1 DEF Pending
    <3>3. sb'.fat_size = sb.fat_size
      BY <3>1 DEF Charged, Types
    <3>4. \A w \in Pending(t) : w.table = fat' /\ w.sb = sb'
      BY <3>1, <3>2
    <3> QED
      BY <1>1, <3>1, <3>3, <3>4
  <2>2. CASE Attach(t)
    <3>1. /\ pc[t] = "attach" /\ pc' = [pc EXCEPT ![t] = "save"] /\ sb' = sb
      BY <2>2 DEF Attach, Fails, At, Goto
    <3>2. CASE r.de.start = FAT_NULL
      <4>1. Pending(t) = {}
        BY <1>2, <3>1, <3>2 DEF Pending
      <4>2. reg' = [reg EXCEPT ![t] = [r EXCEPT !.de.start = r.start]]
        BY <1>2, <2>2, <3>2 DEF Attach, Fails, Set
      <4>3. reg'[t].file = reg[t].file
        BY <1>1, <1>2, <4>2 DEF Locals
      <4> QED
        BY <1>1, <3>1, <4>1, <4>3
    <3>3. CASE r.de.start # FAT_NULL
      <4>1. reg' = reg /\ fat' = Linked(r)
        BY <1>2, <2>2, <3>3 DEF Attach, Fails
      <4>2. Pending(t) \subseteq {[table |-> Linked(r), sb |-> sb, super |-> "not"]}
        BY <1>2, <3>1, <3>3 DEF Pending
      <4>3. \A w \in Pending(t) : w.table = fat' /\ w.sb = sb'
        BY <3>1, <4>1, <4>2
      <4> QED
        BY <1>1, <3>1, <4>1, <4>3
    <3> QED
      BY <3>2, <3>3
  <2>3. CASE FreeDone(t)
    <3>1. /\ pc[t] = "free" /\ reg' = reg /\ pc' = [pc EXCEPT ![t] = "save"]
          /\ fat' = fat /\ sb' = sb
      BY <2>3 DEF FreeDone, At, Goto
    <3>2. Pending(t) \subseteq {[table |-> fat, sb |-> sb, super |-> "after"]}
      BY <3>1 DEF Pending
    <3>3. \A w \in Pending(t) : w.table = fat' /\ w.sb = sb'
      BY <3>1, <3>2
    <3> QED
      BY <1>1, <3>1, <3>3
  <2> QED
    BY <2>1, <2>2, <2>3
<1>4. PICK W : W = UNION {AllBlocks(w) : w \in Pending(t)}
  OBVIOUS
<1>5. \A b \in W : In(b, D[Table])
  <2>1. \A w \in Pending(t) : \A b \in AllBlocks(w) : In(b, D[Table])
    BY <1>3, WritesTable
  <2> QED
    BY <1>4, <2>1
<1>6. holds' = [b \in Blocks |-> IF b \in W THEN "table" ELSE holds[b]]
  BY <1>4 DEF Holding
<1>7. \A b \in Live' : holds'[b] = holds[b] \/ (holds'[b] = "table" /\ In(b, D[Table]))
  BY <1>5, <1>6 DEF Live
<1>8. WritesItsOwn(t, C, D)
  BY <1>3, <1>7 DEF WritesItsOwn
<1> QED
  BY <1>8, StillHeld

(* An operation goes on. *)
LEMMA OperationHeld ==
  ASSUME NEW t, Threads = {t}, Running(t), RBegin(t) \/ RStep(t)
  PROVE  Running(t)'
<1>1. Next /\ fault = "none"
  <2>1. CASE RBegin(t)
    BY <2>1 DEF RBegin, Next, Begin, Mknod, Unlink, Grow, Shrink, At
  <2>2. CASE RStep(t)
    BY <2>2 DEF RStep, Next, Step, Take, Advance, PlaceFirst, Expand, PlaceNext, EndChain, Attach,
       FreeNext, FreeDone, Save, At
  <2> QED
    BY <2>1, <2>2
<1>2. PICK C : Shape(t, C) /\ Held(t, C)
  BY <1>1 DEF Running
<1>3. Types
  BY DEF Running
<1>4. CASE Stops(t)
  BY <1>3, <1>4 DEF Stops, Running, Types
<1>5. CASE Follows(t, C)
  <2>1. PICK D : Shape(t, D)' /\ Passes(t, C, D)
    BY <1>5 DEF Follows
  <2>2. Types' /\ fault' = "none"
    BY <1>5 DEF Follows
  <2>3. HeldBefore(t, C, D)
    BY <1>2, <1>3, <2>1, WasHeld
  <2>4. Held(t, D)'
    <3>1. CASE RBegin(t)
      BY <1>2, <1>3, <2>1, <2>2, <2>3, <3>1, BeginHeld
    <3>2. CASE Take(t) /\ Holding({NewBlock}, reg[t].file)
      BY <1>2, <1>3, <2>1, <2>3, <3>2, TakeHeld
    <3>3. CASE Expand(t) /\ Holding({NewBlock}, "table")
      BY <1>2, <1>3, <2>1, <2>3, <3>3, ExpandHeld
    <3>4. CASE (Advance(t) \/ PlaceFirst(t) \/ PlaceNext(t) \/ Save(t)) /\ UNCHANGED holds
      BY <1>2, <1>3, <2>1, <2>3, <3>4, PlainHeld
    <3>5. CASE FreeNext(t) /\ Holding({reg[t].cur} \cup next_alloc'..(next_alloc - 1), "nothing")
      BY <1>2, <1>3, <2>1, <2>2, <2>3, <3>5, FreeNextHeld
    <3>6. CASE /\ EndChain(t) \/ Attach(t) \/ FreeDone(t)
               /\ Holding(UNION {AllBlocks(w) : w \in Pending(t)}, "table")
      BY <1>2, <1>3, <2>1, <2>2, <2>3, <3>6, TableHeld
    <3> QED
      BY <3>1, <3>2, <3>3, <3>4, <3>5, <3>6, Zenon DEF RStep
  <2> QED
    BY <2>1, <2>2, <2>4 DEF Running
<1> QED
  BY <1>1, <1>2, <1>3, <1>4, <1>5, EachStep

(* Where nothing of Fat's changes, the chains stay. *)
LEMMA NothingMoves ==
  ASSUME NEW t, Threads = {t}, Types, UNCHANGED vars
  PROVE  Types' /\ \A C : Shape(t, C) => Shape(t, C)'
<1>1. UNCHANGED <<fat, sb, next_alloc, freed, entry, stored, pc, reg, fault>>
  BY DEF vars
<1>2. Live' = Live /\ Types'
  BY <1>1 DEF Live, Types
<1>3. ASSUME NEW C, Shape(t, C) PROVE Shape(t, C)'
  <2>1. Own(C, Live') /\ FileChains(t, C)' /\ SystemChains(C)' /\ Allocator(t, C[New])'
    BY <1>1, <1>2, <1>3 DEF Shape, FileChains, Coming, SystemChains, TableShape, Allocator
  <2>2. AtWork(t, C)' /\ Counted(t, C)' /\ Written(t)'
    BY <1>1, <1>2, <1>3 DEF Shape, AtWork, Allocating, Freeing, Counted, Written
  <2> QED
    BY <2>1, <2>2 DEF Shape
<1> QED
  BY <1>2, <1>3

(* Data is written to a block of a file. *)
LEMMA OverwriteHeld ==
  ASSUME NEW t, Threads = {t}, Running(t), NEW f \in Files, Overwrite(t, f)
  PROVE  Running(t)'
<1>1. /\ fault = "none" /\ pc[t] = "idle" /\ Exists(f)
      /\ UNCHANGED <<fat, sb, next_alloc, freed, pc, reg, entry, stored, fault>>
  BY DEF Overwrite, At, process
<1>2. PICK C : Shape(t, C) /\ Held(t, C)
  BY <1>1 DEF Running
<1>3. Types
  BY DEF Running
<1>4. Chain(entry[f].start) = C[File(f)]
  <2>1. Coming(t, f) = entry[f]
    BY <1>1 DEF Coming
  <2> QED
    BY <1>2, <1>3, <2>1, FileIs
<1>5. PICK b \in ToSet(C[File(f)]) : Holding({b}, f)
  BY <1>1, <1>4 DEF Overwrite, Blocked
<1>6. In(b, C[File(f)])
  <2>1. C[File(f)] \in Seq(Blocks)
    BY <1>2, <1>3, Basics, UsersAre
  <2>2. DOMAIN C[File(f)] = 1..Len(C[File(f)])
    BY <2>1, LenProperties
  <2> QED
    BY <1>5, <2>2 DEF ToSet, In
<1>7. \A c \in Blocks : holds'[c] = holds[c]
  BY <1>2, <1>5, <1>6 DEF Held, Holding
<1>8. ASSUME NEW u \in Users, NEW c, In(c, C[u]) PROVE holds'[c] = holds[c]
  <2>1. \A i \in 1..Len(C[u]) : C[u][i] \in Live
    BY <1>2, <1>3, Basics
  <2>2. c \in Live /\ Live \subseteq Blocks
    BY <1>8, <2>1 DEF In, Live
  <2> QED
    BY <1>7, <2>2
<1>9. pc[t] \notin {"advance", "place"}
  BY <1>1
<1>10. Held(t, C)'
  BY <1>1, <1>2, <1>8, <1>9, UsersAre DEF Held
<1>11. UNCHANGED vars
  BY <1>1 DEF vars
<1> QED
  BY <1>1, <1>2, <1>3, <1>10, <1>11, NothingMoves DEF Running

-----------------------------------------------------------------------------
(* Unmounting leaves the table, and the allocator's state beside it. *)
LEMMA UnmountRests ==
  ASSUME NEW t, Threads = {t}, Running(t), Unmount
  PROVE  \E table, C : Rests(table, C)'
<1>1. /\ fault = "none" /\ pc[t] = "idle" /\ Types
      /\ UNCHANGED <<entry, stored, holds>>
      /\ saved' = [next_alloc |-> next_alloc, freed |-> freed]
  BY DEF Unmount, Quiet, Running
<1>2. PICK C : Shape(t, C) /\ Held(t, C)
  BY <1>1 DEF Running
<1>3. PICK table : table = fat
  OBVIOUS
<1>4. stored = [part |-> write_fat(table, sb), sb |-> sb]
  BY <1>1, <1>2, <1>3 DEF Shape, Written
<1>5. stored'.sb = sb /\ stored' = [part |-> write_fat(table, sb), sb |-> sb]
  BY <1>1, <1>4
<1>6. saved'.next_alloc = next_alloc /\ saved'.freed = freed /\ LiveThen' = Live
  BY <1>1 DEF LiveThen, Live
<1>7. C[New] = <<>> /\ C[Pend] = <<>> /\ C[Rest] = <<>>
  BY <1>1, <1>2 DEF Shape, AtWork
<1>8. /\ \A b \in freed : b < next_alloc /\ b < sb.fat_size
      /\ next_alloc - 1 \notin freed /\ next_alloc <= sb.fat_size
  <2>1. ~(C[New] # <<>> /\ C[New][1] >= sb.fat_size) /\ ~(pc[t] = "place" /\ reg[t].new >= sb.fat_size)
    BY <1>1, <1>7
  <2>2. sb.fat_size \in Nat
    BY <1>1 DEF Types
  <2> QED
    BY <1>2, <2>1, <2>2 DEF Shape, Allocator
<1>9. \A f \in Files : Whole(table, C[File(f)]) /\ Matches(C[File(f)], entry[f])
  BY <1>1, <1>2, <1>3 DEF Shape, FileChains, Coming
<1>10. /\ C[Fixed] = <<0, Root>> /\ Whole(table, C[Table])
       /\ C[Table] # <<>> /\ C[Table][1] = sb.fat_start /\ C[Table][Len(C[Table])] = sb.fat_end
       /\ sb.fat_size = FAT_PER_BLOCK * Len(C[Table])
       /\ \A k \in 1..Len(C[Table]) : C[Table][k] < k * FAT_PER_BLOCK
  BY <1>2, <1>3 DEF Shape, SystemChains, TableShape
<1>11. sb.free_blocks = sb.fat_size - Cardinality(Live)
  <2>1. sb.fat_size \in Int /\ sb.free_blocks \in Int /\ Cardinality(Live) \in Int
    BY <1>1, LiveCounts DEF Types
  <2>2. Len(C[New]) = 0 /\ Len(C[Pend]) = 0
    BY <1>7
  <2> QED
    BY <1>1, <1>2, <2>1, <2>2 DEF Shape, Counted
<1>12. Own(C, Live)
  BY <1>2 DEF Shape
<1>13. Rests(table, C)'
  <2>1. PICK s : s = sb
    OBVIOUS
  <2> QED
    BY <1>1, <1>2, <1>3, <1>5, <1>6, <1>7, <1>8, <1>9, <1>10, <1>11, <1>12 DEF Rests, Held, Types
<1> QED
  BY <1>13

(* The chain of the table's blocks, on disk. *)
LEMMA TableRests ==
  ASSUME NEW table, NEW C, Rests(table, C)
  PROVE  Parted(C[Table], stored.sb.fat_size)
<1> USE UsersAre
<1>1. PICK T, n : T = C[Table] /\ n = stored.sb.fat_size
  OBVIOUS
<1>2. /\ Own(C, LiveThen) /\ C[Fixed] = <<0, Root>>
      /\ T # <<>> /\ n = FAT_PER_BLOCK * Len(T)
      /\ \A k \in 1..Len(T) : T[k] < k * FAT_PER_BLOCK
  BY <1>1 DEF Rests
<1>3. /\ T \in Seq(LiveThen) /\ \A i, j \in 1..Len(T) : T[i] = T[j] => i = j
  <2>1. Table \in Users /\ Own(C, LiveThen)
    BY <1>2
  <2>2. C[Table] \in Seq(LiveThen)
    BY <2>1 DEF Own
  <2>3. ASSUME NEW i \in 1..Len(C[Table]), NEW j \in 1..Len(C[Table]), C[Table][i] = C[Table][j]
        PROVE  i = j
    BY <2>1, <2>3, OwnOnce, ZenonT(30)
  <2> QED
    BY <1>1, <2>2, <2>3
<1>4. T \in Seq(Blocks)
  <2>1. LiveThen \subseteq Blocks
    BY DEF LiveThen
  <2> QED
    BY <1>3, <2>1, SeqMonotonic
<1>5. \A i \in 1..Len(T) : T[i] # FAT_NULL
  <2> SUFFICES ASSUME NEW i \in 1..Len(T), T[i] = 0 PROVE FALSE
    BY DEF FAT_NULL
  <2>1. 1 \in 1..Len(C[Fixed]) /\ C[Fixed][1] = C[Table][i] /\ Table # Fixed /\ i \in 1..Len(C[Table])
    BY <1>1, <1>2
  <2> QED
    BY <1>2, <2>1, OwnOnce
<1>6. Parted(T, n)
  BY <1>2, <1>3, <1>4, <1>5, Zenon DEF Parted
<1> QED
  BY <1>1, <1>6

(* Mounting reads it all back. *)
LEMMA LoadHeld ==
  ASSUME NEW t, Threads = {t}, ~up, CleanInv(t), clean, Load, UNCHANGED <<pc, reg>>
  PROVE  Running(t)'
<1> USE UsersAre
<1>1. PICK table, C : Rests(table, C)
  BY DEF CleanInv
<1>2. PICK s : s = stored.sb
  OBVIOUS
<1>3. /\ s \in [free_blocks : Int, fat_size : Nat, fat_start : Blocks, fat_end : Blocks]
      /\ table \in [0..(s.fat_size - 1) -> Blocks \cup {Cut}]
      /\ stored = [part |-> write_fat(table, s), sb |-> s]
      /\ s.fat_size \in Nat
  BY <1>1, <1>2 DEF Rests
<1>4. /\ Own(C, LiveThen) /\ C[Fixed] = <<0, Root>> /\ Whole(table, C[Table])
      /\ C[Table] # <<>> /\ C[Table][1] = s.fat_start /\ C[Table][Len(C[Table])] = s.fat_end
      /\ s.fat_size = FAT_PER_BLOCK * Len(C[Table])
      /\ \A k \in 1..Len(C[Table]) : C[Table][k] < k * FAT_PER_BLOCK
  BY <1>1, <1>2 DEF Rests
<1>5. PICK T : T = C[Table]
  OBVIOUS
<1>6. Parted(T, s.fat_size)
  BY <1>1, <1>2, <1>5, TableRests
<1>7. /\ Parted(T, stored.sb.fat_size) /\ Reads(T, table) /\ read_fat = table
  BY <1>3, <1>4, <1>5, <1>6, ReadsBack
<1>8. \A b \in ReadParts : holds[b] = "table"
  <2>1. DOMAIN table_blocks = 1..Len(T) /\ \A k \in 1..Len(T) : table_blocks[k] = T[k]
    BY <1>7, PartsRead
  <2>2. \A b \in ReadParts : In(b, T)
    BY <2>1 DEF ReadParts, ToSet, In
  <2> QED
    BY <1>1, <1>5, <2>2 DEF Rests
<1>9. /\ pc = [u \in Threads |-> "idle"] /\ reg = [u \in Threads |-> NoLocals]
      /\ fault = "none" /\ entry \in [Files -> Entries]
  BY DEF CleanInv
<1>10. /\ next_alloc' = saved.next_alloc /\ freed' = saved.freed /\ sb' = s /\ fat' = table
       /\ fault' = "none"
       /\ UNCHANGED <<entry, stored, holds, pc, reg>>
  BY <1>2, <1>7, <1>8, <1>9 DEF Load
<1>11. Live' = LiveThen
  BY <1>10 DEF Live, LiveThen
<1>12. pc'[t] = "idle"
  BY <1>9, <1>10
<1>13. Types'
  <2>1. NoLocals \in Locals
    BY FatAssumption DEF NoEntry, Entries, NoLocals, Locals, FAT_NULL, Blocks
  <2>2. pc' \in [Threads -> Steps] /\ reg' \in [Threads -> Locals]
    BY <1>9, <1>10, <2>1 DEF Steps
  <2>3. next_alloc' \in 0..MaxBlocks /\ freed' \subseteq Blocks
    BY <1>1, <1>10 DEF Rests
  <2> QED
    BY <1>3, <1>9, <1>10, <2>2, <2>3 DEF Types
<1>14. C[New] = <<>> /\ C[Pend] = <<>> /\ C[Rest] = <<>>
  BY <1>1 DEF Rests
<1>15. FileChains(t, C)'
  BY <1>1, <1>10, <1>12 DEF FileChains, Coming, Rests
<1>16. SystemChains(C)'
  <2>1. Whole(table, C[Rest])
    BY <1>14 DEF Whole, Links, Ends
  <2> QED
    BY <1>4, <1>10, <2>1 DEF SystemChains, TableShape
<1>17. Allocator(t, C[New])'
  <2>1. /\ \A b \in saved.freed : b < saved.next_alloc /\ b < s.fat_size
        /\ saved.next_alloc - 1 \notin saved.freed /\ saved.next_alloc <= s.fat_size
    BY <1>1, <1>2 DEF Rests
  <2> QED
    BY <1>3, <1>10, <1>12, <1>14, <2>1 DEF Allocator
<1>18. AtWork(t, C)' /\ Written(t)'
  BY <1>3, <1>7, <1>10, <1>12, <1>14 DEF AtWork, Written
<1>19. Counted(t, C)'
  <2>1. s.free_blocks = s.fat_size - Cardinality(LiveThen)
    BY <1>1, <1>2 DEF Rests
  <2>2. s.fat_size \in Int /\ s.free_blocks \in Int /\ Len(C[New]) = 0 /\ Len(C[Pend]) = 0
    BY <1>3, <1>14
  <2>3. s.free_blocks = s.free_blocks + (0 + 0)
    BY <2>2
  <2> QED
    BY <1>10, <1>11, <1>12, <2>1, <2>2, <2>3 DEF Counted
<1>20. Shape(t, C)'
  BY <1>4, <1>11, <1>15, <1>16, <1>17, <1>18, <1>19 DEF Shape
<1>21. Held(t, C)'
  <2>1. \A b : ~In(b, C[New])
    BY <1>14 DEF In
  <2> QED
    BY <1>1, <1>10, <1>12, <2>1 DEF Held, Rests
<1> QED
  BY <1>10, <1>13, <1>20, <1>21 DEF Running

(* A new file system holds its own blocks only. *)
LEMMA FreshHeld ==
  ASSUME NEW t, Threads = {t}
  PROVE  Init /\ (\E old : holds = Formatted(old)) => Running(t)
<1> USE UsersAre
<1> SUFFICES ASSUME Init, NEW old, holds = Formatted(old) PROVE Running(t)
  OBVIOUS
<1>1. PICK C : Shape(t, C)
  BY StartsWell
<1>2. Types
  BY StartsWell
<1>3. /\ fault = "none" /\ next_alloc = 3 /\ freed = {} /\ pc[t] = "idle" /\ sb.fat_start = 1
  BY DEF Init
<1>4. /\ C[Fixed] = <<0, Root>> /\ C[Table] # <<>> /\ C[Table][1] = 1 /\ C[New] = <<>>
      /\ Own(C, Live)
  BY <1>1, <1>3 DEF Shape, SystemChains, TableShape, AtWork
<1>5. \A b \in Live : b \in {0, 1, 2}
  BY <1>3, FatAssumption DEF Live, Blocks
<1>6. In(0, C[Fixed]) /\ In(2, C[Fixed]) /\ In(1, C[Table])
  <2>1. 1 \in 1..Len(C[Fixed]) /\ 2 \in 1..Len(C[Fixed]) /\ C[Fixed][1] = 0 /\ C[Fixed][2] = 2
    BY <1>4 DEF Root
  <2>2. 1 \in 1..Len(C[Table])
    BY <1>1, <1>2, <1>4, Basics
  <2> QED
    BY <1>4, <2>1, <2>2 DEF In
<1>7. ASSUME NEW u \in Users, NEW b, In(b, C[u])
      PROVE  (b \in {0, 2} /\ u = Fixed) \/ (b = 1 /\ u = Table)
  <2>1. b \in Live
    BY <1>4, <1>7, OneChain
  <2> QED
    BY <1>4, <1>5, <1>6, <1>7, <2>1, OneChain
<1>8. holds[0] = "system" /\ holds[2] = "system" /\ holds[1] = "table"
  BY FatAssumption DEF Formatted, Blocks, Root
<1>9. Held(t, C)
  <2>1. \A f \in Files : \A b : ~In(b, C[File(f)])
    BY <1>7
  <2>2. \A b : In(b, C[Table]) => b = 1
    BY <1>7
  <2>3. \A b : In(b, C[Fixed]) => b \in {0, 2}
    BY <1>7
  <2>4. \A b : ~In(b, C[New])
    BY <1>7
  <2>5. \A b : b \in {0, 2} => holds[b] = "system"
    BY <1>8
  <2>6. pc[t] \notin {"advance", "place"}
    BY <1>3
  <2>7. \A b : In(b, C[Table]) => holds[b] = "table"
    BY <1>8, <2>2
  <2>8. \A b : In(b, C[Fixed]) => holds[b] = "system"
    BY <2>3, <2>5
  <2> QED
    BY <2>1, <2>4, <2>6, <2>7, <2>8, Zenon DEF Held
<1> QED
  BY <1>1, <1>2, <1>3, <1>9 DEF Running

LEMMA FreshHeldNext ==
  ASSUME NEW t, Threads = {t}
  PROVE  (Init /\ \E old : holds = Formatted(old))' => Running(t)'
BY FreshHeld, PTL

(* Making a file system anew starts as Fat does. *)
LEMMA FormatHeld ==
  ASSUME NEW t, Threads = {t}, ~up, CleanInv(t), Format, UNCHANGED <<pc, reg>>
  PROVE  Running(t)'
<1>1. /\ pc = [u \in Threads |-> "idle"] /\ reg = [u \in Threads |-> NoLocals] /\ fault = "none"
  BY DEF CleanInv
<1>2. Init' /\ holds' = Formatted(holds)
  BY <1>1 DEF Format, Init
<1> QED
  BY <1>2, FreshHeldNext

(* The invariant of the time before the first crash, and of every time     *)
(* from a new file system on.                                              *)
LEMMA CleanAlways ==
  ASSUME NEW t, Threads = {t}
  PROVE  RSpec => []CleanInv(t)
<1>1. RInit => CleanInv(t)
  BY FreshHeld DEF RInit, CleanInv
<1>2. CleanInv(t) /\ [RNext]_rvars => CleanInv(t)'
  <2> SUFFICES ASSUME CleanInv(t), [RNext]_rvars PROVE CleanInv(t)'
    OBVIOUS
  <2>1. CASE Mount
    <3>1. ~up /\ up' /\ UNCHANGED <<pc, reg>>
      BY <2>1 DEF Mount
    <3>2. CASE Format
      BY <3>1, <3>2, FormatHeld DEF CleanInv
    <3>3. CASE Load
      <4>1. clean' = clean
        BY <3>3 DEF Load
      <4> QED
        BY <3>1, <3>3, <4>1, LoadHeld DEF CleanInv
    <3> QED
      BY <2>1, <3>2, <3>3 DEF Mount
  <2>2. CASE Unmount
    <3>1. /\ up /\ ~up' /\ clean' = clean /\ entry' = entry /\ fault' = fault /\ fault = "none"
          /\ pc' = [u \in Threads |-> "idle"] /\ reg' = [u \in Threads |-> NoLocals]
          /\ saved' = [next_alloc |-> next_alloc, freed |-> freed]
      BY <2>2 DEF Unmount, Down, Quiet
    <3>2. CASE ~clean
      BY <3>1, <3>2 DEF CleanInv
    <3>3. CASE clean
      <4>1. Running(t)
        BY <3>1, <3>3 DEF CleanInv
      <4>2. saved' \in [next_alloc : 0..MaxBlocks, freed : SUBSET Blocks]
        BY <3>1, <4>1 DEF Running, Types
      <4>3. saved' # NoState
        BY <4>2, RestartAssumption
      <4>4. entry' \in [Files -> Entries]
        BY <3>1, <4>1 DEF Running, Types
      <4>5. \E table, C : Rests(table, C)'
        BY <2>2, <4>1, UnmountRests
      <4> QED
        BY <3>1, <4>3, <4>4, <4>5 DEF CleanInv
    <3> QED
      BY <3>2, <3>3
  <2>3. CASE Crash
    BY <2>3 DEF Crash, Down, CleanInv
  <2>4. CASE up /\ UNCHANGED <<up, clean>> /\ (RBegin(t) \/ RStep(t) \/ \E f \in Files : Overwrite(t, f))
    BY <2>4, OperationHeld, OverwriteHeld DEF CleanInv
  <2>5. CASE UNCHANGED rvars
    <3>1. UNCHANGED <<fat, sb, next_alloc, freed, pc, reg, entry, stored, fault, up, saved, holds, clean>>
      BY <2>5 DEF rvars, process
    <3>2. UNCHANGED vars
      BY <3>1 DEF vars
    <3>3. Running(t) => Running(t)'
      <4>1. \A C : Held(t, C) => Held(t, C)'
        BY <3>1 DEF Held
      <4> QED
        BY <3>1, <3>2, <4>1, NothingMoves DEF Running
    <3>4. ASSUME NEW table, NEW C, Rests(table, C) PROVE Rests(table, C)'
      <4>1. LiveThen' = LiveThen
        BY <3>1 DEF LiveThen
      <4> QED
        BY <3>1, <3>4, <4>1 DEF Rests
    <3>5. clean /\ ~up => (saved # NoState /\ entry \in [Files -> Entries] /\ \E table, C : Rests(table, C))'
      BY <3>1, <3>4, Zenon DEF CleanInv
    <3> QED
      BY <3>1, <3>3, <3>5, Zenon DEF CleanInv
  <2> QED
    BY <2>1, <2>2, <2>3, <2>4, <2>5 DEF RNext
<1> QED
  BY <1>1, <1>2, PTL DEF RSpec

(* As long as nothing has crashed, every block of a file holds what was    *)
(* written for it, through any number of unmounts and mounts.              *)
LEMMA QuietHeld ==
  ASSUME NEW t, Threads = {t}, CleanInv(t)
  PROVE  DataOwned /\ BrokenByCrashesOnly
<1>1. BrokenByCrashesOnly
  BY DEF CleanInv, Running, BrokenByCrashesOnly
<1>2. DataOwned
  <2> SUFFICES ASSUME up, clean, Quiet
               PROVE  /\ \A f \in Files : \A b \in ToSet(Blocked(f)) : holds[b] = f
                      /\ \A b \in ToSet(Chain(sb.fat_start)) : holds[b] = "table"
                      /\ holds[0] = "system" /\ holds[Root] = "system"
    BY DEF DataOwned
  <2>1. /\ Types /\ fault = "none" /\ pc[t] = "idle" /\ Running(t)
    BY DEF CleanInv, Quiet, Running
  <2>2. PICK C : Shape(t, C) /\ Held(t, C)
    BY <2>1 DEF Running
  <2>3. \A u \in Users : DOMAIN C[u] = 1..Len(C[u])
    <3>1. \A u \in Users : C[u] \in Seq(Blocks)
      BY <2>1, <2>2, Basics
    <3> QED
      BY <3>1, LenProperties
  <2>4. \A u \in Users : \A b \in ToSet(C[u]) : In(b, C[u])
    BY <2>3 DEF ToSet, In
  <2>5. ASSUME NEW f \in Files, NEW b \in ToSet(Blocked(f)) PROVE holds[b] = f
    <3>1. Exists(f)
      BY <2>5 DEF Blocked, ToSet
    <3>2. Coming(t, f) = entry[f]
      BY <2>1 DEF Coming
    <3>3. Blocked(f) = C[File(f)]
      BY <2>1, <2>2, <3>1, <3>2, FileIs DEF Blocked
    <3>4. In(b, C[File(f)])
      BY <2>4, <2>5, <3>3, UsersAre
    <3> QED
      BY <2>2, <3>4 DEF Held
  <2>6. \A b \in ToSet(Chain(sb.fat_start)) : holds[b] = "table"
    <3>1. Chain(sb.fat_start) = C[Table]
      BY <2>1, <2>2, TableIs
    <3> QED
      BY <2>2, <2>4, <3>1, UsersAre DEF Held
  <2>7. holds[0] = "system" /\ holds[Root] = "system"
    <3>1. C[Fixed] = <<0, Root>>
      BY <2>2 DEF Shape, SystemChains
    <3>2. 1 \in 1..Len(C[Fixed]) /\ 2 \in 1..Len(C[Fixed]) /\ C[Fixed][1] = 0 /\ C[Fixed][2] = Root
      BY <3>1
    <3>3. In(0, C[Fixed]) /\ In(Root, C[Fixed])
      BY <3>2 DEF In
    <3> QED
      BY <2>2, <3>3 DEF Held
  <2> QED
    BY <2>5, <2>6, <2>7
<1> QED
  BY <1>1, <1>2

-----------------------------------------------------------------------------
(* Types, whatever crashes.  Blocks may be used twice then, and chains may *)
(* lead anywhere; but every number that is stored anywhere has an entry in *)
(* the table, and the allocator is ahead of the table by so much at most   *)
(* as one extension of it makes up for.                                    *)
Given(size) == {b \in Blocks : Root < b /\ b < size}
Numbers(size) == {FAT_NULL, Cut} \cup Given(size)
Starts(size) == {FAT_NULL} \cup Given(size)
Superblocks == [free_blocks : Int, fat_size : Nat, fat_start : Blocks, fat_end : Blocks]
Building == {"alloc", "advance", "place"}

PartsSane(part, size) ==
  \A b \in DOMAIN part : \A i \in 0..(FAT_PER_BLOCK - 1) : part[b][i] \in Numbers(size)

DiskSane ==
  LET size == stored.sb.fat_size
  IN /\ stored.sb \in Superblocks
     /\ PartsSane(stored.part, size)
     /\ entry \in [Files -> Entries]
     /\ \A f \in Files : /\ entry[f].start \in Starts(size)
                         /\ entry[f].blocks = -1 => entry[f] = NoEntry
     /\ saved = NoState \/ (/\ saved \in [next_alloc : 3..MaxBlocks, freed : SUBSET Blocks]
                            /\ saved.next_alloc <= size /\ saved.freed \subseteq Given(size))

TableSane(t) ==
  /\ IF pc[t] \in Building THEN sb.fat_size >= stored.sb.fat_size
                            ELSE sb.fat_size = stored.sb.fat_size
  /\ \A i \in 0..(sb.fat_size - 1) : fat[i] \in Numbers(sb.fat_size)
  /\ next_alloc > Root
  /\ freed \subseteq Given(sb.fat_size)

LocalsSane(t) ==
  LET r == reg[t]
  IN /\ r.de.start \in Starts(sb.fat_size)
     /\ r.cur \in Numbers(sb.fat_size)
     /\ r.start # FAT_NULL => r.start > Root
     /\ pc[t] # "idle" => r.file \in Files
     /\ pc[t] \in {"advance", "place"} => r.todo > 0 /\ r.new > Root
     /\ pc[t] = "advance" => r.new = next_alloc /\ freed = {} /\ next_alloc < MaxBlocks

Ahead(t) ==
  LET r == reg[t]
      out == r.start >= sb.fat_size
      placing == pc[t] = "place" /\ r.new >= sb.fat_size
  IN /\ out => /\ pc[t] \in Building /\ r.last = r.start /\ freed = {} /\ r.start < next_alloc
               /\ pc[t] = "place" => r.new > r.start
     /\ placing => freed = {} /\ r.new < next_alloc
     /\ next_alloc <= sb.fat_size + (IF out THEN 1 ELSE 0) + (IF placing THEN 1 ELSE 0)

Sane(t) ==
  /\ fault # "garbage" => Types /\ fault \in {"none", "overrun", "wild", "twice"}
  /\ fault = "none" => TableSane(t) /\ LocalsSane(t) /\ Ahead(t)

(* What the files of blocks hold, and what the observers have seen. *)
Marks == {"nothing", "system", "table"} \cup Files
Observed ==
  /\ holds \in [Blocks -> Marks]
  /\ crashes \in 0..MaxCrashes
  /\ DOMAIN kept.files \subseteq Files

WeakInv(t) ==
  /\ Observed
  /\ DiskSane
  /\ ~up => pc = [u \in Threads |-> "idle"] /\ reg = [u \in Threads |-> NoLocals] /\ fault = "none"
  /\ up => Sane(t)

(* A walk is a sequence, whatever the table. *)
LEMMA WalkIs ==
  ASSUME NEW table, NEW p
  PROVE  \E n \in Nat : DOMAIN ChainIn(table, p) = 1..n
<1> DEFINE next == [b \in Blocks \cup {Cut} |->
                      IF b \in DOMAIN table \ {FAT_NULL} THEN table[b] ELSE FAT_NULL]
           step(w) == [k \in 0..MaxBlocks |-> IF k = 0 THEN p ELSE next[w[k - 1]]]
           walk == CHOOSE w : w = step(w)
           alive == {k \in 0..MaxBlocks : walk[k] \notin {FAT_NULL, Cut}}
<1>1. ChainIn(table, p) = [k \in 1..Cardinality(alive) |-> walk[k - 1]]
  BY DEF ChainIn
<1>2. PICK S : S = alive
  OBVIOUS
<1>3. Cardinality(S) \in Nat
  <2>1. IsFiniteSet(0..MaxBlocks)
    <3>1. 0 \in Int /\ MaxBlocks \in Int
      BY FatAssumption
    <3> QED
      BY <3>1, FS_Interval, Zenon
  <2>2. S \in SUBSET (0..MaxBlocks)
    BY <1>2
  <2>3. IsFiniteSet(S)
    BY <2>1, <2>2, FS_Subset
  <2> QED
    BY <2>3, FS_CardinalityType
<1>4. PICK n \in Nat : n = Cardinality(S)
  BY <1>3
<1>5. DOMAIN ChainIn(table, p) = 1..n
  <2> HIDE DEF walk, alive
  <2> QED
    BY <1>1, <1>2, <1>4
<1> QED
  BY <1>5

(* What write_fat writes are entries of the table. *)
WritesOnly(table, s, size) ==
  s.fat_size \in Nat /\ \A i \in 0..(s.fat_size - 1) : table[i] \in Numbers(size)

LEMMA PartsStaySane ==
  ASSUME NEW table, NEW s, NEW size, WritesOnly(table, s, size)
  PROVE  PartsSane(write_fat(table, s), size)
<1>1. PICK n, c : n = s.fat_size /\ c = ChainIn(table, s.fat_start)
  OBVIOUS
<1>2. n \in Nat /\ \A i \in 0..(n - 1) : table[i] \in Numbers(size)
  BY <1>1 DEF WritesOnly
<1>3. PICK m \in Nat : DOMAIN c = 1..m
  BY <1>1, WalkIs
<1>4. PICK W : W = {k \in DOMAIN c : k * FAT_PER_BLOCK <= n}
  OBVIOUS
<1>5. write_fat(table, s) = [b \in {c[k] : k \in W} |-> Part(table, Max({k \in W : c[k] = b}))]
  BY <1>1, <1>4 DEF write_fat
<1>6. ASSUME NEW b \in {c[k] : k \in W}, NEW i \in 0..(FAT_PER_BLOCK - 1)
      PROVE  write_fat(table, s)[b][i] \in Numbers(size)
  <2>1. PICK K : K = {k \in W : c[k] = b}
    OBVIOUS
  <2>2. K # {} /\ K \subseteq 0..m
    BY <1>3, <1>4, <2>1
  <2>3. \E k \in K : \A x \in K : x <= k
    BY <2>2, GreatestNumber
  <2>4. \E k \in K : \A x \in K : k >= x
    BY <2>2, <2>3
  <2>5. PICK k \in K : k = Max(K)
    BY <2>4, Zenon DEF Max
  <2>6. k \in Nat /\ k >= 1 /\ k * FAT_PER_BLOCK <= n
    BY <1>3, <1>4, <2>1
  <2>7. (k - 1) * FAT_PER_BLOCK + i \in 0..(n - 1)
    <3>1. PICK F \in Nat : F = FAT_PER_BLOCK
      BY FatAssumption
    <3>2. PICK q \in Nat : k = q + 1
      <4>1. k - 1 \in Nat /\ k = (k - 1) + 1
        BY <2>6
      <4> QED
        BY <4>1
    <3>3. (q + 1) * F = q * F + F /\ q * F \in Nat
      BY <3>1
    <3>4. k - 1 = q
      BY <3>2
    <3> QED
      BY <1>2, <2>6, <3>1, <3>2, <3>3, <3>4
  <2>8. write_fat(table, s)[b] = Part(table, k)
    BY <1>5, <2>1, <2>5
  <2>9. Part(table, k)[i] = table[(k - 1) * FAT_PER_BLOCK + i]
    BY DEF Part
  <2> QED
    BY <1>2, <2>7, <2>8, <2>9
<1>7. DOMAIN write_fat(table, s) = {c[k] : k \in W}
  BY <1>5
<1> QED
  BY <1>6, <1>7 DEF PartsSane

(* Numbers stay numbers when the table grows. *)
LEMMA NumbersGrow ==
  ASSUME NEW a \in Nat, NEW z \in Nat, a <= z
  PROVE  Numbers(a) \subseteq Numbers(z) /\ Starts(a) \subseteq Starts(z) /\ Given(a) \subseteq Given(z)
BY FatAssumption DEF Numbers, Starts, Given, Blocks

Healthy(t) ==
  /\ fault = "none" /\ Types /\ DiskSane
  /\ TableSane(t) /\ LocalsSane(t) /\ Ahead(t)

(* Numbers, and the thread's locals. *)
LEMMA SaneBasics ==
  ASSUME NEW t, Threads = {t}, Types
  PROVE  /\ t \in Threads /\ pc \in [Threads -> Steps] /\ reg \in [Threads -> Locals]
         /\ pc[t] \in Steps /\ reg[t] \in Locals
         /\ reg[t].de \in Entries /\ reg[t].de.blocks \in -1..MaxFile /\ reg[t].de.start \in Blocks
         /\ reg[t].want \in 0..MaxFile /\ reg[t].todo \in 0..MaxFile
         /\ reg[t].start \in Blocks /\ reg[t].last \in Blocks /\ reg[t].new \in Blocks
         /\ reg[t].cur \in Blocks \cup {Cut}
         /\ sb.fat_size \in Nat /\ sb \in Superblocks
         /\ next_alloc \in Nat /\ next_alloc <= MaxBlocks
         /\ FAT_PER_BLOCK \in Nat /\ FAT_PER_BLOCK > 2 /\ MaxBlocks \in Nat /\ MaxFile \in Nat
         /\ 0 \in Blocks /\ \A b \in Blocks : b \in Nat /\ b < MaxBlocks
         /\ FAT_NULL = 0 /\ Cut = -1 /\ Root = 2 /\ Cut \notin Blocks
<1>1. FAT_PER_BLOCK \in Nat /\ FAT_PER_BLOCK > 2 /\ MaxBlocks \in Nat /\ MaxBlocks > 2 /\ MaxFile \in Nat
  BY FatAssumption
<1>2. /\ 0 \in Blocks /\ \A b \in Blocks : b \in Nat /\ b < MaxBlocks
      /\ FAT_NULL = 0 /\ Cut = -1 /\ Root = 2 /\ Cut \notin Blocks
  BY <1>1 DEF Blocks, FAT_NULL, Cut, Root
<1>3. t \in Threads /\ pc \in [Threads -> Steps] /\ reg \in [Threads -> Locals]
  BY DEF Types
<1>4. pc[t] \in Steps /\ reg[t] \in Locals
  BY <1>3
<1>5. PICK r : r = reg[t]
  OBVIOUS
<1>6. /\ r.de \in Entries /\ r.want \in 0..MaxFile /\ r.todo \in 0..MaxFile
      /\ r.start \in Blocks /\ r.last \in Blocks /\ r.new \in Blocks
      /\ r.cur \in Blocks \cup {Cut}
  BY <1>4, <1>5 DEF Locals
<1>7. r.de.blocks \in -1..MaxFile /\ r.de.start \in Blocks
  BY <1>6 DEF Entries
<1>8. sb.fat_size \in Nat /\ sb \in Superblocks
  BY DEF Types, Superblocks
<1>9. next_alloc \in Nat /\ next_alloc <= MaxBlocks
  BY <1>1 DEF Types
<1> QED
  BY <1>1, <1>2, <1>3, <1>4, <1>5, <1>6, <1>7, <1>8, <1>9

(* What is left alone on disk stays sane. *)
LEMMA DiskStays ==
  ASSUME DiskSane, UNCHANGED <<stored, entry, saved>>
  PROVE  DiskSane'
BY DEF DiskSane

LEMMA MknodSane ==
  ASSUME NEW t, Threads = {t}, Healthy(t), UNCHANGED saved, NEW f \in Files, Mknod(t, f)
  PROVE  Healthy(t)'
<1>1. /\ UNCHANGED <<fat, sb, next_alloc, freed, stored, pc, reg, fault, saved>>
      /\ entry' = [entry EXCEPT ![f] = [start |-> FAT_NULL, blocks |-> 0]]
  BY DEF Mknod
<1>2. [start |-> FAT_NULL, blocks |-> 0] \in Entries
  BY FatAssumption DEF Entries, Blocks, FAT_NULL
<1>3. Types' /\ TableSane(t)' /\ LocalsSane(t)' /\ Ahead(t)'
  <2>1. Types'
    BY <1>1, <1>2 DEF Healthy, Types
  <2>2. TableSane(t)' /\ LocalsSane(t)' /\ Ahead(t)'
    BY <1>1 DEF Healthy, TableSane, LocalsSane, Ahead
  <2> QED
    BY <2>1, <2>2
<1>4. DiskSane'
  <2>1. ASSUME NEW g \in Files
        PROVE  /\ entry'[g].start \in Starts(stored.sb.fat_size)
               /\ entry'[g].blocks = -1 => entry'[g] = NoEntry
    BY <1>1 DEF Healthy, DiskSane, Types, Starts
  <2>2. entry' \in [Files -> Entries]
    BY <1>1, <1>2 DEF Healthy, Types
  <2> QED
    BY <1>1, <2>1, <2>2 DEF Healthy, DiskSane
<1> QED
  BY <1>1, <1>3, <1>4 DEF Healthy

LEMMA GrowSane ==
  ASSUME NEW t, Threads = {t}, Healthy(t), UNCHANGED saved, NEW f \in Files, NEW n \in 0..MaxFile,
         Grow(t, f, n)
  PROVE  Healthy(t)'
<1>0. PICK q : q = [NoLocals EXCEPT !.op = "truncate", !.file = f, !.de = entry[f],
                                    !.want = n, !.todo = n - entry[f].blocks]
  OBVIOUS
<1>1. /\ UNCHANGED <<fat, sb, next_alloc, freed, stored, entry, fault, saved>>
      /\ pc[t] = "idle" /\ pc' = [pc EXCEPT ![t] = "alloc"]
      /\ reg' = [reg EXCEPT ![t] = q]
      /\ Exists(f) /\ n > entry[f].blocks
  BY <1>0 DEF Grow, At, Goto, Set
<1>2. /\ Types /\ DiskSane /\ TableSane(t) /\ LocalsSane(t) /\ Ahead(t) /\ fault = "none"
  BY DEF Healthy
<1>3. /\ entry[f] \in Entries /\ entry[f].blocks # -1 /\ entry[f].start \in Starts(stored.sb.fat_size)
  BY <1>1, <1>2 DEF DiskSane, Exists
<1>4. /\ q.op = "truncate" /\ q.file = f /\ q.de = entry[f] /\ q.want = n
      /\ q.todo = n - entry[f].blocks /\ q.start = 0 /\ q.last = 0 /\ q.new = 0 /\ q.cur = 0
  BY <1>0 DEF NoLocals, FAT_NULL
<1>5. q \in Locals
  <2>1. entry[f].blocks \in 0..MaxFile
    BY <1>3, FatAssumption DEF Entries
  <2>2. n - entry[f].blocks \in 0..MaxFile
    BY <1>1, <2>1, FatAssumption
  <2>3. 0 \in Blocks
    BY <1>2, SaneBasics
  <2> QED
    BY <1>0, <1>3, <2>2, <2>3 DEF NoLocals, Locals, FAT_NULL
<1>6. pc'[t] = "alloc" /\ reg'[t] = q
  BY <1>1, <1>2, SaneBasics
<1>7. Types'
  <2>1. pc' \in [Threads -> Steps] /\ reg' \in [Threads -> Locals]
    BY <1>1, <1>2, <1>5, SaneBasics DEF Steps
  <2> QED
    BY <1>1, <1>2, <2>1 DEF Types
<1>8. sb.fat_size = stored.sb.fat_size /\ sb.fat_size \in Nat
  BY <1>1, <1>2, SaneBasics DEF TableSane, Building
<1>9. TableSane(t)'
  BY <1>1, <1>2, <1>6, <1>8 DEF TableSane, Building
<1>10. LocalsSane(t)'
  BY <1>1, <1>3, <1>4, <1>6, <1>8 DEF LocalsSane, Numbers, FAT_NULL
<1>11. Ahead(t)'
  <2>1. next_alloc <= sb.fat_size
    <3>1. ~(reg[t].start >= sb.fat_size)
      BY <1>1, <1>2 DEF Ahead, Building
    <3> QED
      BY <1>1, <1>2, <1>8, <3>1 DEF Ahead
  <2>2. next_alloc > Root
    BY <1>2 DEF TableSane
  <2>3. ~(q.start >= sb.fat_size)
    BY <1>2, <1>4, <1>8, <2>1, <2>2, SaneBasics
  <2> QED
    BY <1>1, <1>6, <1>8, <2>1, <2>3 DEF Ahead
<1> QED
  BY <1>1, <1>2, <1>7, <1>9, <1>10, <1>11, DiskStays DEF Healthy

(* Outside alloc_blocks the table has an entry for every number. *)
LEMMA Level ==
  ASSUME NEW t, Threads = {t}, Healthy(t), pc[t] \notin Building
  PROVE  /\ sb.fat_size = stored.sb.fat_size /\ sb.fat_size \in Nat
         /\ next_alloc <= sb.fat_size /\ next_alloc > 2 /\ sb.fat_size > 2
         /\ reg[t].start < sb.fat_size
<1>1. Types /\ TableSane(t) /\ Ahead(t)
  BY DEF Healthy
<1>2. sb.fat_size \in Nat /\ next_alloc \in Nat /\ reg[t].start \in Nat
  BY <1>1, SaneBasics
<1>3. ~(reg[t].start >= sb.fat_size) /\ pc[t] # "place"
  BY <1>1 DEF Ahead, Building
<1>4. next_alloc <= sb.fat_size
  BY <1>1, <1>2, <1>3 DEF Ahead
<1>5. next_alloc > 2 /\ sb.fat_size = stored.sb.fat_size
  BY <1>1, SaneBasics DEF TableSane
<1> QED
  BY <1>2, <1>3, <1>4, <1>5

(* The operation that is begun, or goes on, where the table has an entry   *)
(* for every number.                                                       *)
LEMMA LevelSane ==
  ASSUME NEW t, Threads = {t}, Healthy(t), UNCHANGED stored, sb'.fat_size = sb.fat_size, fault' = "none",
         pc[t] \notin Building, pc'[t] \notin Building, DiskSane', Types',
         next_alloc' > Root, next_alloc' <= next_alloc, freed' \subseteq Given(sb.fat_size),
         \A i \in 0..(sb.fat_size - 1) : fat'[i] \in Numbers(sb.fat_size),
         reg'[t].de.start \in Starts(sb.fat_size), reg'[t].cur \in Numbers(sb.fat_size),
         reg'[t].start = reg[t].start \/ reg'[t].start = 0,
         pc'[t] # "idle" => reg'[t].file \in Files
  PROVE  Healthy(t)'
<1>1. /\ sb.fat_size = stored.sb.fat_size /\ sb.fat_size \in Nat
      /\ next_alloc <= sb.fat_size /\ sb.fat_size > 2 /\ reg[t].start < sb.fat_size
  BY Level
<1>2. TableSane(t)'
  BY <1>1 DEF TableSane
<1>3. LocalsSane(t)'
  <2>1. reg'[t].start # 0 => reg'[t].start > Root
    BY DEF Healthy, LocalsSane, FAT_NULL
  <2>2. pc'[t] \notin {"advance", "place"}
    BY DEF Building
  <2> QED
    BY <2>1, <2>2 DEF LocalsSane, FAT_NULL
<1>4. Ahead(t)'
  <2>1. ~(reg'[t].start >= sb.fat_size)
    <3>1. reg[t].start \in Nat
      BY SaneBasics DEF Healthy
    <3> QED
      BY <1>1, <3>1
  <2>2. pc'[t] # "place"
    BY DEF Building
  <2>3. next_alloc' <= sb.fat_size
    <3>1. next_alloc' \in Nat /\ next_alloc \in Nat
      BY FatAssumption DEF Healthy, Types
    <3> QED
      BY <1>1, <3>1
  <2> QED
    BY <1>1, <2>1, <2>2, <2>3 DEF Ahead
<1> QED
  BY <1>2, <1>3, <1>4 DEF Healthy

LEMMA NoLocalsAre ==
  /\ NoEntry \in Entries /\ NoLocals \in Locals
  /\ NoLocals.de.start = 0 /\ NoLocals.start = 0 /\ NoLocals.cur = 0
<1>1. NoEntry \in Entries /\ NoEntry.start = 0
  BY FatAssumption DEF NoEntry, Entries, Blocks, FAT_NULL
<1>2. 0 \in Blocks /\ MaxFile \in Nat
  BY FatAssumption DEF Blocks
<1> QED
  BY <1>1, <1>2 DEF NoLocals, Locals, FAT_NULL

LEMMA UnlinkSane ==
  ASSUME NEW t, Threads = {t}, Healthy(t), UNCHANGED saved, NEW f \in Files, Unlink(t, f)
  PROVE  Healthy(t)'
<1>0. PICK q : q = [NoLocals EXCEPT !.op = "unlink", !.file = f, !.cur = entry[f].start]
  OBVIOUS
<1>1. /\ UNCHANGED <<fat, sb, next_alloc, freed, stored, entry, fault, saved>>
      /\ pc[t] = "idle" /\ pc' = [pc EXCEPT ![t] = "free"]
      /\ reg' = [reg EXCEPT ![t] = q]
  BY <1>0 DEF Unlink, At, Goto, Set
<1>2. /\ Types /\ DiskSane /\ TableSane(t) /\ LocalsSane(t) /\ fault = "none"
  BY DEF Healthy
<1>3. pc[t] \notin Building /\ pc'[t] = "free" /\ reg'[t] = q
  BY <1>1, <1>2, SaneBasics DEF Building
<1>4. /\ sb.fat_size = stored.sb.fat_size
  BY <1>3, Level
<1>5. /\ entry[f] \in Entries /\ entry[f].start \in Starts(sb.fat_size) /\ entry[f].start \in Blocks
  BY <1>2, <1>4 DEF DiskSane, Entries
<1>6. /\ q.file = f /\ q.de.start = 0 /\ q.start = 0 /\ q.cur = entry[f].start
  BY <1>0 DEF NoLocals, NoEntry, FAT_NULL
<1>7. q \in Locals
  BY <1>0, <1>5, NoLocalsAre DEF Locals
<1>8. Types'
  <2>1. pc' \in [Threads -> Steps] /\ reg' \in [Threads -> Locals]
    BY <1>1, <1>2, <1>7, SaneBasics DEF Steps
  <2> QED
    BY <1>1, <1>2, <2>1 DEF Types
<1>9. DiskSane'
  BY <1>1, <1>2, DiskStays
<1>10. 0 \in Starts(sb.fat_size) /\ entry[f].start \in Numbers(sb.fat_size)
  BY <1>5 DEF Starts, Numbers, FAT_NULL
<1>11. /\ next_alloc' > Root /\ next_alloc' <= next_alloc /\ freed' \subseteq Given(sb.fat_size)
       /\ \A i \in 0..(sb.fat_size - 1) : fat'[i] \in Numbers(sb.fat_size)
  BY <1>1, <1>2, SaneBasics DEF TableSane
<1> QED
  BY <1>1, <1>2, <1>3, <1>6, <1>8, <1>9, <1>10, <1>11, LevelSane DEF Building

LEMMA ShrinkSane ==
  ASSUME NEW t, Threads = {t}, Healthy(t), UNCHANGED saved, NEW f \in Files, NEW n \in 0..MaxFile,
         Shrink(t, f, n), fault' = "none"
  PROVE  Healthy(t)'
<1>0. PICK r, de : /\ de = entry[f]
                   /\ r = [NoLocals EXCEPT !.op = "truncate", !.file = f, !.want = n]
  OBVIOUS
<1>1. /\ UNCHANGED <<sb, next_alloc, freed, stored, entry, fault, saved>>
      /\ pc[t] = "idle" /\ pc' = [pc EXCEPT ![t] = "free"]
      /\ Exists(f)
  BY DEF Shrink, At, Goto, Fails
<1>2. /\ Types /\ DiskSane /\ TableSane(t) /\ LocalsSane(t) /\ fault = "none"
  BY DEF Healthy
<1>3. pc[t] \notin Building /\ pc'[t] = "free"
  BY <1>1, <1>2, SaneBasics DEF Building
<1>4. /\ sb.fat_size = stored.sb.fat_size /\ sb.fat_size \in Nat /\ sb.fat_size > 2
  BY <1>3, Level
<1>5. de \in Entries /\ de.start \in Starts(sb.fat_size) /\ de.start \in Blocks
  BY <1>0, <1>2, <1>4 DEF DiskSane, Entries
<1>6. PICK q, table :
        /\ reg' = [reg EXCEPT ![t] = q] /\ fat' = table
        /\ \/ q = [r EXCEPT !.de = [de EXCEPT !.start = FAT_NULL], !.cur = de.start] /\ table = fat
           \/ \E last \in DOMAIN fat : /\ q = [r EXCEPT !.de = de, !.cur = fat[last]]
                                       /\ table = [fat EXCEPT ![last] = Cut]
  <2>1. CASE n = 0
    BY <1>0, <1>1, <2>1 DEF Shrink, Set, Fails
  <2>2. CASE n # 0
    BY <1>0, <1>1, <2>2 DEF Shrink, Set, Fails
  <2> QED
    BY <2>1, <2>2
<1>7. /\ q \in Locals /\ q.file = f /\ q.start = 0
      /\ q.de.start \in Starts(sb.fat_size) /\ q.cur \in Numbers(sb.fat_size)
      /\ table \in [0..(sb.fat_size - 1) -> Blocks \cup {Cut}]
      /\ \A i \in 0..(sb.fat_size - 1) : table[i] \in Numbers(sb.fat_size)
  <2>0. /\ 0 \in Blocks /\ FAT_NULL = 0 /\ Cut = -1
        /\ fat \in [0..(sb.fat_size - 1) -> Blocks \cup {Cut}]
        /\ \A i \in 0..(sb.fat_size - 1) : fat[i] \in Numbers(sb.fat_size)
    BY <1>2, SaneBasics DEF Types, TableSane
  <2>1. r \in Locals /\ r.file = f /\ r.start = 0
    BY <1>0, NoLocalsAre DEF Locals
  <2>2. CASE q = [r EXCEPT !.de = [de EXCEPT !.start = FAT_NULL], !.cur = de.start] /\ table = fat
    <3>1. [de EXCEPT !.start = FAT_NULL] \in Entries /\ [de EXCEPT !.start = FAT_NULL].start = 0
      BY <1>5, <2>0 DEF Entries
    <3>2. q \in Locals /\ q.file = f /\ q.start = 0 /\ q.de.start = 0 /\ q.cur = de.start
      BY <1>5, <2>1, <2>2, <3>1 DEF Locals
    <3> QED
      BY <1>5, <2>0, <2>2, <3>2 DEF Starts, Numbers
  <2>3. ASSUME NEW last \in DOMAIN fat, q = [r EXCEPT !.de = de, !.cur = fat[last]],
               table = [fat EXCEPT ![last] = Cut]
        PROVE  <1>7!:
    <3>1. last \in 0..(sb.fat_size - 1) /\ fat[last] \in Blocks \cup {Cut} /\ fat[last] \in Numbers(sb.fat_size)
      BY <2>0, <2>3
    <3>2. q \in Locals /\ q.file = f /\ q.start = 0 /\ q.de = de /\ q.cur = fat[last]
      BY <1>5, <2>1, <2>3, <3>1 DEF Locals
    <3>3. /\ table \in [0..(sb.fat_size - 1) -> Blocks \cup {Cut}]
          /\ \A i \in 0..(sb.fat_size - 1) : table[i] \in Numbers(sb.fat_size)
      BY <2>0, <2>3 DEF Numbers
    <3> QED
      BY <1>5, <3>1, <3>2, <3>3
  <2> QED
    BY <1>6, <2>2, <2>3
<1>8. reg'[t] = q
  BY <1>2, <1>6, SaneBasics
<1>9. Types'
  <2>1. pc' \in [Threads -> Steps] /\ reg' \in [Threads -> Locals]
    BY <1>1, <1>2, <1>6, <1>7, SaneBasics DEF Steps
  <2> QED
    BY <1>1, <1>2, <1>6, <1>7, <2>1 DEF Types
<1>10. DiskSane'
  BY <1>1, <1>2, DiskStays
<1>11. next_alloc' > Root /\ next_alloc' <= next_alloc /\ freed' \subseteq Given(sb.fat_size)
  BY <1>1, <1>2, SaneBasics DEF TableSane
<1> QED
  BY <1>1, <1>2, <1>3, <1>6, <1>7, <1>8, <1>9, <1>10, <1>11, LevelSane DEF Building

(* allocate_block, whatever is queued. *)
LEMMA NewBlockSane ==
  ASSUME NEW t, Threads = {t}, Healthy(t)
  PROVE  /\ freed = {} => NewBlock = next_alloc
         /\ freed # {} => NewBlock \in freed
         /\ NewBlock \in Nat /\ NewBlock > 2
<1>1. /\ Types /\ TableSane(t) /\ freed \subseteq Given(sb.fat_size)
  BY DEF Healthy, TableSane
<1>2. next_alloc \in Nat /\ next_alloc > 2 /\ MaxBlocks \in Nat /\ \A b \in Blocks : b \in Nat
  BY <1>1, SaneBasics DEF TableSane
<1>3. \A b \in freed : b \in Nat /\ b > 2 /\ b <= MaxBlocks
  BY <1>1, <1>2, SaneBasics DEF Given
<1>4. CASE freed = {}
  BY <1>2, <1>4 DEF NewBlock
<1>5. CASE freed # {}
  <2>1. \E m \in freed : \A x \in freed : x <= m
    <3>1. freed \subseteq 0..MaxBlocks
      BY <1>2, <1>3
    <3> QED
      BY <1>2, <1>5, <3>1, GreatestNumber
  <2>2. \E m \in freed : \A x \in freed : m >= x
    BY <1>3, <2>1
  <2>3. Max(freed) \in freed
    BY <2>2, Zenon DEF Max
  <2>4. NewBlock \in freed
    BY <1>5, <2>3 DEF NewBlock
  <2> QED
    BY <1>3, <1>5, <2>4
<1> QED
  BY <1>4, <1>5

LEMMA TakeSane ==
  ASSUME NEW t, Threads = {t}, Healthy(t), UNCHANGED saved, Take(t)
  PROVE  Healthy(t)'
<1>0. PICK r, b, q : r = reg[t] /\ b = NewBlock /\ q = [r EXCEPT !.new = b]
  OBVIOUS
<1>1. /\ UNCHANGED <<fat, sb, next_alloc, entry, stored, fault, saved>>
      /\ pc[t] = "alloc" /\ pc' = [pc EXCEPT ![t] = IF freed = {} THEN "advance" ELSE "place"]
      /\ reg' = [reg EXCEPT ![t] = q] /\ r.todo > 0 /\ b < MaxBlocks /\ freed' = freed \ {b}
  BY <1>0 DEF Take, At, Goto, Set
<1>2. /\ Types /\ DiskSane /\ TableSane(t) /\ LocalsSane(t) /\ Ahead(t) /\ fault = "none"
  BY DEF Healthy
<1>3. /\ (freed = {} => b = next_alloc) /\ (freed # {} => b \in freed) /\ b \in Nat /\ b > 2
  BY <1>0, NewBlockSane
<1>4. /\ r \in Locals /\ r.start \in Nat /\ sb.fat_size \in Nat /\ next_alloc \in Nat /\ b \in Blocks
      /\ Root = 2
  BY <1>0, <1>1, <1>2, <1>3, SaneBasics, FatAssumption DEF Blocks
<1>5. /\ q \in Locals /\ q.new = b /\ q.start = r.start /\ q.last = r.last /\ q.todo = r.todo
      /\ q.de = r.de /\ q.cur = r.cur /\ q.file = r.file
  BY <1>0, <1>4 DEF Locals
<1>6. /\ reg'[t] = q /\ pc'[t] = IF freed = {} THEN "advance" ELSE "place"
  BY <1>1, <1>2, SaneBasics
<1>7. Types'
  <2>1. pc' \in [Threads -> Steps] /\ reg' \in [Threads -> Locals]
    BY <1>1, <1>2, <1>5, SaneBasics DEF Steps
  <2> QED
    BY <1>1, <1>2, <2>1 DEF Types
<1>8. TableSane(t)'
  <2>1. pc[t] \in Building /\ pc'[t] \in Building
    BY <1>1, <1>6 DEF Building
  <2> QED
    BY <1>1, <1>2, <2>1 DEF TableSane
<1>9. LocalsSane(t)'
  <2>1. /\ r.de.start \in Starts(sb.fat_size) /\ r.cur \in Numbers(sb.fat_size)
        /\ (r.start # FAT_NULL => r.start > Root) /\ r.file \in Files
    BY <1>0, <1>1, <1>2 DEF LocalsSane
  <2>2. q.todo > 0 /\ q.new > Root
    BY <1>1, <1>3, <1>4, <1>5
  <2>3. pc'[t] = "advance" => q.new = next_alloc' /\ freed' = {} /\ next_alloc' < MaxBlocks
    <3> SUFFICES ASSUME freed = {} PROVE q.new = next_alloc' /\ freed' = {} /\ next_alloc' < MaxBlocks
      BY <1>6
    <3>1. b = next_alloc
      BY <1>3
    <3> QED
      BY <1>1, <1>5, <3>1
  <2> QED
    BY <1>1, <1>5, <1>6, <2>1, <2>2, <2>3 DEF LocalsSane
<1>10. Ahead(t)'
  <2>1. CASE freed = {}
    <3>1. pc'[t] = "advance" /\ freed' = {}
      BY <1>1, <1>6, <2>1
    <3> QED
      BY <1>0, <1>1, <1>2, <1>5, <1>6, <3>1 DEF Ahead, Building
  <2>2. CASE freed # {}
    <3>1. ~(r.start >= sb.fat_size)
      BY <1>0, <1>2, <2>2 DEF Ahead
    <3>2. b < sb.fat_size
      BY <1>2, <1>3, <2>2 DEF TableSane, Given
    <3>3. next_alloc <= sb.fat_size
      BY <1>0, <1>1, <1>2, <1>4, <3>1 DEF Ahead
    <3>4. ~(q.start >= sb.fat_size) /\ ~(q.new >= sb.fat_size)
      BY <1>3, <1>4, <1>5, <3>1, <3>2
    <3> QED
      BY <1>1, <1>4, <1>6, <3>3, <3>4 DEF Ahead
  <2> QED
    BY <2>1, <2>2
<1> QED
  BY <1>1, <1>2, <1>7, <1>8, <1>9, <1>10, DiskStays DEF Healthy

LEMMA AdvanceSane ==
  ASSUME NEW t, Threads = {t}, Healthy(t), UNCHANGED saved, Advance(t)
  PROVE  Healthy(t)'
<1>0. PICK r : r = reg[t]
  OBVIOUS
<1>1. /\ UNCHANGED <<fat, sb, freed, entry, stored, reg, fault, saved>>
      /\ pc[t] = "advance" /\ pc' = [pc EXCEPT ![t] = "place"] /\ next_alloc' = next_alloc + 1
  BY DEF Advance, At, Goto
<1>2. /\ Types /\ DiskSane /\ TableSane(t) /\ LocalsSane(t) /\ Ahead(t) /\ fault = "none"
  BY DEF Healthy
<1>3. /\ r.start \in Nat /\ r.new \in Nat /\ sb.fat_size \in Nat /\ next_alloc \in Nat
      /\ MaxBlocks \in Nat /\ Root = 2 /\ pc'[t] = "place"
  BY <1>0, <1>1, <1>2, SaneBasics
<1>4. r.new = next_alloc /\ freed = {} /\ next_alloc < MaxBlocks
  BY <1>0, <1>1, <1>2 DEF LocalsSane
<1>5. Types'
  <2>1. pc' \in [Threads -> Steps]
    BY <1>1, <1>2, SaneBasics DEF Steps
  <2>2. next_alloc' \in 0..MaxBlocks
    BY <1>1, <1>3, <1>4
  <2> QED
    BY <1>1, <1>2, <2>1, <2>2 DEF Types
<1>6. TableSane(t)'
  <2>1. pc[t] \in Building /\ pc'[t] \in Building
    BY <1>1, <1>3 DEF Building
  <2> QED
    BY <1>1, <1>2, <1>3, <2>1 DEF TableSane
<1>7. LocalsSane(t)'
  BY <1>0, <1>1, <1>2, <1>3, <1>4 DEF LocalsSane
<1>8. Ahead(t)'
  <2>1. CASE r.start >= sb.fat_size
    <3>1. r.last = r.start /\ r.start < next_alloc
      BY <1>0, <1>2, <2>1 DEF Ahead
    <3>2. next_alloc <= sb.fat_size + 1
      BY <1>0, <1>1, <1>2, <1>3, <2>1 DEF Ahead
    <3> QED
      BY <1>0, <1>1, <1>3, <1>4, <2>1, <3>1, <3>2 DEF Ahead, Building
  <2>2. CASE ~(r.start >= sb.fat_size)
    <3>1. next_alloc <= sb.fat_size
      BY <1>0, <1>1, <1>2, <1>3, <2>2 DEF Ahead
    <3> QED
      BY <1>0, <1>1, <1>3, <1>4, <2>2, <3>1 DEF Ahead
  <2> QED
    BY <2>1, <2>2
<1> QED
  BY <1>1, <1>2, <1>5, <1>6, <1>7, <1>8, DiskStays DEF Healthy

LEMMA PlaceFirstSane ==
  ASSUME NEW t, Threads = {t}, Healthy(t), UNCHANGED saved, PlaceFirst(t)
  PROVE  Healthy(t)'
<1>0. PICK r, q : r = reg[t] /\ q = [r EXCEPT !.start = r.new, !.last = r.new, !.todo = @ - 1]
  OBVIOUS
<1>1. /\ UNCHANGED <<fat, sb, next_alloc, freed, entry, stored, fault, saved>>
      /\ pc[t] = "place" /\ pc' = [pc EXCEPT ![t] = "alloc"]
      /\ reg' = [reg EXCEPT ![t] = q] /\ r.start = FAT_NULL
  BY <1>0 DEF PlaceFirst, At, Goto, Set
<1>2. /\ Types /\ DiskSane /\ TableSane(t) /\ LocalsSane(t) /\ Ahead(t) /\ fault = "none"
  BY DEF Healthy
<1>3. /\ r \in Locals /\ r.new \in Blocks /\ r.new \in Nat /\ sb.fat_size \in Nat /\ next_alloc \in Nat
      /\ r.todo \in 0..MaxFile /\ MaxFile \in Nat /\ MaxBlocks \in Nat /\ Root = 2 /\ FAT_NULL = 0
  BY <1>0, <1>2, SaneBasics
<1>4. r.todo > 0 /\ r.new > Root
  BY <1>0, <1>1, <1>2 DEF LocalsSane
<1>5. /\ q \in Locals /\ q.start = r.new /\ q.last = r.new /\ q.de = r.de /\ q.cur = r.cur
      /\ q.file = r.file
  <2>1. r.todo - 1 \in 0..MaxFile
    BY <1>3, <1>4
  <2> QED
    BY <1>0, <1>3, <2>1 DEF Locals
<1>6. reg'[t] = q /\ pc'[t] = "alloc"
  BY <1>1, <1>2, SaneBasics
<1>7. Types'
  <2>1. pc' \in [Threads -> Steps] /\ reg' \in [Threads -> Locals]
    BY <1>1, <1>2, <1>5, SaneBasics DEF Steps
  <2> QED
    BY <1>1, <1>2, <2>1 DEF Types
<1>8. TableSane(t)'
  <2>1. pc[t] \in Building /\ pc'[t] \in Building
    BY <1>1, <1>6 DEF Building
  <2> QED
    BY <1>1, <1>2, <2>1 DEF TableSane
<1>9. LocalsSane(t)'
  BY <1>0, <1>1, <1>2, <1>4, <1>5, <1>6 DEF LocalsSane
<1>10. Ahead(t)'
  <2>1. ~(r.start >= sb.fat_size)
    <3>1. next_alloc > 2
      BY <1>2, <1>3 DEF TableSane
    <3> SUFFICES ASSUME r.start >= sb.fat_size PROVE FALSE
      OBVIOUS
    <3>2. sb.fat_size = 0 /\ freed = {}
      BY <1>0, <1>1, <1>2, <1>3 DEF Ahead
    <3>3. next_alloc <= 2
      BY <1>0, <1>1, <1>2, <1>3, <3>2 DEF Ahead
    <3> QED
      BY <1>3, <3>1, <3>3
  <2>2. CASE r.new >= sb.fat_size
    <3>1. freed = {} /\ r.new < next_alloc /\ next_alloc <= sb.fat_size + 1
      BY <1>0, <1>1, <1>2, <1>3, <2>1, <2>2 DEF Ahead
    <3> QED
      BY <1>1, <1>3, <1>5, <1>6, <2>2, <3>1 DEF Ahead, Building
  <2>3. CASE ~(r.new >= sb.fat_size)
    <3>1. next_alloc <= sb.fat_size
      BY <1>0, <1>1, <1>2, <1>3, <2>1, <2>3 DEF Ahead
    <3> QED
      BY <1>1, <1>3, <1>5, <1>6, <2>3, <3>1 DEF Ahead
  <2> QED
    BY <2>2, <2>3
<1> QED
  BY <1>1, <1>2, <1>7, <1>8, <1>9, <1>10, DiskStays DEF Healthy

LEMMA ExpandSane ==
  ASSUME NEW t, Threads = {t}, Healthy(t), UNCHANGED saved, Expand(t)
  PROVE  Healthy(t)'
<1>0. PICK r, b, z : r = reg[t] /\ b = NewBlock /\ z = sb.fat_size + FAT_PER_BLOCK
  OBVIOUS
<1>1. /\ UNCHANGED <<entry, stored, pc, reg, fault, saved>>
      /\ pc[t] = "place" /\ r.start # FAT_NULL /\ ~(r.new < sb.fat_size) /\ b < MaxBlocks
      /\ next_alloc' = IF freed = {} THEN next_alloc + 1 ELSE next_alloc
      /\ freed' = freed \ {b}
      /\ fat' = [Longer EXCEPT ![sb.fat_end] = b]
      /\ sb' = [sb EXCEPT !.fat_end = b, !.fat_size = z,
                          !.free_blocks = sb.free_blocks + FAT_PER_BLOCK - 1]
  BY <1>0 DEF Expand, At, InSize, Grown
<1>2. /\ Types /\ DiskSane /\ TableSane(t) /\ LocalsSane(t) /\ Ahead(t) /\ fault = "none"
  BY DEF Healthy
<1>3. /\ r.start \in Nat /\ r.new \in Nat /\ sb.fat_size \in Nat /\ next_alloc \in Nat
      /\ FAT_PER_BLOCK \in Nat /\ FAT_PER_BLOCK > 2 /\ MaxBlocks \in Nat /\ Root = 2
      /\ pc[t] \in Building
  BY <1>0, <1>1, <1>2, SaneBasics DEF Building
<1>4. z \in Nat /\ z >= sb.fat_size + 3
  BY <1>0, <1>3
<1>5. freed = {} /\ b = next_alloc /\ r.new < next_alloc
  <2>1. r.new >= sb.fat_size
    BY <1>1, <1>3
  <2>2. freed = {} /\ r.new < next_alloc
    BY <1>0, <1>1, <1>2, <2>1 DEF Ahead
  <2> QED
    BY <1>0, <2>2, NewBlockSane
<1>6. next_alloc <= sb.fat_size + 2 /\ r.start < z /\ r.new < z /\ b < z
  <2>1. next_alloc <= sb.fat_size + 2
    BY <1>0, <1>1, <1>2, <1>3 DEF Ahead
  <2>2. r.start < z
    <3>1. CASE r.start >= sb.fat_size
      <4>1. r.start < next_alloc
        BY <1>0, <1>2, <3>1 DEF Ahead
      <4> QED
        BY <1>3, <1>4, <2>1, <4>1
    <3>2. CASE ~(r.start >= sb.fat_size)
      BY <1>3, <1>4, <3>2
    <3> QED
      BY <3>1, <3>2
  <2> QED
    BY <1>3, <1>4, <1>5, <2>1, <2>2
<1>7. b \in Blocks /\ b > Root /\ b \in Given(z) /\ b \in Nat
  <2>1. b > 2 /\ b \in Nat
    BY <1>0, NewBlockSane
  <2>2. b \in Blocks
    BY <1>1, <1>3, <2>1 DEF Blocks
  <2> QED
    BY <1>3, <1>6, <2>1, <2>2 DEF Given
<1>8. /\ fat' \in [0..(z - 1) -> Blocks \cup {Cut}]
      /\ \A i \in 0..(z - 1) : fat'[i] \in Numbers(z)
  <2>1. Numbers(sb.fat_size) \subseteq Numbers(z) /\ 0 \in Numbers(z) /\ b \in Numbers(z)
    BY <1>3, <1>4, <1>7, NumbersGrow DEF Numbers, FAT_NULL
  <2>2. Longer = [i \in 0..(z - 1) |-> IF i \in 0..(sb.fat_size - 1) THEN fat[i] ELSE 0]
    <3>1. DOMAIN fat = 0..(sb.fat_size - 1)
      BY <1>2 DEF Types
    <3>2. sb.fat_size + FAT_PER_BLOCK - 1 = z - 1
      BY <1>0, <1>3
    <3> QED
      BY <3>1, <3>2 DEF Longer, FAT_NULL
  <2>3. \A i \in 0..(sb.fat_size - 1) : fat[i] \in Blocks \cup {Cut} /\ fat[i] \in Numbers(sb.fat_size)
    BY <1>2 DEF Types, TableSane
  <2>4. 0 \in Blocks
    BY <1>2, SaneBasics
  <2>5. DOMAIN Longer = 0..(z - 1) /\ \A i \in 0..(z - 1) : Longer[i] \in Blocks \cup {Cut} /\ Longer[i] \in Numbers(z)
    BY <2>1, <2>2, <2>3, <2>4
  <2>6. DOMAIN fat' = 0..(z - 1) /\ \A i \in 0..(z - 1) : fat'[i] = IF i = sb.fat_end THEN b ELSE Longer[i]
    BY <1>1, <2>2
  <2>7. fat' = [i \in 0..(z - 1) |-> fat'[i]]
    BY <1>1, <2>2
  <2> QED
    BY <1>7, <2>1, <2>5, <2>6, <2>7
<1>9. sb' \in Superblocks /\ sb'.fat_size = z
  <2>1. sb \in Superblocks
    BY <1>2, SaneBasics
  <2>2. sb.free_blocks \in Int
    BY <2>1 DEF Superblocks
  <2>3. sb.free_blocks + FAT_PER_BLOCK - 1 \in Int
    BY <1>3, <2>2
  <2> QED
    BY <1>1, <1>4, <1>7, <2>1, <2>3 DEF Superblocks
<1>10. next_alloc' = next_alloc + 1 /\ freed' = {} /\ reg'[t] = r /\ pc'[t] = "place"
  BY <1>0, <1>1, <1>5
<1>11. Types'
  <2>1. next_alloc' \in 0..MaxBlocks
    BY <1>1, <1>3, <1>5, <1>10
  <2> QED
    BY <1>1, <1>2, <1>8, <1>9, <1>10, <2>1 DEF Types, Superblocks
<1>12. TableSane(t)'
  <2>1. sb'.fat_size >= stored'.sb.fat_size
    <3>1. stored.sb.fat_size \in Nat /\ sb.fat_size >= stored.sb.fat_size
      BY <1>2, <1>3 DEF TableSane, DiskSane, Superblocks
    <3> QED
      BY <1>1, <1>3, <1>4, <1>9, <3>1
  <2>2. next_alloc' > Root
    BY <1>2, <1>3, <1>10 DEF TableSane
  <2>3. pc'[t] \in Building
    BY <1>10 DEF Building
  <2> QED
    BY <1>8, <1>9, <1>10, <2>1, <2>2, <2>3 DEF TableSane
<1>13. LocalsSane(t)'
  <2>1. Numbers(sb.fat_size) \subseteq Numbers(z) /\ Starts(sb.fat_size) \subseteq Starts(z)
    BY <1>3, <1>4, NumbersGrow
  <2>2. /\ r.de.start \in Starts(sb.fat_size) /\ r.cur \in Numbers(sb.fat_size)
        /\ (r.start # FAT_NULL => r.start > Root) /\ r.file \in Files /\ r.todo > 0 /\ r.new > Root
    BY <1>0, <1>1, <1>2 DEF LocalsSane
  <2> QED
    BY <1>9, <1>10, <2>1, <2>2 DEF LocalsSane
<1>14. Ahead(t)'
  <2>1. ~(r.start >= z) /\ ~(r.new >= z) /\ next_alloc + 1 <= z
    BY <1>3, <1>4, <1>6
  <2> QED
    BY <1>3, <1>4, <1>9, <1>10, <2>1 DEF Ahead
<1> QED
  BY <1>1, <1>2, <1>11, <1>12, <1>13, <1>14, DiskStays DEF Healthy

LEMMA PlaceNextSane ==
  ASSUME NEW t, Threads = {t}, Healthy(t), UNCHANGED saved, PlaceNext(t)
  PROVE  Healthy(t)'
<1>0. PICK r, q : r = reg[t] /\ q = [r EXCEPT !.last = r.new, !.todo = @ - 1]
  OBVIOUS
<1>1. /\ UNCHANGED <<sb, next_alloc, freed, entry, stored, fault, saved>>
      /\ pc[t] = "place" /\ pc' = [pc EXCEPT ![t] = "alloc"]
      /\ reg' = [reg EXCEPT ![t] = q] /\ r.start # FAT_NULL /\ r.new < sb.fat_size
      /\ fat' = [fat EXCEPT ![r.last] = r.new]
  BY <1>0 DEF PlaceNext, At, Goto, Set, InSize
<1>2. /\ Types /\ DiskSane /\ TableSane(t) /\ LocalsSane(t) /\ Ahead(t) /\ fault = "none"
  BY DEF Healthy
<1>3. /\ r \in Locals /\ r.new \in Blocks /\ r.new \in Nat /\ r.start \in Nat
      /\ sb.fat_size \in Nat /\ next_alloc \in Nat
      /\ r.todo \in 0..MaxFile /\ MaxFile \in Nat /\ Root = 2
  BY <1>0, <1>2, SaneBasics
<1>4. r.todo > 0 /\ r.new > Root
  BY <1>0, <1>1, <1>2 DEF LocalsSane
<1>5. /\ q \in Locals /\ q.start = r.start /\ q.de = r.de /\ q.cur = r.cur /\ q.file = r.file
  <2>1. r.todo - 1 \in 0..MaxFile
    BY <1>3, <1>4
  <2> QED
    BY <1>0, <1>3, <2>1 DEF Locals
<1>6. reg'[t] = q /\ pc'[t] = "alloc"
  BY <1>1, <1>2, SaneBasics
<1>7. Types'
  <2>1. pc' \in [Threads -> Steps] /\ reg' \in [Threads -> Locals]
    BY <1>1, <1>2, <1>5, SaneBasics DEF Steps
  <2>2. fat' \in [0..(sb.fat_size - 1) -> Blocks \cup {Cut}]
    BY <1>1, <1>2, <1>3 DEF Types
  <2> QED
    BY <1>1, <1>2, <2>1, <2>2 DEF Types
<1>8. TableSane(t)'
  <2>1. pc[t] \in Building /\ pc'[t] \in Building
    BY <1>1, <1>6 DEF Building
  <2>2. r.new \in Numbers(sb.fat_size)
    BY <1>1, <1>3, <1>4 DEF Numbers, Given
  <2>3. \A i \in 0..(sb.fat_size - 1) : fat'[i] \in Numbers(sb.fat_size)
    BY <1>1, <1>2, <2>2 DEF TableSane, Types
  <2> QED
    BY <1>1, <1>2, <2>1, <2>3 DEF TableSane
<1>9. LocalsSane(t)'
  BY <1>0, <1>1, <1>2, <1>4, <1>5, <1>6 DEF LocalsSane
<1>10. Ahead(t)'
  <2>1. ~(r.start >= sb.fat_size)
    <3> SUFFICES ASSUME r.start >= sb.fat_size PROVE FALSE
      OBVIOUS
    <3>1. r.new > r.start
      BY <1>0, <1>1, <1>2 DEF Ahead
    <3> QED
      BY <1>1, <1>3, <3>1
  <2>2. ~(r.new >= sb.fat_size)
    BY <1>1, <1>3
  <2>3. next_alloc <= sb.fat_size
    BY <1>0, <1>2, <1>3, <2>1, <2>2 DEF Ahead
  <2> QED
    BY <1>1, <1>3, <1>5, <1>6, <2>1, <2>3 DEF Ahead
<1> QED
  BY <1>1, <1>2, <1>7, <1>8, <1>9, <1>10, DiskStays DEF Healthy

(* The table on disk was written, and did not shrink. *)
LEMMA DiskWritten ==
  ASSUME DiskSane, UNCHANGED <<entry, saved>>, stored'.sb \in Superblocks,
         stored.sb.fat_size <= stored'.sb.fat_size,
         PartsSane(stored'.part, stored'.sb.fat_size)
  PROVE  DiskSane'
<1>0. PICK a, z : a = stored.sb.fat_size /\ z = stored'.sb.fat_size
  OBVIOUS
<1>1. a \in Nat /\ z \in Nat /\ a <= z
  BY <1>0 DEF DiskSane, Superblocks
<1>2. Starts(a) \subseteq Starts(z) /\ Given(a) \subseteq Given(z)
  BY <1>1, NumbersGrow
<1>3. ASSUME NEW f \in Files
      PROVE  entry'[f].start \in Starts(z) /\ (entry'[f].blocks = -1 => entry'[f] = NoEntry)
  BY <1>0, <1>2 DEF DiskSane
<1>4. saved' = NoState \/ (/\ saved' \in [next_alloc : 3..MaxBlocks, freed : SUBSET Blocks]
                           /\ saved'.next_alloc <= z /\ saved'.freed \subseteq Given(z))
  <2> SUFFICES ASSUME saved # NoState PROVE <1>4!2
    OBVIOUS
  <2>1. /\ saved \in [next_alloc : 3..MaxBlocks, freed : SUBSET Blocks]
        /\ saved.next_alloc <= a /\ saved.freed \subseteq Given(a)
    BY <1>0 DEF DiskSane
  <2>2. saved.next_alloc \in Nat
    BY <2>1, FatAssumption
  <2>3. saved.next_alloc <= z /\ saved.freed \subseteq Given(z)
    BY <1>1, <1>2, <2>1, <2>2
  <2> QED
    BY <2>1, <2>3
<1>5. entry' \in [Files -> Entries]
  BY DEF DiskSane
<1> QED
  BY <1>0, <1>3, <1>4, <1>5 DEF DiskSane

LEMMA EndChainSane ==
  ASSUME NEW t, Threads = {t}, Healthy(t), UNCHANGED saved, EndChain(t), fault' = "none"
  PROVE  Healthy(t)'
<1>0. PICK r, table, super : r = reg[t] /\ table = Ended(r) /\ super = Charged(r)
  OBVIOUS
<1>1. /\ UNCHANGED <<next_alloc, freed, entry, reg, fault, saved>>
      /\ pc[t] = "alloc" /\ pc' = [pc EXCEPT ![t] = "attach"]
      /\ r.last \in DOMAIN fat /\ fat' = table /\ sb' = super
      /\ stored' = [part |-> write_fat(table, super), sb |-> super]
  BY <1>0 DEF EndChain, At, Goto, Fails
<1>2. /\ Types /\ DiskSane /\ TableSane(t) /\ LocalsSane(t) /\ Ahead(t) /\ fault = "none"
  BY DEF Healthy
<1>3. /\ r \in Locals /\ r.last \in Nat /\ r.start \in Nat /\ sb.fat_size \in Nat /\ next_alloc \in Nat
      /\ sb \in Superblocks /\ r.want \in 0..MaxFile /\ r.de.blocks \in -1..MaxFile /\ MaxFile \in Nat
      /\ 0 \in Blocks
  BY <1>0, <1>2, SaneBasics
<1>4. DOMAIN fat = 0..(sb.fat_size - 1) /\ r.last < sb.fat_size
  <2>1. DOMAIN fat = 0..(sb.fat_size - 1)
    BY <1>2 DEF Types
  <2> QED
    BY <1>1, <1>3, <2>1
<1>5. super \in Superblocks /\ super.fat_size = sb.fat_size
  <2>1. sb.free_blocks \in Int /\ r.want \in Int /\ r.de.blocks \in Int
    BY <1>3 DEF Superblocks
  <2>2. sb.free_blocks - (r.want - r.de.blocks) \in Int
    BY <2>1
  <2>3. super = [sb EXCEPT !.free_blocks = sb.free_blocks - (r.want - r.de.blocks)]
    BY <1>0 DEF Charged, num_blocks
  <2> QED
    BY <1>3, <2>2, <2>3 DEF Superblocks
<1>6. /\ table \in [0..(sb.fat_size - 1) -> Blocks \cup {Cut}]
      /\ \A i \in 0..(sb.fat_size - 1) : table[i] \in Numbers(sb.fat_size)
  <2>1. table = [fat EXCEPT ![r.last] = 0]
    BY <1>0 DEF Ended, FAT_NULL
  <2>2. 0 \in Numbers(sb.fat_size)
    BY DEF Numbers, FAT_NULL
  <2>3. \A i \in 0..(sb.fat_size - 1) : fat[i] \in Numbers(sb.fat_size)
    BY <1>2 DEF TableSane
  <2> QED
    BY <1>2, <1>3, <2>1, <2>2, <2>3 DEF Types
<1>7. pc'[t] = "attach"
  BY <1>1, <1>2, SaneBasics
<1>8. Types'
  <2>1. pc' \in [Threads -> Steps]
    BY <1>1, <1>2, SaneBasics DEF Steps
  <2> QED
    BY <1>1, <1>2, <1>5, <1>6, <2>1 DEF Types, Superblocks
<1>9. stored'.sb = super /\ stored'.part = write_fat(table, super)
  BY <1>1
<1>10. DiskSane'
  <2>1. WritesOnly(table, super, sb.fat_size)
    BY <1>3, <1>5, <1>6 DEF WritesOnly
  <2>2. PartsSane(stored'.part, stored'.sb.fat_size)
    BY <1>5, <1>9, <2>1, PartsStaySane
  <2>3. stored.sb.fat_size <= stored'.sb.fat_size
    <3>1. pc[t] \in Building
      BY <1>1 DEF Building
    <3>2. stored.sb.fat_size \in Nat /\ sb.fat_size >= stored.sb.fat_size
      BY <1>2, <3>1 DEF TableSane, DiskSane, Superblocks
    <3> QED
      BY <1>3, <1>5, <1>9, <3>2
  <2> QED
    BY <1>1, <1>2, <1>5, <1>9, <2>2, <2>3, DiskWritten
<1>11. TableSane(t)'
  <2>1. pc'[t] \notin Building
    BY <1>7 DEF Building
  <2> QED
    BY <1>1, <1>2, <1>5, <1>6, <1>9, <2>1 DEF TableSane
<1>12. LocalsSane(t)'
  BY <1>0, <1>1, <1>2, <1>5, <1>7 DEF LocalsSane
<1>13. Ahead(t)'
  <2>1. ~(r.start >= sb.fat_size)
    <3> SUFFICES ASSUME r.start >= sb.fat_size PROVE FALSE
      OBVIOUS
    <3>1. r.last = r.start
      BY <1>0, <1>2 DEF Ahead
    <3> QED
      BY <1>3, <1>4, <3>1
  <2>2. next_alloc <= sb.fat_size
    BY <1>0, <1>1, <1>2, <1>3, <2>1 DEF Ahead
  <2> QED
    BY <1>0, <1>1, <1>3, <1>5, <1>7, <2>1, <2>2 DEF Ahead
<1> QED
  BY <1>1, <1>2, <1>8, <1>10, <1>11, <1>12, <1>13 DEF Healthy

LEMMA AttachSane ==
  ASSUME NEW t, Threads = {t}, Healthy(t), UNCHANGED saved, Attach(t), fault' = "none"
  PROVE  Healthy(t)'
<1>0. PICK r, q : r = reg[t] /\ q = [r EXCEPT !.de = [r.de EXCEPT !.start = r.start]]
  OBVIOUS
<1>1. /\ UNCHANGED <<sb, next_alloc, freed, entry, fault, saved>>
      /\ pc[t] = "attach" /\ pc' = [pc EXCEPT ![t] = "save"]
      /\ \/ r.de.start = FAT_NULL /\ reg' = [reg EXCEPT ![t] = q] /\ UNCHANGED <<fat, stored>>
         \/ /\ UNCHANGED reg /\ EndsWell(r.de.start)
            /\ fat' = Linked(r) /\ stored' = [stored EXCEPT !.part = write_fat(Linked(r), sb)]
  BY <1>0 DEF Attach, At, Goto, Set, Fails
<1>2. /\ Types /\ DiskSane /\ TableSane(t) /\ LocalsSane(t) /\ Ahead(t) /\ fault = "none"
  BY DEF Healthy
<1>3. pc[t] \notin Building /\ pc'[t] = "save"
  BY <1>1, <1>2, SaneBasics DEF Building
<1>4. /\ r \in Locals /\ r.de \in Entries /\ r.start \in Blocks /\ r.start \in Nat /\ sb.fat_size \in Nat
      /\ FAT_NULL = 0 /\ sb \in Superblocks
  BY <1>0, <1>2, SaneBasics
<1>5. sb.fat_size = stored.sb.fat_size /\ r.start < sb.fat_size
  BY <1>0, <1>3, Level
<1>6. r.start \in Starts(sb.fat_size) /\ r.start \in Numbers(sb.fat_size)
  <2>1. r.start # FAT_NULL => r.start > Root
    BY <1>0, <1>2 DEF LocalsSane
  <2> QED
    BY <1>4, <1>5, <2>1 DEF Starts, Numbers, Given
<1>7. /\ r.de.start \in Starts(sb.fat_size) /\ r.cur \in Numbers(sb.fat_size) /\ r.file \in Files
  BY <1>0, <1>1, <1>2 DEF LocalsSane
<1>8. next_alloc' > Root /\ next_alloc' <= next_alloc /\ freed' \subseteq Given(sb.fat_size)
  BY <1>1, <1>2, SaneBasics DEF TableSane
<1>9. /\ fat \in [0..(sb.fat_size - 1) -> Blocks \cup {Cut}]
      /\ \A i \in 0..(sb.fat_size - 1) : fat[i] \in Numbers(sb.fat_size)
  BY <1>2 DEF Types, TableSane
<1>10. pc' \in [Threads -> Steps]
  BY <1>1, <1>2, SaneBasics DEF Steps
<1>11. CASE reg' = [reg EXCEPT ![t] = q] /\ UNCHANGED <<fat, stored>>
  <2>1. /\ q \in Locals /\ q.de.start = r.start /\ q.cur = r.cur /\ q.start = r.start /\ q.file = r.file
    <3>1. PICK de : de = [r.de EXCEPT !.start = r.start]
      OBVIOUS
    <3>2. de \in Entries /\ de.start = r.start
      BY <1>4, <3>1 DEF Entries
    <3> QED
      BY <1>0, <1>4, <3>1, <3>2 DEF Locals
  <2>2. reg'[t] = q
    BY <1>2, <1>11, SaneBasics
  <2>3. Types'
    <3>1. reg' \in [Threads -> Locals]
      BY <1>2, <1>11, <2>1, SaneBasics
    <3> QED
      BY <1>1, <1>2, <1>10, <1>11, <3>1 DEF Types
  <2>4. DiskSane'
    BY <1>1, <1>2, <1>11, DiskStays
  <2>5. \A i \in 0..(sb.fat_size - 1) : fat'[i] \in Numbers(sb.fat_size)
    BY <1>9, <1>11
  <2> QED
    BY <1>0, <1>1, <1>3, <1>6, <1>7, <1>8, <1>11, <2>1, <2>2, <2>3, <2>4, <2>5, LevelSane, <1>2 DEF Building
<1>12. ASSUME UNCHANGED reg, fat' = Linked(r), stored' = [stored EXCEPT !.part = write_fat(Linked(r), sb)]
       PROVE  Healthy(t)'
  <2>0. PICK table : table = Linked(r)
    OBVIOUS
  <2>1. /\ table \in [0..(sb.fat_size - 1) -> Blocks \cup {Cut}]
        /\ \A i \in 0..(sb.fat_size - 1) : table[i] \in Numbers(sb.fat_size)
    BY <1>4, <1>6, <1>9, <2>0 DEF Linked
  <2>2. PICK part : part = write_fat(table, sb)
    OBVIOUS
  <2>3. stored'.sb = stored.sb /\ (stored'.part = part \/ stored'.part = stored.part)
    <3>1. stored' = [stored EXCEPT !.part = part]
      BY <1>12, <2>0, <2>2
    <3> QED
      BY <3>1
  <2>4. PartsSane(part, sb.fat_size)
    <3>1. WritesOnly(table, sb, sb.fat_size)
      BY <1>4, <2>1 DEF WritesOnly
    <3> QED
      BY <2>2, <3>1, PartsStaySane
  <2>5. PartsSane(stored'.part, stored'.sb.fat_size)
    <3>1. PartsSane(stored.part, sb.fat_size)
      BY <1>2, <1>5 DEF DiskSane
    <3> QED
      BY <1>5, <2>3, <2>4, <3>1
  <2>6. DiskSane'
    BY <1>1, <1>2, <1>4, <1>5, <2>3, <2>5, DiskWritten DEF DiskSane
  <2>7. fat' = table
    BY <1>12, <2>0
  <2>8. Types'
    BY <1>1, <1>2, <1>10, <1>12, <2>1, <2>7 DEF Types
  <2>9. TableSane(t)'
    BY <1>1, <1>2, <1>3, <1>5, <2>1, <2>3, <2>7 DEF TableSane, Building
  <2>10. LocalsSane(t)'
    BY <1>0, <1>1, <1>2, <1>3, <1>12 DEF LocalsSane
  <2>11. Ahead(t)'
    BY <1>1, <1>2, <1>3, <1>12 DEF Ahead, Building
  <2> QED
    BY <1>1, <1>2, <2>6, <2>8, <2>9, <2>10, <2>11 DEF Healthy
<1> QED
  BY <1>1, <1>11, <1>12

LEMMA FreeNextSane ==
  ASSUME NEW t, Threads = {t}, Healthy(t), UNCHANGED saved, FreeNext(t), fault' = "none"
  PROVE  Healthy(t)'
<1>0. PICK r, b, q : r = reg[t] /\ b = r.cur /\ q = [r EXCEPT !.cur = fat[b]]
  OBVIOUS
<1>1. /\ UNCHANGED <<fat, entry, stored, pc, fault, saved>>
      /\ pc[t] = "free" /\ b # FAT_NULL /\ b \notin freed \cup {Cut}
      /\ sb' = [sb EXCEPT !.free_blocks = sb.free_blocks + 1]
      /\ reg' = [reg EXCEPT ![t] = q]
  BY <1>0 DEF FreeNext, At, Set, Fails
<1>2. /\ Types /\ DiskSane /\ TableSane(t) /\ LocalsSane(t) /\ fault = "none"
  BY DEF Healthy
<1>3. pc[t] \notin Building /\ pc'[t] \notin Building
  BY <1>1 DEF Building
<1>4. /\ sb.fat_size = stored.sb.fat_size /\ sb.fat_size \in Nat
      /\ next_alloc <= sb.fat_size /\ next_alloc > 2
  BY <1>3, Level
<1>5. /\ r \in Locals /\ next_alloc \in Nat /\ next_alloc <= MaxBlocks /\ MaxBlocks \in Nat
      /\ sb \in Superblocks /\ Root = 2 /\ \A x \in Blocks : x \in Nat
  BY <1>0, <1>2, SaneBasics
<1>6. b \in Given(sb.fat_size) /\ b \in Nat /\ b > 2 /\ b < sb.fat_size
  <2>1. b \in Numbers(sb.fat_size)
    BY <1>0, <1>2 DEF LocalsSane
  <2>2. b \in Given(sb.fat_size)
    BY <1>1, <2>1 DEF Numbers
  <2> QED
    BY <1>5, <2>2 DEF Given
<1>7. PICK m \in 0..next_alloc : \E n \in {next_alloc - 1, next_alloc} : \E f \in {freed, freed \cup {b}} :
         /\ (b = next_alloc - 1 => n = next_alloc - 1 /\ f = freed)
         /\ (b # next_alloc - 1 => n = next_alloc)
         /\ CleanedTo(n, f, m) /\ next_alloc' = m /\ freed' = f \ (m..(n - 1))
  BY <1>0, <1>1 DEF FreeNext, Fails
<1>8. PICK n \in {next_alloc - 1, next_alloc}, f \in {freed, freed \cup {b}} :
         /\ (b = next_alloc - 1 => n = next_alloc - 1 /\ f = freed)
         /\ (b # next_alloc - 1 => n = next_alloc)
         /\ CleanedTo(n, f, m) /\ next_alloc' = m /\ freed' = f \ (m..(n - 1))
  BY <1>7
<1>9. f \subseteq Given(sb.fat_size) /\ \A x \in f : x \in Nat /\ x > 2
  <2>1. freed \subseteq Given(sb.fat_size)
    BY <1>2 DEF TableSane
  <2>2. f \subseteq Given(sb.fat_size)
    BY <1>6, <2>1
  <2> QED
    BY <1>5, <2>2 DEF Given
<1>10. m > 2
  <2>1. n \in Nat /\ n > 2 /\ m \in Nat
    BY <1>4, <1>5, <1>6, <1>8
  <2> SUFFICES ASSUME m <= 2 PROVE FALSE
    BY <2>1
  <2>2. 2 \in m..(n - 1)
    BY <2>1
  <2>3. 2 \in f
    BY <1>8, <2>2 DEF CleanedTo
  <2> QED
    BY <1>9, <2>3
<1>11. next_alloc' > Root /\ next_alloc' <= next_alloc /\ freed' \subseteq Given(sb.fat_size)
  BY <1>5, <1>8, <1>9, <1>10
<1>12. sb' \in Superblocks /\ sb'.fat_size = sb.fat_size
  <2>1. sb.free_blocks \in Int
    BY <1>5 DEF Superblocks
  <2>2. sb.free_blocks + 1 \in Int
    BY <2>1
  <2> QED
    BY <1>1, <1>5, <2>2 DEF Superblocks
<1>13. /\ fat \in [0..(sb.fat_size - 1) -> Blocks \cup {Cut}]
       /\ \A i \in 0..(sb.fat_size - 1) : fat[i] \in Numbers(sb.fat_size)
  BY <1>2 DEF Types, TableSane
<1>14. fat[b] \in Blocks \cup {Cut} /\ fat[b] \in Numbers(sb.fat_size)
  <2>1. b \in 0..(sb.fat_size - 1)
    BY <1>4, <1>6
  <2> QED
    BY <1>13, <2>1
<1>15. q \in Locals /\ q.cur = fat[b] /\ q.de = r.de /\ q.start = r.start /\ q.file = r.file
  BY <1>0, <1>5, <1>14 DEF Locals
<1>16. reg'[t] = q
  BY <1>1, <1>2, SaneBasics
<1>17. Types'
  <2>1. reg' \in [Threads -> Locals]
    BY <1>1, <1>2, <1>15, SaneBasics
  <2>2. next_alloc' \in 0..MaxBlocks
    BY <1>5, <1>8
  <2>3. freed' \subseteq Blocks
    BY <1>11 DEF Given
  <2> QED
    BY <1>1, <1>2, <1>12, <2>1, <2>2, <2>3 DEF Types, Superblocks
<1>18. DiskSane'
  BY <1>1, <1>2, DiskStays
<1>19. r.de.start \in Starts(sb.fat_size) /\ r.file \in Files
  BY <1>0, <1>1, <1>2 DEF LocalsSane
<1>20. \A i \in 0..(sb.fat_size - 1) : fat'[i] \in Numbers(sb.fat_size)
  BY <1>1, <1>13
<1>21. /\ UNCHANGED stored /\ fault' = "none"
       /\ reg'[t].de.start \in Starts(sb.fat_size) /\ reg'[t].cur \in Numbers(sb.fat_size)
       /\ reg'[t].start = reg[t].start /\ reg'[t].file \in Files
  BY <1>0, <1>1, <1>2, <1>14, <1>15, <1>16, <1>19
<1> QED
  BY <1>3, <1>11, <1>12, <1>17, <1>18, <1>20, <1>21, LevelSane

LEMMA FreeDoneSane ==
  ASSUME NEW t, Threads = {t}, Healthy(t), UNCHANGED saved, FreeDone(t)
  PROVE  Healthy(t)'
<1>1. /\ UNCHANGED <<fat, sb, next_alloc, freed, entry, reg, fault, saved>>
      /\ pc[t] = "free" /\ pc' = [pc EXCEPT ![t] = "save"]
      /\ stored' = [part |-> write_fat(fat, sb), sb |-> sb]
  BY DEF FreeDone, At, Goto
<1>2. /\ Types /\ DiskSane /\ TableSane(t) /\ LocalsSane(t) /\ Ahead(t) /\ fault = "none"
  BY DEF Healthy
<1>3. pc[t] \notin Building /\ pc'[t] = "save"
  BY <1>1, <1>2, SaneBasics DEF Building
<1>4. /\ sb.fat_size = stored.sb.fat_size /\ sb.fat_size \in Nat
  BY <1>3, Level
<1>5. sb \in Superblocks
  BY <1>2, SaneBasics
<1>6. stored'.sb = sb /\ stored'.part = write_fat(fat, sb)
  BY <1>1
<1>7. WritesOnly(fat, sb, sb.fat_size)
  BY <1>2, <1>4 DEF WritesOnly, TableSane
<1>8. PartsSane(stored'.part, stored'.sb.fat_size)
  BY <1>6, <1>7, PartsStaySane
<1>9. stored.sb.fat_size <= stored'.sb.fat_size
  BY <1>4, <1>6
<1>10. DiskSane'
  BY <1>1, <1>2, <1>5, <1>6, <1>8, <1>9, DiskWritten
<1>11. pc' \in [Threads -> Steps]
  BY <1>1, <1>2, SaneBasics DEF Steps
<1>12. Types'
  BY <1>1, <1>2, <1>11 DEF Types
<1>13. TableSane(t)'
  <2>1. pc'[t] \notin Building
    BY <1>3 DEF Building
  <2> QED
    BY <1>1, <1>2, <1>6, <2>1 DEF TableSane
<1>14. LocalsSane(t)'
  BY <1>1, <1>2, <1>3 DEF LocalsSane
<1>15. Ahead(t)'
  BY <1>1, <1>2, <1>3 DEF Ahead, Building
<1> QED
  BY <1>1, <1>2, <1>10, <1>12, <1>13, <1>14, <1>15 DEF Healthy

LEMMA SaveSane ==
  ASSUME NEW t, Threads = {t}, Healthy(t), UNCHANGED saved, Save(t)
  PROVE  Healthy(t)'
<1>0. PICK r, e : /\ r = reg[t]
                  /\ e = IF r.op = "truncate" /\ Exists(r.file)
                         THEN [start |-> r.de.start, blocks |-> r.want] ELSE NoEntry
  OBVIOUS
<1>1. /\ UNCHANGED <<fat, sb, next_alloc, freed, stored, fault, saved>>
      /\ pc[t] = "save" /\ pc' = [pc EXCEPT ![t] = "idle"]
      /\ reg' = [reg EXCEPT ![t] = NoLocals]
      /\ entry' = [entry EXCEPT ![r.file] = e]
  BY <1>0 DEF Save, At, Goto, Set
<1>2. /\ Types /\ DiskSane /\ TableSane(t) /\ LocalsSane(t) /\ fault = "none"
  BY DEF Healthy
<1>3. pc[t] \notin Building /\ pc'[t] = "idle" /\ reg'[t] = NoLocals
  BY <1>1, <1>2, SaneBasics DEF Building
<1>4. sb.fat_size = stored.sb.fat_size
  BY <1>3, Level
<1>5. /\ r.de.start \in Starts(sb.fat_size) /\ r.file \in Files
  BY <1>0, <1>1, <1>2 DEF LocalsSane
<1>6. /\ r.de.start \in Blocks /\ r.want \in 0..MaxFile /\ MaxFile \in Nat
      /\ next_alloc \in Nat /\ Root = 2
  BY <1>0, <1>2, SaneBasics
<1>7. 0 \in Starts(sb.fat_size) /\ 0 \in Numbers(sb.fat_size)
  BY DEF Starts, Numbers, FAT_NULL
<1>8. e \in Entries /\ e.start \in Starts(sb.fat_size) /\ (e.blocks = -1 => e = NoEntry)
  <2>1. CASE e = NoEntry
    BY <1>7, <2>1, NoLocalsAre DEF NoEntry, FAT_NULL
  <2>2. CASE e = [start |-> r.de.start, blocks |-> r.want]
    BY <1>5, <1>6, <2>2 DEF Entries
  <2> QED
    BY <1>0, <2>1, <2>2
<1>9. Types'
  <2>1. pc' \in [Threads -> Steps] /\ reg' \in [Threads -> Locals]
    BY <1>1, <1>2, NoLocalsAre, SaneBasics DEF Steps
  <2> QED
    BY <1>1, <1>2, <1>8, <2>1 DEF Types
<1>10. DiskSane'
  <2>1. ASSUME NEW g \in Files
        PROVE  /\ entry'[g].start \in Starts(stored.sb.fat_size)
               /\ entry'[g].blocks = -1 => entry'[g] = NoEntry
    BY <1>1, <1>2, <1>4, <1>8 DEF DiskSane
  <2>2. entry' \in [Files -> Entries]
    BY <1>1, <1>2, <1>8 DEF DiskSane
  <2> QED
    BY <1>1, <1>2, <2>1, <2>2 DEF DiskSane
<1>11. /\ next_alloc' > Root /\ next_alloc' <= next_alloc /\ freed' \subseteq Given(sb.fat_size)
       /\ \A i \in 0..(sb.fat_size - 1) : fat'[i] \in Numbers(sb.fat_size)
  BY <1>1, <1>2, <1>6 DEF TableSane
<1>12. /\ reg'[t].de.start \in Starts(sb.fat_size) /\ reg'[t].cur \in Numbers(sb.fat_size)
       /\ reg'[t].start = 0
  BY <1>3, <1>7, NoLocalsAre
<1>13. UNCHANGED stored /\ sb'.fat_size = sb.fat_size /\ fault' = "none" /\ pc'[t] \notin Building
  BY <1>1, <1>2, <1>3 DEF Building
<1> QED
  BY <1>3, <1>9, <1>10, <1>11, <1>12, <1>13, LevelSane

(* A step that ends the process, or goes on with memory that is not its own. *)
LEMMA FaultsSane ==
  ASSUME NEW t, Threads = {t}, Healthy(t), UNCHANGED saved, fault' # "none",
         Begin(t) \/ Step(t)
  PROVE  Types' /\ DiskSane' /\ fault' \in {"overrun", "wild", "twice"}
<1>1. /\ fault' \in {"overrun", "wild", "twice"}
      /\ UNCHANGED <<fat, sb, next_alloc, freed, entry, stored, pc, reg>>
  BY DEF Begin, Step, Healthy, Mknod, Unlink, Grow, Shrink, Take, Advance, PlaceFirst, Expand,
         PlaceNext, EndChain, Attach, FreeNext, FreeDone, Save, Fails
<1>2. Types'
  BY <1>1 DEF Healthy, Types
<1>3. DiskSane'
  BY <1>1, DiskStays DEF Healthy
<1> QED
  BY <1>1, <1>2, <1>3

(* Every step of an operation. *)
LEMMA OperationSane ==
  ASSUME NEW t, Threads = {t}, Healthy(t), UNCHANGED saved, Begin(t) \/ Step(t)
  PROVE  \/ Healthy(t)'
         \/ Types' /\ DiskSane' /\ fault' \in {"overrun", "wild", "twice"}
<1>1. CASE fault' # "none"
  BY <1>1, FaultsSane
<1>2. CASE fault' = "none" /\ Begin(t)
  BY <1>2, MknodSane, UnlinkSane, GrowSane, ShrinkSane DEF Begin
<1>3. CASE fault' = "none" /\ Step(t)
  BY <1>3, TakeSane, AdvanceSane, PlaceFirstSane, ExpandSane, PlaceNextSane, EndChainSane,
     AttachSane, FreeNextSane, FreeDoneSane, SaveSane DEF Step
<1> QED
  BY <1>1, <1>2, <1>3

LEMMA Marked ==
  ASSUME holds \in [Blocks -> Marks], NEW what \in Marks, NEW blocks, Holding(blocks, what)
  PROVE  holds' \in [Blocks -> Marks]
BY DEF Holding

(* A step while the file system is mounted. *)
LEMMA RunningObserved ==
  ASSUME NEW t, Threads = {t}, Healthy(t), Observed, UNCHANGED crashes,
         RBegin(t) \/ RStep(t) \/ \E f \in Files : Overwrite(t, f)
  PROVE  Observed'
<1>1. CASE RBegin(t)
  <2>1. PICK f \in Files : kept' = Unchanged(f)
    BY <1>1 DEF RBegin
  <2>2. DOMAIN kept'.files \subseteq Files
    BY <2>1 DEF Observed, Unchanged
  <2>3. UNCHANGED holds
    BY <1>1 DEF RBegin
  <2> QED
    BY <2>2, <2>3 DEF Observed
<1>2. CASE RStep(t)
  <2>1. UNCHANGED kept
    BY <1>2 DEF RStep
  <2>2. PICK blocks, what : /\ UNCHANGED holds \/ Holding(blocks, what)
                            /\ \/ what \in {"table", "nothing"}
                               \/ what = reg[t].file /\ Take(t)
    BY <1>2 DEF RStep
  <2>3. what \in Marks
    <3>1. Take(t) => reg[t].file \in Files
      BY DEF Take, At, Healthy, LocalsSane
    <3> QED
      BY <2>2, <3>1 DEF Marks
  <2>4. holds' \in [Blocks -> Marks]
    BY <2>2, <2>3, Marked DEF Observed
  <2> QED
    BY <2>1, <2>4 DEF Observed
<1>3. CASE \E f \in Files : Overwrite(t, f)
  <2>1. PICK f \in Files : UNCHANGED kept /\ \E b : Holding({b}, f)
    BY <1>3 DEF Overwrite
  <2>2. f \in Marks
    BY DEF Marks
  <2>3. holds' \in [Blocks -> Marks]
    BY <2>1, <2>2, Marked DEF Observed
  <2> QED
    BY <2>1, <2>3 DEF Observed
<1> QED
  BY <1>1, <1>2, <1>3

LEMMA OverwriteSane ==
  ASSUME NEW t, Threads = {t}, Healthy(t), UNCHANGED saved, NEW f \in Files, Overwrite(t, f)
  PROVE  Healthy(t)'
<1>1. UNCHANGED <<fat, sb, next_alloc, freed, pc, reg, entry, stored, fault, saved>>
  BY DEF Overwrite, process
<1>2. Types' /\ DiskSane'
  BY <1>1 DEF Healthy, Types, DiskSane
<1>3. TableSane(t)' /\ LocalsSane(t)' /\ Ahead(t)'
  BY <1>1 DEF Healthy, TableSane, LocalsSane, Ahead
<1> QED
  BY <1>1, <1>2, <1>3 DEF Healthy

(* What write_fat would be called with is fit to be written, whole or not. *)
LEMMA PendingSane ==
  ASSUME NEW t, Threads = {t}, Healthy(t), NEW w \in Pending(t)
  PROVE  /\ w.sb \in Superblocks /\ w.sb.fat_size >= stored.sb.fat_size
         /\ WritesOnly(w.table, w.sb, w.sb.fat_size)
         /\ w.super # "before" => w.sb.fat_size = stored.sb.fat_size
<1>0. PICK r : r = reg[t]
  OBVIOUS
<1>1. /\ Types /\ DiskSane /\ TableSane(t) /\ LocalsSane(t)
  BY DEF Healthy
<1>2. /\ r.start \in Nat /\ r.start \in Blocks /\ sb.fat_size \in Nat /\ sb \in Superblocks
      /\ r.want \in 0..MaxFile /\ r.de.blocks \in -1..MaxFile /\ MaxFile \in Nat
  BY <1>0, <1>1, SaneBasics
<1>3. /\ fat \in [0..(sb.fat_size - 1) -> Blocks \cup {Cut}]
      /\ \A i \in 0..(sb.fat_size - 1) : fat[i] \in Numbers(sb.fat_size)
  BY <1>1 DEF Types, TableSane
<1>4. CASE pc[t] = "alloc" /\ w = [table |-> Ended(r), sb |-> Charged(r), super |-> "before"]
  <2>1. w.table = Ended(r) /\ w.sb = Charged(r) /\ w.super = "before"
    BY <1>4
  <2>2. Charged(r) \in Superblocks /\ Charged(r).fat_size = sb.fat_size
    <3>1. sb.free_blocks \in Int /\ r.want \in Int /\ r.de.blocks \in Int
      BY <1>2 DEF Superblocks
    <3>2. sb.free_blocks - (r.want - r.de.blocks) \in Int
      BY <3>1
    <3>3. Charged(r) = [sb EXCEPT !.free_blocks = sb.free_blocks - (r.want - r.de.blocks)]
      BY DEF Charged, num_blocks
    <3> QED
      BY <1>2, <3>2, <3>3 DEF Superblocks
  <2>3. \A i \in 0..(sb.fat_size - 1) : Ended(r)[i] \in Numbers(sb.fat_size)
    <3>1. FAT_NULL \in Numbers(sb.fat_size)
      BY DEF Numbers
    <3> QED
      BY <1>3, <3>1 DEF Ended
  <2>4. sb.fat_size >= stored.sb.fat_size
    BY <1>1, <1>4 DEF TableSane, Building
  <2> QED
    BY <1>2, <2>1, <2>2, <2>3, <2>4 DEF WritesOnly
<1>5. CASE /\ pc[t] = "attach" /\ w = [table |-> Linked(r), sb |-> sb, super |-> "not"]
  <2>1. w.table = Linked(r) /\ w.sb = sb /\ w.super = "not"
    BY <1>5
  <2>2. pc[t] \notin Building
    BY <1>5 DEF Building
  <2>3. sb.fat_size = stored.sb.fat_size /\ r.start < sb.fat_size
    BY <1>0, <2>2, Level
  <2>4. r.start \in Numbers(sb.fat_size)
    <3>1. r.start # FAT_NULL => r.start > Root
      BY <1>0, <1>1 DEF LocalsSane
    <3> QED
      BY <1>2, <2>3, <3>1 DEF Numbers, Given
  <2>5. \A i \in 0..(sb.fat_size - 1) : Linked(r)[i] \in Numbers(sb.fat_size)
    BY <1>3, <2>4 DEF Linked
  <2> QED
    BY <1>2, <2>1, <2>3, <2>5 DEF WritesOnly
<1>6. CASE /\ pc[t] = "free" /\ w = [table |-> fat, sb |-> sb, super |-> "after"]
  <2>1. w.table = fat /\ w.sb = sb /\ w.super = "after"
    BY <1>6
  <2>2. pc[t] \notin Building
    BY <1>6 DEF Building
  <2>3. sb.fat_size = stored.sb.fat_size
    BY <2>2, Level
  <2> QED
    BY <1>2, <1>3, <2>1, <2>3 DEF WritesOnly
<1> QED
  BY <1>0, <1>4, <1>5, <1>6 DEF Pending

LEMMA TornSane ==
  ASSUME NEW t, Threads = {t}, Healthy(t), NEW w \in Pending(t), NEW k,
         UNCHANGED <<entry, saved>>, stored' = Torn(w, k)
  PROVE  DiskSane'
<1>0. PICK a, z, done, new, part :
        /\ a = stored.sb.fat_size /\ z = w.sb.fat_size
        /\ done = TableBlocks(w, k) /\ new = write_fat(w.table, w.sb)
        /\ part = [b \in DOMAIN stored.part \cup done |-> IF b \in done THEN new[b] ELSE stored.part[b]]
  OBVIOUS
<1>1. DiskSane /\ stored.sb \in Superblocks /\ a \in Nat /\ PartsSane(stored.part, a)
  BY <1>0 DEF Healthy, DiskSane, Superblocks
<1>2. /\ w.sb \in Superblocks /\ z \in Nat /\ a <= z /\ WritesOnly(w.table, w.sb, z)
      /\ w.super # "before" => z = a
  BY <1>0, <1>1, PendingSane DEF Superblocks
<1>3. stored'.part = part /\ stored'.sb = IF w.super = "before" THEN w.sb ELSE stored.sb
  BY <1>0 DEF Torn
<1>4. PartsSane(new, z)
  BY <1>0, <1>2, PartsStaySane
<1>5. done \subseteq DOMAIN new
  BY <1>0 DEF TableBlocks, TableChain, write_fat
<1>6. PartsSane(part, z)
  <2>1. Numbers(a) \subseteq Numbers(z)
    BY <1>1, <1>2, NumbersGrow
  <2>2. ASSUME NEW b \in DOMAIN part, NEW i \in 0..(FAT_PER_BLOCK - 1)
        PROVE  part[b][i] \in Numbers(z)
    <3>1. CASE b \in done
      <4>1. part[b] = new[b] /\ b \in DOMAIN new
        BY <1>0, <1>5, <3>1
      <4> QED
        BY <1>4, <4>1 DEF PartsSane
    <3>2. CASE b \notin done
      <4>1. part[b] = stored.part[b] /\ b \in DOMAIN stored.part
        BY <1>0, <2>2, <3>2
      <4> QED
        BY <1>1, <2>1, <4>1 DEF PartsSane
    <3> QED
      BY <3>1, <3>2
  <2> QED
    BY <2>2 DEF PartsSane
<1>7. stored'.sb.fat_size = z
  BY <1>0, <1>2, <1>3
<1>8. stored'.sb \in Superblocks
  BY <1>1, <1>2, <1>3
<1> QED
  BY <1>0, <1>1, <1>2, <1>3, <1>6, <1>7, <1>8, DiskWritten

LEMMA UnmountSane ==
  ASSUME NEW t, Threads = {t}, WeakInv(t), Unmount
  PROVE  WeakInv(t)'
<1>1. /\ up /\ ~up' /\ fault = "none" /\ pc[t] = "idle"
      /\ UNCHANGED <<entry, stored, fault, holds, crashes>>
      /\ saved' = [next_alloc |-> next_alloc, freed |-> freed]
      /\ pc' = [u \in Threads |-> "idle"] /\ reg' = [u \in Threads |-> NoLocals]
      /\ kept' = IF clean
                 THEN [files |-> [f \in {g \in Files : Exists(g)} |-> Blocked(f)],
                       fat_size |-> sb.fat_size]
                 ELSE kept
  BY DEF Unmount, Down, Quiet
<1>2. Healthy(t)
  BY <1>1 DEF WeakInv, Sane, Healthy
<1>3. pc[t] \notin Building
  BY <1>1 DEF Building
<1>4. /\ sb.fat_size = stored.sb.fat_size /\ next_alloc <= sb.fat_size /\ next_alloc > 2
  BY <1>2, <1>3, Level
<1>5. next_alloc \in 3..MaxBlocks
  BY <1>2, <1>4, SaneBasics DEF Healthy
<1>6. freed \subseteq Given(sb.fat_size)
  BY <1>2 DEF Healthy, TableSane
<1>7. freed \subseteq Blocks
  BY <1>6 DEF Given
<1>8. saved' \in [next_alloc : 3..MaxBlocks, freed : SUBSET Blocks]
  BY <1>1, <1>5, <1>7
<1>9. saved'.next_alloc <= stored.sb.fat_size /\ saved'.freed \subseteq Given(stored.sb.fat_size)
  BY <1>1, <1>4, <1>6
<1>10. DiskSane'
  BY <1>1, <1>2, <1>8, <1>9 DEF DiskSane, Healthy
<1>11. Observed'
  <2>1. DOMAIN kept'.files \subseteq Files
    <3>1. CASE clean
      <4>1. kept'.files = [f \in {g \in Files : Exists(g)} |-> Blocked(f)]
        BY <1>1, <3>1
      <4> QED
        BY <4>1
    <3>2. CASE ~clean
      BY <1>1, <3>2 DEF WeakInv, Observed
    <3> QED
      BY <3>1, <3>2
  <2> QED
    BY <1>1, <2>1 DEF WeakInv, Observed
<1> QED
  BY <1>1, <1>10, <1>11 DEF WeakInv

LEMMA CrashSane ==
  ASSUME NEW t, Threads = {t}, WeakInv(t), Crash
  PROVE  WeakInv(t)'
<1>1. /\ up /\ ~up' /\ fault = "none" /\ crashes < MaxCrashes /\ crashes' = crashes + 1
      /\ UNCHANGED <<entry, fault, saved, kept>>
      /\ pc' = [u \in Threads |-> "idle"] /\ reg' = [u \in Threads |-> NoLocals]
  BY DEF Crash, Down
<1>2. Healthy(t) /\ Observed
  BY <1>1 DEF WeakInv, Sane, Healthy
<1>3. \/ UNCHANGED <<stored, holds>>
      \/ \E w \in Pending(t) : \E k :
           stored' = Torn(w, k) /\ Holding(TableBlocks(w, k), "table")
  BY DEF Crash
<1>4. DiskSane' /\ holds' \in [Blocks -> Marks]
  <2>1. CASE UNCHANGED <<stored, holds>>
    BY <1>1, <1>2, <2>1, DiskStays DEF Healthy, Observed
  <2>2. ASSUME NEW w \in Pending(t), NEW k, stored' = Torn(w, k), Holding(TableBlocks(w, k), "table")
        PROVE  DiskSane' /\ holds' \in [Blocks -> Marks]
    <3>1. DiskSane'
      BY <1>1, <1>2, <2>2, TornSane
    <3>2. "table" \in Marks
      BY DEF Marks
    <3>3. holds' \in [Blocks -> Marks]
      BY <1>2, <2>2, <3>2, Marked DEF Observed
    <3> QED
      BY <3>1, <3>3
  <2> QED
    BY <1>3, <2>1, <2>2
<1>5. crashes' \in 0..MaxCrashes
  BY <1>1, <1>2, RestartAssumption DEF Observed
<1>6. Observed'
  BY <1>1, <1>2, <1>4, <1>5 DEF Observed
<1> QED
  BY <1>1, <1>4, <1>6 DEF WeakInv

(* A file system that was just made. *)
LEMMA FreshSane ==
  ASSUME NEW t, Threads = {t}
  PROVE  Init /\ saved = NoState => Healthy(t)
<1> SUFFICES ASSUME Init, saved = NoState PROVE Healthy(t)
  OBVIOUS
<1>0. PICK F : F = FAT_PER_BLOCK
  OBVIOUS
<1>1. F \in Nat /\ F > 2 /\ MaxBlocks \in Nat /\ MaxBlocks > 2 /\ MaxFile \in Nat
  BY <1>0, FatAssumption
<1>2. /\ fat = [i \in 0..(F - 1) |-> 0]
      /\ sb = [free_blocks |-> F - 3, fat_size |-> F, fat_start |-> 1, fat_end |-> 1]
      /\ next_alloc = 3 /\ freed = {} /\ entry = [f \in Files |-> NoEntry]
      /\ stored = [part |-> write_fat(fat, sb), sb |-> sb]
      /\ pc = [u \in Threads |-> "idle"] /\ reg = [u \in Threads |-> NoLocals] /\ fault = "none"
  BY <1>0 DEF Init, FAT_NULL
<1>3. pc[t] = "idle" /\ reg[t] = NoLocals
  BY <1>2
<1>4. 0 \in Blocks /\ 1 \in Blocks
  BY <1>1 DEF Blocks
<1>5. 0 \in Numbers(F) /\ 0 \in Starts(F)
  BY DEF Numbers, Starts, FAT_NULL
<1>6. sb \in Superblocks /\ sb.fat_size = F
  BY <1>1, <1>2, <1>4 DEF Superblocks
<1>7. Types
  <2>1. fat \in [0..(F - 1) -> Blocks \cup {Cut}]
    BY <1>2, <1>4
  <2>2. next_alloc \in 0..MaxBlocks
    BY <1>1, <1>2
  <2>3. pc \in [Threads -> Steps] /\ reg \in [Threads -> Locals] /\ entry \in [Files -> Entries]
    BY <1>2, NoLocalsAre DEF Steps
  <2> QED
    BY <1>2, <1>6, <2>1, <2>2, <2>3 DEF Types, Superblocks
<1>8. stored.sb = sb /\ stored.part = write_fat(fat, sb)
  BY <1>2
<1>9. DiskSane
  <2>1. WritesOnly(fat, sb, F)
    BY <1>1, <1>2, <1>5, <1>6 DEF WritesOnly
  <2>2. PartsSane(stored.part, F)
    BY <1>8, <2>1, PartsStaySane
  <2>3. ASSUME NEW f \in Files
        PROVE  entry[f].start \in Starts(F) /\ (entry[f].blocks = -1 => entry[f] = NoEntry)
    BY <1>2, <1>5 DEF NoEntry, FAT_NULL
  <2>4. entry \in [Files -> Entries]
    BY <1>7 DEF Types
  <2> QED
    BY <1>6, <1>8, <2>2, <2>3, <2>4 DEF DiskSane
<1>10. TableSane(t)
  BY <1>2, <1>3, <1>5, <1>6, <1>8 DEF TableSane, Building, Root
<1>11. LocalsSane(t)
  BY <1>3, <1>5, <1>6, NoLocalsAre DEF LocalsSane, FAT_NULL
<1>12. Ahead(t)
  <2>1. ~(NoLocals.start >= F)
    BY <1>1, NoLocalsAre
  <2> QED
    BY <1>1, <1>2, <1>3, <1>6, <2>1 DEF Ahead
<1> QED
  BY <1>2, <1>7, <1>9, <1>10, <1>11, <1>12 DEF Healthy

LEMMA FreshSaneNext ==
  ASSUME NEW t, Threads = {t}
  PROVE  (Init /\ saved = NoState)' => Healthy(t)'
BY FreshSane, PTL

LEMMA FormatMarks ==
  ASSUME NEW old \in [Blocks -> Marks]
  PROVE  Formatted(old) \in [Blocks -> Marks]
BY DEF Formatted, Marks

LEMMA FormatSane ==
  ASSUME NEW t, Threads = {t}, ~up, WeakInv(t), Format, UNCHANGED <<pc, reg, saved, crashes, kept>>
  PROVE  Healthy(t)' /\ Observed'
<1>1. /\ pc = [u \in Threads |-> "idle"] /\ reg = [u \in Threads |-> NoLocals] /\ fault = "none"
      /\ Observed
  BY DEF WeakInv
<1>2. Init' /\ saved' = NoState /\ holds' = Formatted(holds)
  BY <1>1 DEF Format, Init
<1>3. Healthy(t)'
  BY <1>2, FreshSaneNext
<1>4. holds' \in [Blocks -> Marks]
  BY <1>1, <1>2, FormatMarks DEF Observed
<1> QED
  BY <1>1, <1>3, <1>4 DEF Observed

(* Whatever the parts hold: what is read is an entry of the table. *)
LEMMA LoadSane ==
  ASSUME NEW t, Threads = {t}, ~up, WeakInv(t), Load, UNCHANGED <<pc, reg, saved, crashes, kept>>
  PROVE  /\ DiskSane' /\ Observed' /\ fault' \in {"none", "garbage"}
         /\ fault' = "none" => Healthy(t)'
<1>0. PICK z : z = stored.sb.fat_size
  OBVIOUS
<1>1. /\ pc = [u \in Threads |-> "idle"] /\ reg = [u \in Threads |-> NoLocals] /\ fault = "none"
      /\ Observed /\ DiskSane
  BY DEF WeakInv
<1>2. /\ saved # NoState /\ next_alloc' = saved.next_alloc /\ freed' = saved.freed
      /\ sb' = stored.sb /\ fat' = read_fat /\ fault' \in {fault, "garbage"}
      /\ UNCHANGED <<entry, stored, holds>>
  BY DEF Load
<1>3. DiskSane' /\ Observed'
  BY <1>1, <1>2, DiskStays DEF Observed
<1>4. /\ saved \in [next_alloc : 3..MaxBlocks, freed : SUBSET Blocks]
      /\ saved.next_alloc <= z /\ saved.freed \subseteq Given(z)
      /\ stored.sb \in Superblocks /\ PartsSane(stored.part, z)
  BY <1>0, <1>1, <1>2 DEF DiskSane
<1>5. /\ z \in Nat /\ saved.next_alloc \in 3..MaxBlocks /\ saved.freed \subseteq Blocks
      /\ 0 \in Blocks /\ 0 \in Numbers(z) /\ 0 \in Starts(z)
  BY <1>0, <1>4, FatAssumption DEF Superblocks, Numbers, Starts, FAT_NULL, Blocks
<1>6. fat' = [i \in 0..(z - 1) |-> IF table_blocks[PartOf(i)] = FAT_NULL THEN FAT_NULL
                                   ELSE PartIn(table_blocks[PartOf(i)])[i % FAT_PER_BLOCK]]
  BY <1>0, <1>2 DEF read_fat
<1>7. ASSUME NEW b, NEW k \in 0..(FAT_PER_BLOCK - 1)
      PROVE  PartIn(b)[k] \in Numbers(z)
  <2>1. CASE b \in DOMAIN stored.part
    BY <1>4, <2>1 DEF PartIn, PartsSane
  <2>2. CASE b \notin DOMAIN stored.part
    BY <1>5, <2>2 DEF PartIn, FAT_NULL
  <2> QED
    BY <2>1, <2>2
<1>8. \A i \in 0..(z - 1) : fat'[i] \in Numbers(z)
  <2> SUFFICES ASSUME NEW i \in 0..(z - 1) PROVE fat'[i] \in Numbers(z)
    OBVIOUS
  <2>1. i % FAT_PER_BLOCK \in 0..(FAT_PER_BLOCK - 1)
    <3>1. i \in Nat /\ FAT_PER_BLOCK \in Nat /\ FAT_PER_BLOCK > 2
      BY <1>5, FatAssumption
    <3> QED
      BY <3>1
  <2>2. PICK p : p = table_blocks[PartOf(i)]
    OBVIOUS
  <2>3. fat'[i] = IF p = FAT_NULL THEN FAT_NULL ELSE PartIn(p)[i % FAT_PER_BLOCK]
    BY <1>6, <2>2
  <2>4. PartIn(p)[i % FAT_PER_BLOCK] \in Numbers(z)
    BY <1>7, <2>1
  <2> QED
    BY <1>5, <2>3, <2>4 DEF FAT_NULL
<1>9. fat' \in [0..(z - 1) -> Blocks \cup {Cut}]
  <2>1. Numbers(z) \subseteq Blocks \cup {Cut}
    BY <1>5 DEF Numbers, Given, FAT_NULL
  <2>2. \A i \in 0..(z - 1) : fat'[i] \in Blocks \cup {Cut}
    BY <1>8, <2>1
  <2>3. fat' = [i \in 0..(z - 1) |-> fat'[i]]
    BY <1>6
  <2> QED
    BY <2>2, <2>3
<1>10. ASSUME fault' = "none" PROVE Healthy(t)'
  <2>1. sb'.fat_size = z /\ stored'.sb.fat_size = z /\ sb' \in Superblocks
    BY <1>0, <1>2, <1>4
  <2>2. pc'[t] = "idle" /\ reg'[t] = NoLocals
    BY <1>1
  <2>3. Types'
    <3>1. pc' \in [Threads -> Steps] /\ reg' \in [Threads -> Locals]
      BY <1>1, NoLocalsAre DEF Steps
    <3>2. next_alloc' \in 0..MaxBlocks
      BY <1>2, <1>5, FatAssumption
    <3>3. entry' \in [Files -> Entries]
      BY <1>3 DEF DiskSane
    <3> QED
      BY <1>2, <1>5, <1>9, <2>1, <3>1, <3>2, <3>3 DEF Types, Superblocks
  <2>4. TableSane(t)'
    <3>1. next_alloc' > Root
      BY <1>2, <1>5, FatAssumption DEF Root
    <3> QED
      BY <1>2, <1>4, <1>8, <2>1, <2>2, <3>1 DEF TableSane, Building
  <2>5. LocalsSane(t)'
    BY <1>5, <2>1, <2>2, NoLocalsAre DEF LocalsSane, FAT_NULL
  <2>6. Ahead(t)'
    <3>1. next_alloc' \in Nat /\ next_alloc' > 2 /\ next_alloc' <= z
      BY <1>2, <1>4, <1>5, FatAssumption
    <3>2. ~(NoLocals.start >= z)
      BY <1>5, <3>1, NoLocalsAre
    <3> QED
      BY <1>5, <2>1, <2>2, <3>1, <3>2 DEF Ahead
  <2> QED
    BY <1>3, <1>10, <2>3, <2>4, <2>5, <2>6 DEF Healthy
<1> QED
  BY <1>1, <1>2, <1>3, <1>10

(* The invariant, whatever crashes. *)
LEMMA WeakAlways ==
  ASSUME NEW t, Threads = {t}
  PROVE  RSpec => []WeakInv(t)
<1>1. RInit => WeakInv(t)
  <2> SUFFICES ASSUME RInit PROVE WeakInv(t)
    OBVIOUS
  <2>1. Healthy(t)
    BY FreshSane DEF RInit
  <2>2. holds \in [Blocks -> Marks]
    <3>1. [b \in Blocks |-> "nothing"] \in [Blocks -> Marks]
      BY DEF Marks
    <3> QED
      BY <3>1, FormatMarks DEF RInit
  <2>3. crashes \in 0..MaxCrashes /\ DOMAIN kept.files \subseteq Files
    BY RestartAssumption DEF RInit, Nothing
  <2> QED
    BY <2>1, <2>2, <2>3 DEF RInit, WeakInv, Observed, Sane, Healthy
<1>2. WeakInv(t) /\ [RNext]_rvars => WeakInv(t)'
  <2> SUFFICES ASSUME WeakInv(t), [RNext]_rvars PROVE WeakInv(t)'
    OBVIOUS
  <2>1. CASE Mount
    <3>1. ~up /\ up' /\ UNCHANGED <<pc, reg, saved, crashes, kept>> /\ (Format \/ Load)
      BY <2>1 DEF Mount
    <3>2. CASE Format
      BY <3>1, <3>2, FormatSane DEF WeakInv, Sane, Healthy
    <3>3. CASE Load
      BY <3>1, <3>3, LoadSane DEF WeakInv, Sane, Healthy
    <3> QED
      BY <3>1, <3>2, <3>3
  <2>2. CASE Unmount
    BY <2>2, UnmountSane
  <2>3. CASE Crash
    BY <2>3, CrashSane
  <2>4. CASE /\ up /\ UNCHANGED <<up, saved, crashes>>
             /\ RBegin(t) \/ RStep(t) \/ \E f \in Files : Overwrite(t, f)
    <3>1. fault = "none"
      BY <2>4 DEF RBegin, RStep, Overwrite, At, Mknod, Unlink, Grow, Shrink, Take, Expand, Advance,
                  PlaceFirst, PlaceNext, Save, FreeNext, EndChain, Attach, FreeDone
    <3>2. Healthy(t) /\ Observed
      BY <2>4, <3>1 DEF WeakInv, Sane, Healthy
    <3>3. Observed'
      BY <2>4, <3>2, RunningObserved
    <3>4. CASE RBegin(t) \/ RStep(t)
      <4>1. Begin(t) \/ Step(t)
        BY <3>4 DEF RBegin, RStep, Begin, Step
      <4>2. \/ Healthy(t)'
            \/ Types' /\ DiskSane' /\ fault' \in {"overrun", "wild", "twice"}
        BY <2>4, <3>2, <4>1, OperationSane
      <4> QED
        BY <2>4, <3>3, <4>2 DEF WeakInv, Sane, Healthy
    <3>5. CASE \E f \in Files : Overwrite(t, f)
      <4>1. Healthy(t)'
        BY <2>4, <3>2, <3>5, OverwriteSane
      <4> QED
        BY <2>4, <3>3, <4>1 DEF WeakInv, Sane, Healthy
    <3> QED
      BY <2>4, <3>4, <3>5
  <2>5. CASE UNCHANGED rvars
    <3>1. /\ UNCHANGED <<fat, sb, next_alloc, freed, pc, reg, entry, stored, fault>>
          /\ UNCHANGED <<up, saved, holds, crashes, kept>>
      BY <2>5 DEF rvars, process
    <3>2. Observed'
      BY <3>1 DEF WeakInv, Observed
    <3>3. DiskSane'
      BY <3>1, DiskStays DEF WeakInv
    <3>4. Sane(t) => Sane(t)'
      BY <3>1 DEF Sane, Types, TableSane, LocalsSane, Ahead
    <3> QED
      BY <3>1, <3>2, <3>3, <3>4 DEF WeakInv
  <2> QED
    BY <2>1, <2>2, <2>3, <2>4, <2>5 DEF RNext
<1> QED
  BY <1>1, <1>2, PTL DEF RSpec

-----------------------------------------------------------------------------
(* What an orderly unmount wrote survives a crash.  K are the files that   *)
(* were not changed since, with their chains, S the blocks of the table,   *)
(* T the table on disk.  What is led to from other files' entries, or from *)
(* the locals of an operation, stays among blocks B of its own.            *)
Spared(K, S) ==
  {b \in Blocks : b \in {0, Root} \/ In(b, S) \/ \E f \in DOMAIN K : In(b, K[f])}

Chains(K, S) == S \in Seq(Blocks) /\ \A f \in DOMAIN K : K[f] \in Seq(Blocks)
Leads(K, S, table) == Whole(table, S) /\ \A f \in DOMAIN K : Whole(table, K[f])

KeptFile(s, e) ==
  /\ \A i \in 1..Len(s) : s[i] # FAT_NULL
  /\ \A i, j \in 1..Len(s) : s[i] = s[j] => i = j
  /\ e.start = First(s) /\ e.blocks = Len(s)

Labelled(K, S) ==
  /\ \A f \in DOMAIN K : \A b : In(b, K[f]) => holds[b] = f
  /\ \A b : In(b, S) => holds[b] = "table"
  /\ holds[0] = "system" /\ holds[Root] = "system"

OnDisk(K, S, T) ==
  /\ Chains(K, S) /\ Parted(S, stored.sb.fat_size) /\ S[1] = stored.sb.fat_start
  /\ "part" \in DOMAIN stored
  /\ T \in [0..(stored.sb.fat_size - 1) -> Blocks \cup {Cut}]
  /\ HoldsParts(stored.part, T, S)
  /\ Leads(K, S, T) /\ Labelled(K, S)
  /\ \A f \in DOMAIN K : f \in Files /\ KeptFile(K[f], entry[f])
  /\ saved # NoState
  /\ \A b \in Spared(K, S) : b < saved.next_alloc /\ b \notin saved.freed

Away(K, S, B) == B \subseteq Blocks /\ \A b \in B : b \notin Spared(K, S)
Closed(table, B, open) ==
  \A b \in B : b \in DOMAIN table /\ b \notin open => table[b] \in B \cup {FAT_NULL, Cut}
Led(K, B) == \A f \in Files : f \notin DOMAIN K => entry[f].start \in B \cup {FAT_NULL}
Foreign(K, S, T, B) == Away(K, S, B) /\ Closed(T, B, {}) /\ Led(K, B)

(* Memory.  The blocks whose entries alloc_blocks has yet to write. *)
Unlinked(t) ==
  {b \in Blocks : \/ pc[t] \in {"advance", "place"} /\ b = reg[t].new
                  \/ pc[t] \in Building /\ reg[t].start # FAT_NULL /\ b = reg[t].last}

Reserved(K, S) == \A b \in Spared(K, S) : b < next_alloc /\ b \notin freed

(* The operation under way is that of a file that is not kept. *)
Working(K, t, B) ==
  LET r == reg[t]
  IN /\ r.de.start \in B \cup {FAT_NULL} /\ r.start \in B \cup {FAT_NULL}
     /\ r.cur \in B \cup {FAT_NULL, Cut}
     /\ pc[t] \in Building =>
          IF r.start = FAT_NULL THEN r.todo > 0 ELSE r.last \in B
     /\ pc[t] \in {"advance", "place"} => r.new \in B
     /\ pc[t] # "idle" => r.file \notin DOMAIN K
Settled(t, T, B) ==
  /\ pc[t] \notin Building => Closed(T, B, {})
  /\ pc[t] \in {"idle", "attach", "save"} => fat = T

Apart(K, t, S, T, B) ==
  /\ Leads(K, S, fat) /\ sb.fat_start = S[1]
  /\ Away(K, S, B) /\ Led(K, B) /\ Closed(fat, B, Unlinked(t))
  /\ Working(K, t, B) /\ Settled(t, T, B)

(* While a chain is built before the first crash, the disk does not know   *)
(* of it; a crash then leaves the blocks A.                                *)
Before(K, t, S, T, A) ==
  LET r == reg[t]
  IN /\ Foreign(K, S, T, A)
     /\ \A b \in A : b < next_alloc /\ b \notin freed
     /\ sb.fat_size = stored.sb.fat_size => \A b \in A : b \in DOMAIN T => fat[b] = T[b]
     /\ r.start # FAT_NULL => r.last \notin A
     /\ pc[t] \in {"advance", "place"} => r.new \notin A

InMemory(K, t, S, T, B, A) ==
  /\ Reserved(K, S)
  /\ sb.fat_size = stored.sb.fat_size => Apart(K, t, S, T, B)
  /\ clean /\ pc[t] \in Building => Before(K, t, S, T, A)

Safe(K, t, S, T, B, A) ==
  OnDisk(K, S, T) /\ (fault = "none" => InMemory(K, t, S, T, B, A))
Spares(K, S, T, B) == OnDisk(K, S, T) /\ Foreign(K, S, T, B)

Survives(t, K) ==
  IF up THEN \E S, T, B, A : Safe(K, t, S, T, B, A)
        ELSE \E S, T, B : Spares(K, S, T, B)

SafeInv(t) ==
  /\ kept.fat_size \in Nat /\ kept.fat_size <= stored.sb.fat_size /\ stored.sb.fat_size > 0
  /\ saved = NoState => kept.fat_size = 0
  /\ ~clean => crashes >= 1
  /\ crashes <= 1 /\ stored.sb.fat_size = kept.fat_size => Survives(t, kept.files)

(* What the invariant says is what the property asks for. *)
LEMMA PartsBack ==
  ASSUME NEW S, NEW T, Parted(S, stored.sb.fat_size), S[1] = stored.sb.fat_start,
         HoldsParts(stored.part, T, S), Whole(T, S),
         T \in [0..(stored.sb.fat_size - 1) -> Blocks \cup {Cut}]
  PROVE  /\ read_fat = T
         /\ \A b \in ReadParts : In(b, S)
<1> DEFINE F == FAT_PER_BLOCK
<1>0. PICK size : size = stored.sb.fat_size
  OBVIOUS
<1>1. Parted(S, size) /\ T \in [0..(size - 1) -> Blocks \cup {Cut}]
  BY <1>0
<1>2. Len(S) \in Nat /\ size = F * Len(S) /\ size \in Nat
  BY <1>1, PartedIs
<1>3. ASSUME NEW i \in 0..(size - 1)
      PROVE  PartIn(S[PartOf(i)])[i % F] = T[i]
  <2>1. /\ PartOf(i) \in 1..Len(S) /\ i % F \in 0..(F - 1)
        /\ (PartOf(i) - 1) * F + (i % F) = i
    BY <1>2, PlaceOf
  <2>2. PICK k \in 1..Len(S) : k = PartOf(i)
    BY <2>1
  <2>3. S[k] \in DOMAIN stored.part /\ stored.part[S[k]] = Part(T, k)
    BY DEF HoldsParts
  <2>4. PartIn(S[k]) = Part(T, k)
    BY <2>3 DEF PartIn
  <2> QED
    BY <2>1, <2>2, <2>4 DEF Part
<1>4. Reads(S, T)
  <2>1. DOMAIN T = 0..(size - 1)
    BY <1>1
  <2>2. \A k \in 1..(Len(S) - 1) : S[k] \in DOMAIN T /\ T[S[k]] = S[k + 1]
    BY DEF Whole, Links
  <2> QED
    BY <1>0, <1>3, <2>1, <2>2 DEF Reads
<1>5. /\ read_fat = [i \in 0..(size - 1) |-> T[i]]
      /\ DOMAIN table_blocks = 1..Len(S)
      /\ \A k \in 1..Len(S) : table_blocks[k] = S[k]
  BY <1>0, <1>4, PartsRead
<1>6. read_fat = T
  BY <1>1, <1>5
<1>7. \A b \in ReadParts : In(b, S)
  BY <1>5 DEF ReadParts, ToSet, In
<1> QED
  BY <1>6, <1>7

LEMMA SurvivingIsIntact ==
  ASSUME NEW t, DiskSane, SafeInv(t)
  PROVE  SavedFilesIntact
<1> SUFFICES ASSUME crashes <= 1, stored.sb.fat_size = kept.fat_size
             PROVE  SavedFilesIntact
  BY DEF SavedFilesIntact
<1>0. PICK K : K = kept.files
  OBVIOUS
<1>1. PICK S, T : OnDisk(K, S, T)
  BY <1>0 DEF SafeInv, Survives, Safe, Spares
<1>2. /\ Parted(S, stored.sb.fat_size) /\ S[1] = stored.sb.fat_start
      /\ T \in [0..(stored.sb.fat_size - 1) -> Blocks \cup {Cut}]
      /\ HoldsParts(stored.part, T, S) /\ Whole(T, S) /\ Labelled(K, S)
  BY <1>1 DEF OnDisk, Leads
<1>3. read_fat = T /\ \A b \in ReadParts : In(b, S)
  BY <1>2, PartsBack
<1>4. \A b \in Spared(K, S) : b < saved.next_alloc /\ b \notin saved.freed
  BY <1>1 DEF OnDisk
<1>5. \A b : In(b, S) => b \in Spared(K, S)
  BY <1>2, PartedIs DEF Spared, In
<1>6. ASSUME NEW f \in DOMAIN kept.files
      PROVE  LET chain == kept.files[f]
             IN /\ entry[f].blocks = Len(chain)
                /\ ChainIn(read_fat, entry[f].start) = chain
                /\ \A b \in ToSet(chain) :
                     holds[b] = f /\ b < saved.next_alloc /\ b \notin saved.freed
  <2>1. PICK chain : chain = K[f] /\ chain = kept.files[f] /\ f \in DOMAIN K
    BY <1>0
  <2>2. chain \in Seq(Blocks) /\ KeptFile(chain, entry[f]) /\ Whole(T, chain)
    BY <1>1, <2>1 DEF OnDisk, Leads, Chains
  <2>3. PICK size \in Nat : size = stored.sb.fat_size
    BY DEF DiskSane, Superblocks
  <2>4. T \in [0..(size - 1) -> Blocks \cup {Cut}]
    BY <1>2, <2>3
  <2>5. ChainIn(T, First(chain)) = chain
    BY <2>2, <2>4, ChainIs DEF KeptFile
  <2>6. \A b \in ToSet(chain) : In(b, chain) /\ b \in Blocks
    <3>1. /\ chain = [i \in 1..Len(chain) |-> chain[i]] /\ Len(chain) \in Nat
          /\ \A i \in 1..Len(chain) : chain[i] \in Blocks
      BY <2>2, LenProperties, ElementOfSeq DEF KeptFile
    <3> QED
      BY <3>1 DEF ToSet, In
  <2>7. \A b \in ToSet(chain) : holds[b] = f /\ b \in Spared(K, S)
    BY <1>2, <2>1, <2>6 DEF Labelled, Spared
  <2> QED
    BY <1>3, <1>4, <2>1, <2>2, <2>5, <2>7 DEF KeptFile
<1>7. \A b \in ReadParts : b < saved.next_alloc /\ b \notin saved.freed /\ holds[b] = "table"
  BY <1>2, <1>3, <1>4, <1>5 DEF Labelled
<1> QED
  BY <1>2, <1>6, <1>7 DEF SavedFilesIntact, Labelled

-----------------------------------------------------------------------------
(* Tables and blocks. *)
LEMMA Elements ==
  ASSUME NEW K, NEW S, Chains(K, S)
  PROVE  /\ \A i \in 1..Len(S) : S[i] \in Spared(K, S)
         /\ \A f \in DOMAIN K : \A i \in 1..Len(K[f]) : K[f][i] \in Spared(K, S)
         /\ \A b : In(b, S) => b \in Spared(K, S)
         /\ \A f \in DOMAIN K : \A b : In(b, K[f]) => b \in Spared(K, S)
         /\ 0 \in Spared(K, S) /\ Root \in Spared(K, S)
<1>1. \A i \in 1..Len(S) : S[i] \in Blocks
  BY ElementOfSeq DEF Chains
<1>2. \A f \in DOMAIN K : \A i \in 1..Len(K[f]) : K[f][i] \in Blocks
  BY ElementOfSeq DEF Chains
<1>3. 0 \in Blocks /\ Root \in Blocks
  BY FatAssumption DEF Blocks, Root
<1> QED
  BY <1>1, <1>2, <1>3 DEF Spared, In

(* A table that agrees at every spared block with one of two that lead     *)
(* along the chains does so too.                                           *)
LEMMA LeadsEither ==
  ASSUME NEW K, NEW S, Chains(K, S), NEW table, NEW other, NEW new,
         Leads(K, S, table), Leads(K, S, other),
         \A b \in Spared(K, S) :
           b \in DOMAIN table => b \in DOMAIN new /\ new[b] \in {table[b], other[b]}
  PROVE  Leads(K, S, new)
<1>1. ASSUME NEW s \in Seq(Blocks), Whole(table, s), Whole(other, s),
             NEW n \in Nat, Len(s) = n,
             \A i \in 1..n : s[i] \in Spared(K, S)
      PROVE  Whole(new, s)
  <2>1. Links(new, s)
    <3> SUFFICES ASSUME NEW i \in 1..(n - 1)
                 PROVE  s[i] \in DOMAIN new /\ new[s[i]] = s[i + 1]
      BY <1>1 DEF Links
    <3>1. i \in 1..n
      OBVIOUS
    <3>2. s[i] \in DOMAIN table /\ table[s[i]] = s[i + 1] /\ other[s[i]] = s[i + 1]
      BY <1>1 DEF Whole, Links
    <3> QED
      BY <1>1, <3>1, <3>2
  <2>2. Ends(new, s)
    <3> SUFFICES ASSUME s # <<>>
                 PROVE  s[n] \in DOMAIN new /\ new[s[n]] \in {FAT_NULL, Cut}
      BY <1>1 DEF Ends
    <3>1. s[n] \in DOMAIN table /\ table[s[n]] \in {FAT_NULL, Cut} /\ other[s[n]] \in {FAT_NULL, Cut}
      BY <1>1 DEF Whole, Ends
    <3>2. n # 0
      BY <1>1, EmptySeq
    <3>3. n \in 1..n
      BY <3>2
    <3> QED
      BY <1>1, <3>1, <3>3
  <2> QED
    BY <2>1, <2>2 DEF Whole
<1> QED
  BY <1>1, Elements, LenProperties DEF Leads, Chains

LEMMA LeadsOn ==
  ASSUME NEW K, NEW S, Chains(K, S), NEW table, NEW new, Leads(K, S, table),
         \A b \in Spared(K, S) : b \in DOMAIN table => b \in DOMAIN new /\ new[b] = table[b]
  PROVE  Leads(K, S, new)
BY LeadsEither

(* One of the blocks that nothing leads out of is linked to another. *)
LEMMA Rewritten ==
  ASSUME NEW K, NEW S, Chains(K, S), NEW table, Leads(K, S, table),
         NEW B, Away(K, S, B), NEW open, Closed(table, B, open),
         NEW x \in B, NEW y \in B \cup {FAT_NULL, Cut},
         NEW rest, \A b \in open : b = x \/ b \in rest,
         NEW new, new = [table EXCEPT ![x] = y]
  PROVE  Leads(K, S, new) /\ Closed(new, B, rest)
<1>1. DOMAIN new = DOMAIN table
  OBVIOUS
<1>2. \A b \in DOMAIN table : b # x => new[b] = table[b]
  OBVIOUS
<1>3. x \in DOMAIN table => new[x] = y
  OBVIOUS
<1>4. Leads(K, S, new)
  <2>1. \A b \in Spared(K, S) : b # x
    BY DEF Away
  <2> QED
    BY <1>1, <1>2, <2>1, LeadsOn
<1>5. Closed(new, B, rest)
  BY <1>1, <1>2, <1>3 DEF Closed
<1> QED
  BY <1>4, <1>5
(* A chain does not lead out of itself. *)
LEMMA ChainCloses ==
  ASSUME NEW table, NEW s \in Seq(Blocks), Whole(table, s)
  PROVE  /\ First(s) = FAT_NULL \/ (First(s) \in Blocks /\ In(First(s), s))
         /\ \A b : In(b, s) => table[b] \in {FAT_NULL, Cut} \/ (table[b] \in Blocks /\ In(table[b], s))
<1>1. PICK n \in Nat : n = Len(s)
  BY LenProperties
<1>2. \A i \in 1..n : s[i] \in Blocks /\ In(s[i], s)
  BY <1>1, ElementOfSeq DEF In
<1>3. First(s) = FAT_NULL \/ (First(s) \in Blocks /\ In(First(s), s))
  <2>1. CASE s = <<>>
    BY <2>1 DEF First
  <2>2. CASE s # <<>>
    <3>1. 1 \in 1..n
      BY <1>1, <2>2, EmptySeq
    <3> QED
      BY <1>2, <2>2, <3>1 DEF First
  <2> QED
    BY <2>1, <2>2
<1>4. ASSUME NEW b, In(b, s)
      PROVE  table[b] \in {FAT_NULL, Cut} \/ (table[b] \in Blocks /\ In(table[b], s))
  <2>1. PICK i \in 1..n : s[i] = b
    BY <1>1, <1>4 DEF In
  <2>2. CASE i = n
    <3>1. s # <<>>
      BY <1>1, <2>1, EmptySeq
    <3> QED
      BY <1>1, <2>1, <2>2, <3>1 DEF Whole, Ends
  <2>3. CASE i # n
    <3>1. i \in 1..(n - 1) /\ i + 1 \in 1..n
      BY <2>3
    <3>2. table[b] = s[i + 1]
      BY <1>1, <2>1, <3>1 DEF Whole, Links
    <3> QED
      BY <1>2, <3>1, <3>2
  <2> QED
    BY <2>2, <2>3
<1> QED
  BY <1>3, <1>4

(* A walk that begins among such blocks stays there. *)
Walks(w, p, next, m) == w = [k \in 0..m |-> IF k = 0 THEN p ELSE next[w[k - 1]]]

LEMMA WalkExists ==
  ASSUME NEW p, NEW next, NEW m \in Nat
  PROVE  \E w : Walks(w, p, next, m)
<1> DEFINE T == {n \in Nat : \E w : w = [k \in 0..n |-> IF k = 0 THEN p ELSE next[w[k - 1]]]}
<1>1. 0 \in T
  <2>1. PICK w : w = [k \in 0..0 |-> p]
    OBVIOUS
  <2>2. w = [k \in 0..0 |-> IF k = 0 THEN p ELSE next[w[k - 1]]]
    BY <2>1
  <2> QED
    BY <2>2
<1>2. ASSUME NEW n \in Nat, n \in T PROVE n + 1 \in T
  <2>1. PICK w : w = [k \in 0..n |-> IF k = 0 THEN p ELSE next[w[k - 1]]]
    BY <1>2
  <2>2. PICK v : v = [k \in 0..(n + 1) |-> IF k = n + 1 THEN next[w[n]] ELSE w[k]]
    OBVIOUS
  <2>3. ASSUME NEW k \in 0..(n + 1)
        PROVE  v[k] = IF k = 0 THEN p ELSE next[v[k - 1]]
    <3>1. CASE k = 0
      <4>1. v[k] = w[0] /\ w[0] = p
        BY <2>1, <2>2, <3>1
      <4> QED
        BY <3>1, <4>1
    <3>2. CASE k # 0 /\ k # n + 1
      <4>1. k \in 0..n /\ k - 1 \in 0..(n + 1) /\ k - 1 # n + 1
        BY <3>2
      <4>2. v[k] = w[k] /\ v[k - 1] = w[k - 1]
        BY <2>2, <3>2, <4>1
      <4>3. w[k] = next[w[k - 1]]
        BY <2>1, <3>2, <4>1
      <4> QED
        BY <3>2, <4>2, <4>3
    <3>3. CASE k = n + 1
      <4>1. k # 0 /\ k - 1 = n /\ n \in 0..(n + 1) /\ n # n + 1
        BY <3>3
      <4>2. v[k] = next[w[n]] /\ v[n] = w[n]
        BY <2>2, <3>3, <4>1
      <4> QED
        BY <4>1, <4>2
    <3> QED
      BY <3>1, <3>2, <3>3
  <2>4. v = [k \in 0..(n + 1) |-> IF k = 0 THEN p ELSE next[v[k - 1]]]
    BY <2>2, <2>3
  <2> QED
    BY <2>4
<1>3. Nat \subseteq T
  <2> HIDE DEF T
  <2> QED
    BY <1>1, <1>2, InductiveSet
<1> QED
  BY <1>3 DEF Walks

LEMMA WalkStays ==
  ASSUME NEW table, Cut \notin DOMAIN table,
         NEW B, B \subseteq Blocks, FAT_NULL \notin B, Closed(table, B, {}),
         NEW p \in B \cup {FAT_NULL, Cut}
  PROVE  /\ Len(ChainIn(table, p)) \in Nat /\ DOMAIN ChainIn(table, p) = 1..Len(ChainIn(table, p))
         /\ \A i \in DOMAIN ChainIn(table, p) : ChainIn(table, p)[i] \in B
         /\ p \in B => 1 \in DOMAIN ChainIn(table, p)
<1> DEFINE next == [b \in Blocks \cup {Cut} |->
                      IF b \in DOMAIN table \ {FAT_NULL} THEN table[b] ELSE FAT_NULL]
           step(w) == [k \in 0..MaxBlocks |-> IF k = 0 THEN p ELSE next[w[k - 1]]]
           walk == CHOOSE w : w = step(w)
           alive == {k \in 0..MaxBlocks : walk[k] \notin {FAT_NULL, Cut}}
           I == B \cup {FAT_NULL, Cut}
<1>1. ChainIn(table, p) = [k \in 1..Cardinality(alive) |-> walk[k - 1]]
  BY DEF ChainIn
<1>2. MaxBlocks \in Nat /\ FAT_NULL \in Blocks /\ Cut \notin B
  BY FatAssumption DEF Blocks, FAT_NULL, Cut
<1>3. walk = step(walk)
  <2>1. PICK f : f = next
    OBVIOUS
  <2>2. PICK w : Walks(w, p, f, MaxBlocks)
    BY <1>2, WalkExists
  <2>3. w = step(w)
    BY <2>1, <2>2 DEF Walks
  <2> HIDE DEF step
  <2> QED
    BY <2>3
<1>4. /\ \A b \in I : next[b] \in I
      /\ \A b \in {FAT_NULL, Cut} : next[b] = FAT_NULL
  <2>1. \A b \in {FAT_NULL, Cut} : next[b] = FAT_NULL
    BY <1>2
  <2>2. ASSUME NEW b \in B PROVE next[b] \in I
    <3>1. b \in Blocks
      OBVIOUS
    <3> QED
      BY <3>1 DEF Closed
  <2> QED
    BY <2>1, <2>2
<1>5. \A k \in 1..MaxBlocks : walk[k] = next[walk[k - 1]]
  <2> HIDE DEF next, walk
  <2>1. \A k \in 0..MaxBlocks : k # 0 => walk[k] = next[walk[k - 1]]
    BY <1>3
  <2> QED
    BY <1>2, <2>1
<1>6. walk[0] = p
  <2> HIDE DEF next, walk
  <2>1. 0 \in 0..MaxBlocks
    BY <1>2
  <2> QED
    BY <1>3, <2>1
<1> HIDE DEF next, walk
<1>7. \A k \in 0..MaxBlocks : walk[k] \in I
  <2> DEFINE T == {n \in Nat : n <= MaxBlocks => walk[n] \in I}
  <2>1. 0 \in T
    BY <1>6
  <2>2. ASSUME NEW n \in Nat, n \in T PROVE n + 1 \in T
    <3> SUFFICES ASSUME n + 1 <= MaxBlocks PROVE walk[n + 1] \in I
      OBVIOUS
    <3>1. n + 1 \in 1..MaxBlocks /\ (n + 1) - 1 = n /\ n <= MaxBlocks
      BY <1>2
    <3>2. walk[n + 1] = next[walk[n]] /\ walk[n] \in I
      BY <1>5, <2>2, <3>1
    <3> HIDE DEF I
    <3> QED
      BY <1>4, <3>2
  <2>3. Nat \subseteq T
    <3> HIDE DEF T
    <3> QED
      BY <2>1, <2>2, InductiveSet
  <2> QED
    BY <1>2, <2>3
<1>8. ASSUME NEW m \in 0..MaxBlocks, m \notin alive
      PROVE  \A k \in 0..MaxBlocks : k >= m => k \notin alive
  <2> DEFINE T == {n \in Nat : m + n <= MaxBlocks => walk[m + n] \in {FAT_NULL, Cut}}
  <2>1. 0 \in T
    BY <1>8
  <2>2. ASSUME NEW n \in Nat, n \in T PROVE n + 1 \in T
    <3> SUFFICES ASSUME m + (n + 1) <= MaxBlocks PROVE walk[m + (n + 1)] \in {FAT_NULL, Cut}
      OBVIOUS
    <3>1. m + (n + 1) \in 1..MaxBlocks /\ (m + (n + 1)) - 1 = m + n /\ m + n <= MaxBlocks
      BY <1>2
    <3>2. walk[m + (n + 1)] = next[walk[m + n]] /\ walk[m + n] \in {FAT_NULL, Cut}
      BY <1>5, <2>2, <3>1
    <3> QED
      BY <1>4, <3>2
  <2>3. Nat \subseteq T
    <3> HIDE DEF T
    <3> QED
      BY <2>1, <2>2, InductiveSet
  <2>4. ASSUME NEW k \in 0..MaxBlocks, k >= m PROVE k \notin alive
    <3>1. k - m \in Nat /\ m + (k - m) = k
      BY <1>2, <2>4
    <3>2. k - m \in T
      BY <2>3, <3>1
    <3>3. walk[k] \in {FAT_NULL, Cut}
      BY <1>2, <3>1, <3>2
    <3> QED
      BY <3>3
  <2> QED
    BY <2>4
<1>9. PICK A : A = alive
  OBVIOUS
<1>10. IsFiniteSet(0..MaxBlocks) /\ A \in SUBSET (0..MaxBlocks)
  <2>1. 0 \in Int /\ MaxBlocks \in Int
    BY <1>2
  <2> QED
    BY <1>9, <2>1, FS_Interval
<1>11. PICK n \in Nat : n = Cardinality(A)
  BY <1>10, FS_Subset, FS_CardinalityType
<1>12. ASSUME NEW i \in 1..n PROVE i - 1 \in A
  <2> SUFFICES ASSUME i - 1 \notin A PROVE FALSE
    OBVIOUS
  <2>0. PICK j \in Nat : j = i - 1 /\ j < n
    BY <1>12
  <2>1. n <= MaxBlocks + 1
    <3>1. Cardinality(0..MaxBlocks) = MaxBlocks + 1
      <4>1. 0 \in Int /\ MaxBlocks \in Int /\ ~(0 > MaxBlocks) /\ MaxBlocks - 0 + 1 = MaxBlocks + 1
        BY <1>2
      <4> QED
        BY <4>1, FS_Interval
    <3> QED
      BY <1>10, <1>11, <3>1, FS_Subset
  <2>2. j \in 0..MaxBlocks /\ j \notin alive
    BY <1>2, <1>9, <2>0, <2>1
  <2>3. \A k \in 0..MaxBlocks : k >= j => k \notin A
    BY <1>8, <1>9, <2>2
  <2>4. A \in SUBSET (0..(j - 1))
    BY <1>2, <1>10, <2>0, <2>3
  <2>5. IsFiniteSet(0..(j - 1)) /\ Cardinality(0..(j - 1)) = j
    <3>1. 0 \in Int /\ j - 1 \in Int /\ (0 > j - 1 => j = 0) /\ (j - 1) - 0 + 1 = j
      BY <2>0
    <3> QED
      BY <3>1, FS_Interval
  <2>6. n <= j
    BY <1>11, <2>4, <2>5, FS_Subset
  <2> QED
    BY <2>0, <2>6
<1>13. ChainIn(table, p) = [k \in 1..n |-> walk[k - 1]]
  BY <1>1, <1>9, <1>11
<1>14. DOMAIN ChainIn(table, p) = 1..n /\ Len(ChainIn(table, p)) = n
  BY <1>13
<1>15. ASSUME NEW i \in 1..n PROVE ChainIn(table, p)[i] \in B
  <2>1. i - 1 \in A
    BY <1>12, <1>15
  <2>2. i - 1 \in 0..MaxBlocks /\ walk[i - 1] \notin {FAT_NULL, Cut}
    BY <1>9, <2>1
  <2>3. walk[i - 1] \in B
    BY <1>7, <2>2
  <2> QED
    BY <1>13, <2>3
<1>16. ASSUME p \in B PROVE 1 \in 1..n
  <2>1. 0 \in A
    BY <1>2, <1>6, <1>9, <1>16
  <2>2. n # 0
    BY <1>10, <1>11, <2>1, FS_Subset, FS_EmptySet
  <2> QED
    BY <2>2
<1> QED
  BY <1>14, <1>15, <1>16
-----------------------------------------------------------------------------
(* The disk.  A table is written that leads along the same chains.         *)
Tables == [0..(stored.sb.fat_size - 1) -> Blocks \cup {Cut}]

LEMMA DiskKept ==
  ASSUME NEW K, NEW S, NEW T, OnDisk(K, S, T), NEW U, U \in Tables, Leads(K, S, U),
         "part" \in DOMAIN stored', HoldsParts(stored'.part, U, S),
         stored'.sb.fat_size = stored.sb.fat_size, stored'.sb.fat_start = S[1],
         UNCHANGED saved, \A f \in DOMAIN K : entry'[f] = entry[f],
         \A b \in Spared(K, S) : holds'[b] = holds[b]
  PROVE  OnDisk(K, S, U)'
<1>1. /\ Chains(K, S) /\ Parted(S, stored.sb.fat_size) /\ Labelled(K, S)
      /\ \A f \in DOMAIN K : f \in Files /\ KeptFile(K[f], entry[f])
      /\ saved # NoState
      /\ \A b \in Spared(K, S) : b < saved.next_alloc /\ b \notin saved.freed
  BY DEF OnDisk
<1>2. Labelled(K, S)'
  <2>1. /\ \A b : In(b, S) => b \in Spared(K, S)
        /\ \A f \in DOMAIN K : \A b : In(b, K[f]) => b \in Spared(K, S)
        /\ 0 \in Spared(K, S) /\ Root \in Spared(K, S)
    BY <1>1, Elements
  <2> QED
    BY <1>1, <2>1 DEF Labelled
<1>3. Parted(S, stored'.sb.fat_size) /\ U \in [0..(stored'.sb.fat_size - 1) -> Blocks \cup {Cut}]
  BY <1>1 DEF Tables
<1>4. \A f \in DOMAIN K : f \in Files /\ KeptFile(K[f], entry'[f])
  BY <1>1
<1> QED
  BY <1>1, <1>2, <1>3, <1>4, Zenon DEF OnDisk

LEMMA SameDisk ==
  ASSUME NEW K, NEW S, NEW T, OnDisk(K, S, T), UNCHANGED <<stored, saved>>,
         \A f \in DOMAIN K : entry'[f] = entry[f],
         \A b \in Spared(K, S) : holds'[b] = holds[b]
  PROVE  OnDisk(K, S, T)'
BY DiskKept DEF OnDisk, Tables

(* write_fat finds the table's own blocks in such a table. *)
LEMMA PartsGoHome ==
  ASSUME NEW K, NEW S, NEW T, OnDisk(K, S, T), NEW U, U \in Tables, Leads(K, S, U),
         NEW s, s.fat_size = stored.sb.fat_size, s.fat_start = S[1]
  PROVE  /\ ChainIn(U, s.fat_start) = S
         /\ HoldsParts(write_fat(U, s), U, S)
<1>1. PICK size : size = stored.sb.fat_size
  OBVIOUS
<1>2. Parted(S, size) /\ U \in [0..(size - 1) -> Blocks \cup {Cut}] /\ Whole(U, S)
  BY <1>1 DEF OnDisk, Tables, Leads
<1>3. size \in Nat /\ S \in Seq(Blocks) /\ First(S) = S[1]
  BY <1>2, PartedIs DEF Parted, First
<1>4. /\ \A i \in 1..Len(S) : S[i] # FAT_NULL
      /\ \A i, j \in 1..Len(S) : S[i] = S[j] => i = j
  BY <1>2 DEF Parted
<1>5. ChainIn(U, S[1]) = S
  BY <1>2, <1>3, <1>4, ChainIs
<1>6. WritesTo(U, s, S)
  BY <1>1, <1>2, <1>5 DEF WritesTo
<1> QED
  BY <1>5, <1>6, PartsWritten

LEMMA PartsAreOwn ==
  ASSUME NEW S, NEW w, TableChain(w) = S, S \in Seq(Blocks), NEW k
  PROVE  \A b \in TableBlocks(w, k) : In(b, S)
<1>1. DOMAIN S = 1..Len(S)
  BY LenProperties
<1> QED
  BY <1>1 DEF TableBlocks, In

LEMMA PartsOverwritten ==
  ASSUME NEW K, NEW S, NEW T, OnDisk(K, S, T), NEW X, \A b \in X : In(b, S),
         Holding(X, "table")
  PROVE  \A b \in Spared(K, S) : holds'[b] = holds[b]
<1> SUFFICES ASSUME NEW b \in Spared(K, S) PROVE holds'[b] = holds[b]
  OBVIOUS
<1>1. b \in Blocks /\ holds'[b] = IF b \in X THEN "table" ELSE holds[b]
  BY DEF Holding, Spared
<1>2. b \in X => holds[b] = "table"
  BY DEF OnDisk, Labelled
<1> QED
  BY <1>1, <1>2

(* The first blocks of the table are from one table, the rest from another. *)
LEMMA Mixed ==
  ASSUME NEW K, NEW S, NEW T, OnDisk(K, S, T), NEW U, U \in Tables, Leads(K, S, U),
         NEW new, HoldsParts(new, U, S), NEW X, \A b \in X : In(b, S),
         NEW part, DOMAIN part = DOMAIN stored.part \cup X,
         \A b \in DOMAIN part : part[b] = IF b \in X THEN new[b] ELSE stored.part[b]
  PROVE  \E M \in Tables : /\ HoldsParts(part, M, S) /\ Leads(K, S, M)
                           /\ \A b \in DOMAIN T : M[b] = T[b] \/ M[b] = U[b]
<1> DEFINE F == FAT_PER_BLOCK
<1>1. PICK size : size = stored.sb.fat_size
  OBVIOUS
<1>2. /\ Parted(S, size) /\ Chains(K, S) /\ HoldsParts(stored.part, T, S) /\ Leads(K, S, T)
      /\ T \in [0..(size - 1) -> Blocks \cup {Cut}] /\ U \in [0..(size - 1) -> Blocks \cup {Cut}]
  BY <1>1 DEF OnDisk, Tables
<1>3. Len(S) \in Nat /\ size = F * Len(S) /\ size \in Nat /\ F \in Nat /\ F > 2
  BY <1>2, PartedIs
<1>4. PICK M : M = [i \in 0..(size - 1) |-> IF S[PartOf(i)] \in X THEN U[i] ELSE T[i]]
  OBVIOUS
<1>5. M \in Tables /\ \A b \in DOMAIN T : M[b] = T[b] \/ M[b] = U[b]
  BY <1>1, <1>2, <1>4 DEF Tables
<1>6. HoldsParts(part, M, S)
  <2>1. DOMAIN part = {S[k] : k \in 1..Len(S)}
    <3>1. DOMAIN stored.part = {S[k] : k \in 1..Len(S)}
      BY <1>2 DEF HoldsParts
    <3>2. X \subseteq {S[k] : k \in 1..Len(S)}
      BY DEF In
    <3> QED
      BY <3>1, <3>2
  <2>2. ASSUME NEW k \in 1..Len(S) PROVE part[S[k]] = Part(M, k)
    <3>1. new[S[k]] = Part(U, k) /\ stored.part[S[k]] = Part(T, k)
      BY <1>2 DEF HoldsParts
    <3>2. part[S[k]] = IF S[k] \in X THEN Part(U, k) ELSE Part(T, k)
      BY <2>1, <3>1
    <3>3. ASSUME NEW i \in 0..(F - 1)
          PROVE  M[(k - 1) * F + i] = IF S[k] \in X THEN U[(k - 1) * F + i] ELSE T[(k - 1) * F + i]
      <4>1. PICK q \in Nat : k = q + 1 /\ k - 1 = q /\ q < Len(S)
        <5>1. k - 1 \in Nat /\ k = (k - 1) + 1 /\ k - 1 < Len(S)
          BY <1>3
        <5> QED
          BY <5>1
      <4>2. PICK x : x = q * F + i
        OBVIOUS
      <4>3. x \in 0..(size - 1)
        <5>1. q + 1 <= Len(S)
          BY <1>3, <4>1
        <5>2. (q + 1) * F <= Len(S) * F /\ (q + 1) * F = q * F + F /\ q * F \in Nat
          <6>1. \A a, b \in Nat : a <= b => a * F <= b * F
            BY <1>3
          <6>2. q + 1 \in Nat
            OBVIOUS
          <6>3. (q + 1) * F <= Len(S) * F
            BY <1>3, <5>1, <6>1, <6>2
          <6> QED
            BY <1>3, <6>3
        <5>3. Len(S) * F = size
          BY <1>3
        <5>4. i \in Nat /\ i < F
          BY <1>3
        <5> QED
          BY <1>3, <4>2, <5>2, <5>3, <5>4
      <4>4. PartOf(x) = k
        <5>1. x \div F = q
          <6>1. \A a, b, c \in Nat : c < b => (a * b + c) \div b = a
            BY SMTT(60)
          <6>2. i \in Nat /\ i < F
            BY <1>3
          <6> QED
            BY <1>3, <4>2, <6>1, <6>2
        <5> QED
          BY <4>1, <5>1 DEF PartOf
      <4>5. M[x] = IF S[k] \in X THEN U[x] ELSE T[x]
        BY <1>4, <4>3, <4>4
      <4> QED
        BY <4>1, <4>2, <4>5
    <3>4. Part(M, k) = IF S[k] \in X THEN Part(U, k) ELSE Part(T, k)
      BY <3>3 DEF Part
    <3> QED
      BY <3>2, <3>4
  <2> QED
    BY <2>1, <2>2 DEF HoldsParts
<1>7. Leads(K, S, M)
  <2>1. DOMAIN M = DOMAIN T
    BY <1>2, <1>4
  <2> QED
    BY <1>2, <1>5, <2>1, LeadsEither
<1> QED
  BY <1>5, <1>6, <1>7
-----------------------------------------------------------------------------
(* An operation begins: its file is not kept any longer, and the file's    *)
(* blocks are now among those of others.                                   *)
LEMMA IdleIsLevel ==
  ASSUME NEW t, Threads = {t}, Healthy(t), pc[t] = "idle"
  PROVE  sb.fat_size = stored.sb.fat_size /\ Unlinked(t) = {} /\ pc[t] \notin Building
<1>1. pc[t] \notin Building
  BY DEF Building
<1>2. TableSane(t)
  BY DEF Healthy
<1> QED
  BY <1>1, <1>2 DEF TableSane, Unlinked

LEMMA Dropped ==
  ASSUME NEW t, Threads = {t}, Healthy(t), pc[t] = "idle",
         NEW f \in Files, NEW K, NEW J, DOMAIN J = DOMAIN K \ {f},
         \A g \in DOMAIN J : J[g] = K[g],
         NEW S, NEW T, NEW B, NEW A, Safe(K, t, S, T, B, A)
  PROVE  \E D : OnDisk(J, S, T) /\ Reserved(J, S) /\ Apart(J, t, S, T, D)
<1>1. /\ OnDisk(K, S, T) /\ Reserved(K, S) /\ Apart(K, t, S, T, B)
  BY IdleIsLevel DEF Safe, InMemory, Healthy
<1>2. Chains(K, S) /\ Labelled(K, S) /\ Chains(J, S) /\ Labelled(J, S)
  BY <1>1 DEF OnDisk, Chains, Labelled
<1>3. Spared(J, S) \subseteq Spared(K, S)
  BY DEF Spared
<1>4. OnDisk(J, S, T) /\ Reserved(J, S)
  <2>1. Leads(J, S, T)
    BY <1>1 DEF OnDisk, Leads
  <2>2. \A g \in DOMAIN J : g \in Files /\ KeptFile(J[g], entry[g])
    BY <1>1 DEF OnDisk
  <2>3. \A b \in Spared(J, S) : b < saved.next_alloc /\ b \notin saved.freed
    BY <1>1, <1>3 DEF OnDisk
  <2>4. OnDisk(J, S, T)
    BY <1>1, <1>2, <2>1, <2>2, <2>3 DEF OnDisk
  <2> QED
    BY <1>1, <1>3, <2>4 DEF Reserved
<1>5. PICK X : X = IF f \in DOMAIN K THEN {b \in Blocks : In(b, K[f])} ELSE {}
  OBVIOUS
<1>6. ASSUME NEW b \in X PROVE b \notin Spared(J, S)
  <2>1. holds[b] = f /\ f \notin {"system", "table"}
    BY <1>2, <1>5, <1>6, RestartAssumption DEF Labelled
  <2>2. /\ b # 0 /\ b # Root /\ ~In(b, S)
        /\ \A g \in DOMAIN J : In(b, J[g]) => g = f
    BY <1>2, <2>1 DEF Labelled
  <2> QED
    BY <2>2 DEF Spared
<1>7. PICK D : D = B \cup X
  OBVIOUS
<1>8. Away(J, S, D)
  BY <1>1, <1>3, <1>5, <1>6, <1>7 DEF Apart, Away
<1>9. Leads(J, S, fat) /\ sb.fat_start = S[1]
  BY <1>1 DEF Apart, Leads
<1>10. Led(J, D)
  <2> SUFFICES ASSUME NEW g \in Files, g \notin DOMAIN J PROVE entry[g].start \in D \cup {FAT_NULL}
    BY DEF Led
  <2>1. CASE g \notin DOMAIN K
    BY <1>1, <1>7, <2>1 DEF Apart, Led
  <2>2. CASE g \in DOMAIN K
    <3>1. PICK s : s = K[f]
      OBVIOUS
    <3>2. g = f /\ f \in DOMAIN K /\ s \in Seq(Blocks) /\ entry[g].start = First(s)
      BY <1>1, <1>2, <2>2, <3>1 DEF OnDisk, KeptFile, Chains
    <3>3. Whole(fat, s)
      BY <1>1, <3>1, <3>2 DEF Apart, Leads
    <3>4. First(s) = FAT_NULL \/ First(s) \in X
      BY <1>5, <3>1, <3>2, <3>3, ChainCloses
    <3> QED
      BY <1>7, <3>2, <3>4
  <2> QED
    BY <2>1, <2>2
<1>11. Closed(fat, B, {}) /\ fat = T
  BY <1>1, IdleIsLevel DEF Apart, Settled
<1>12. Closed(fat, D, {})
  <2> SUFFICES ASSUME NEW b \in D, b \in DOMAIN fat
               PROVE  fat[b] \in D \cup {FAT_NULL, Cut}
    BY DEF Closed
  <2>1. CASE b \in B
    BY <1>7, <1>11, <2>1 DEF Closed
  <2>2. CASE b \in X
    <3>1. PICK s : s = K[f]
      OBVIOUS
    <3>2. f \in DOMAIN K /\ s \in Seq(Blocks) /\ Whole(fat, s) /\ In(b, s)
      BY <1>1, <1>2, <1>5, <2>2, <3>1 DEF Apart, Leads, Chains
    <3>3. fat[b] \in {FAT_NULL, Cut} \cup X
      BY <1>5, <3>1, <3>2, ChainCloses
    <3> QED
      BY <1>7, <3>3
  <2> QED
    BY <1>7, <2>1, <2>2
<1>13. Closed(fat, D, Unlinked(t)) /\ Settled(t, T, D)
  BY <1>11, <1>12, IdleIsLevel DEF Settled
<1>14. Working(J, t, D)
  <2>1. Working(K, t, B) /\ pc[t] \notin Building /\ pc[t] \notin {"advance", "place"}
    BY <1>1, IdleIsLevel DEF Apart
  <2> QED
    BY <1>7, <2>1 DEF Working
<1>15. Apart(J, t, S, T, D)
  BY <1>8, <1>9, <1>10, <1>13, <1>14 DEF Apart
<1> QED
  BY <1>4, <1>15
LEMMA BeginSafe ==
  ASSUME NEW t, Threads = {t}, Healthy(t), pc[t] = "idle", UNCHANGED <<saved, holds>>,
         NEW f \in Files, NEW J, f \notin DOMAIN J,
         NEW S, NEW T, NEW D, OnDisk(J, S, T), Reserved(J, S), Apart(J, t, S, T, D),
         \/ Mknod(t, f)
         \/ Unlink(t, f)
         \/ \E n \in 0..MaxFile : Grow(t, f, n) \/ Shrink(t, f, n)
  PROVE  OnDisk(J, S, T)' /\ (fault' = "none" => Reserved(J, S)' /\ Apart(J, t, S, T, D)')
<1>1. /\ reg \in [Threads -> Locals] /\ pc \in [Threads -> Steps] /\ t \in Threads
      /\ entry \in [Files -> Entries] /\ fat \in [0..(sb.fat_size - 1) -> Blocks \cup {Cut}]
      /\ sb.fat_size \in Nat /\ Cut = -1
  BY SaneBasics DEF Healthy, Types
<1>2. /\ UNCHANGED <<stored, sb, next_alloc, freed>>
      /\ \A g \in DOMAIN J : entry'[g] = entry[g]
  <2>1. UNCHANGED <<stored, sb, next_alloc, freed>>
    BY DEF Mknod, Unlink, Grow, Shrink, Fails
  <2>2. \A g \in DOMAIN J : g # f /\ g \in DOMAIN entry
    BY <1>1 DEF OnDisk
  <2>3. entry' = entry \/ entry' = [entry EXCEPT ![f] = [start |-> FAT_NULL, blocks |-> 0]]
    BY DEF Mknod, Unlink, Grow, Shrink, Fails
  <2>4. \A g \in DOMAIN J : entry'[g] = entry[g]
    BY <2>2, <2>3
  <2> QED
    BY <2>1, <2>4
<1>3. OnDisk(J, S, T)'
  BY <1>2, SameDisk
<1>4. Reserved(J, S)'
  BY <1>2 DEF Reserved
<1>5. /\ Leads(J, S, fat) /\ sb.fat_start = S[1] /\ Away(J, S, D) /\ Led(J, D)
      /\ Closed(fat, D, {}) /\ Closed(T, D, {}) /\ fat = T /\ Working(J, t, D)
  BY IdleIsLevel DEF Apart, Settled
<1>6. entry[f].start \in D \cup {FAT_NULL}
  BY <1>5 DEF Led
<1>7. ASSUME Mknod(t, f) PROVE Apart(J, t, S, T, D)'
  <2>1. /\ UNCHANGED <<fat, sb, pc, reg>>
        /\ entry' = [entry EXCEPT ![f] = [start |-> FAT_NULL, blocks |-> 0]]
    BY <1>7 DEF Mknod
  <2>2. Led(J, D)'
    <3> SUFFICES ASSUME NEW g \in Files, g \notin DOMAIN J PROVE entry'[g].start \in D \cup {FAT_NULL}
      BY DEF Led
    <3>1. CASE g = f
      BY <1>1, <2>1, <3>1
    <3>2. CASE g # f
      <4>1. entry'[g] = entry[g]
        BY <1>1, <2>1, <3>2
      <4> QED
        BY <1>5, <4>1 DEF Led
    <3> QED
      BY <3>1, <3>2
  <2>3. Working(J, t, D)' /\ Settled(t, T, D)' /\ Unlinked(t)' = Unlinked(t)
    BY <1>5, <2>1 DEF Working, Settled, Unlinked, Apart
  <2> QED
    BY <1>5, <2>1, <2>2, <2>3, IdleIsLevel DEF Apart
<1>8. ASSUME entry' = entry, reg'[t].file = f,
             pc'[t] \in {"alloc", "free"},
             reg'[t].de.start \in D \cup {FAT_NULL}, reg'[t].cur \in D \cup {FAT_NULL, Cut},
             reg'[t].start = FAT_NULL, pc'[t] = "alloc" => reg'[t].todo > 0,
             Leads(J, S, fat'), Closed(fat', D, {})
      PROVE  Apart(J, t, S, T, D)'
  <2>1. Working(J, t, D)'
    BY <1>8 DEF Working, Building
  <2>2. Settled(t, T, D)'
    BY <1>5, <1>8 DEF Settled
  <2>3. Unlinked(t)' = {}
    BY <1>8 DEF Unlinked
  <2>4. Led(J, D)' /\ sb'.fat_start = S[1]
    BY <1>2, <1>5, <1>8 DEF Led
  <2> QED
    BY <1>5, <1>8, <2>1, <2>2, <2>3, <2>4 DEF Apart
<1>9. ASSUME NEW n \in 0..MaxFile, Grow(t, f, n) PROVE Apart(J, t, S, T, D)'
  <2>1. PICK r : r = [NoLocals EXCEPT !.op = "truncate", !.file = f, !.de = entry[f],
                                      !.want = n, !.todo = n - entry[f].blocks]
    OBVIOUS
  <2>2. /\ n > entry[f].blocks /\ reg' = [reg EXCEPT ![t] = r] /\ pc' = [pc EXCEPT ![t] = "alloc"]
        /\ UNCHANGED <<fat, entry>>
    BY <1>9, <2>1 DEF Grow, Set, Goto
  <2>3. /\ r.file = f /\ r.de = entry[f] /\ r.cur = FAT_NULL /\ r.start = FAT_NULL
        /\ r.todo = n - entry[f].blocks
    BY <2>1 DEF NoLocals
  <2>4. entry[f].blocks \in Int /\ n \in Int
    BY <1>1 DEF Entries
  <2>5. r.todo > 0
    BY <2>2, <2>3, <2>4
  <2>6. reg'[t] = r /\ pc'[t] = "alloc"
    BY <1>1, <2>2
  <2> QED
    BY <1>5, <1>6, <1>8, <2>2, <2>3, <2>5, <2>6
<1>10. ASSUME Unlink(t, f) PROVE Apart(J, t, S, T, D)'
  <2>1. PICK r : r = [NoLocals EXCEPT !.op = "unlink", !.file = f, !.cur = entry[f].start]
    OBVIOUS
  <2>2. /\ reg' = [reg EXCEPT ![t] = r] /\ pc' = [pc EXCEPT ![t] = "free"]
        /\ UNCHANGED <<fat, entry>>
    BY <1>10, <2>1 DEF Unlink, Set, Goto
  <2>3. r.file = f /\ r.de.start = FAT_NULL /\ r.cur = entry[f].start /\ r.start = FAT_NULL
    BY <2>1 DEF NoLocals, NoEntry
  <2>4. reg'[t] = r /\ pc'[t] = "free"
    BY <1>1, <2>2
  <2> QED
    BY <1>5, <1>6, <1>8, <2>2, <2>3, <2>4
<1>11. ASSUME NEW n \in 0..MaxFile, Shrink(t, f, n), fault' = "none" PROVE Apart(J, t, S, T, D)'
  <2>1. PICK de, r, c : /\ de = entry[f]
                        /\ r = [NoLocals EXCEPT !.op = "truncate", !.file = f, !.want = n]
                        /\ c = ChainIn(fat, de.start)
    OBVIOUS
  <2>2. r.file = f /\ r.start = FAT_NULL
    BY <2>1 DEF NoLocals
  <2>3. ~Fails("wild")
    BY <1>11 DEF Fails
  <2>4. CASE /\ n = 0
             /\ Set(t, [r EXCEPT !.de = [de EXCEPT !.start = FAT_NULL], !.cur = de.start])
             /\ Goto(t, "free")
             /\ UNCHANGED <<fat, sb, next_alloc, freed, entry, stored, fault>>
    <3>1. PICK d : d = [de EXCEPT !.start = FAT_NULL]
      OBVIOUS
    <3>2. PICK q : q = [r EXCEPT !.de = d, !.cur = de.start]
      OBVIOUS
    <3>3. de \in Entries
      BY <1>1, <2>1
    <3>4. d.start = FAT_NULL
      BY <3>1, <3>3 DEF Entries
    <3>5. q.de = d /\ q.cur = de.start /\ q.file = f /\ q.start = FAT_NULL
      BY <2>1, <2>2, <3>2 DEF NoLocals
    <3>6. reg' = [reg EXCEPT ![t] = q] /\ pc' = [pc EXCEPT ![t] = "free"] /\ UNCHANGED <<fat, entry>>
      BY <2>4, <3>1, <3>2 DEF Set, Goto
    <3>7. reg'[t] = q /\ pc'[t] = "free"
      BY <1>1, <3>6
    <3> QED
      BY <1>5, <1>6, <1>8, <2>1, <3>4, <3>5, <3>6, <3>7
  <2>5. CASE /\ 0 < n /\ n <= Len(c)
             /\ LET last == nth_block(de.start, n - 1)
                IN /\ last \in DOMAIN fat
                   /\ Set(t, [r EXCEPT !.de = de, !.cur = fat[last]])
                   /\ fat' = [fat EXCEPT ![last] = Cut]
             /\ Goto(t, "free")
             /\ UNCHANGED <<sb, next_alloc, freed, entry, stored, fault>>
    <3>1. PICK last : last = c[n]
      OBVIOUS
    <3>2. nth_block(de.start, n - 1) = last
      <4>1. (n - 1) + 1 = n
        OBVIOUS
      <4> QED
        BY <2>1, <3>1, <4>1 DEF nth_block, Chain
    <3>3. PICK q : q = [r EXCEPT !.de = de, !.cur = fat[last]]
      OBVIOUS
    <3>4. /\ last \in DOMAIN fat /\ reg' = [reg EXCEPT ![t] = q]
          /\ fat' = [fat EXCEPT ![last] = Cut] /\ pc' = [pc EXCEPT ![t] = "free"] /\ UNCHANGED entry
      BY <2>5, <3>2, <3>3 DEF Set, Goto
    <3>5. q.de = de /\ q.cur = fat[last] /\ q.file = f /\ q.start = FAT_NULL
      BY <2>1, <2>2, <3>3 DEF NoLocals
    <3>6. last \in D
      <4>1. D \subseteq Blocks /\ FAT_NULL \notin D /\ Cut \notin DOMAIN fat
        <5>1. FAT_NULL \in Spared(J, S)
          BY <1>3, Elements DEF OnDisk, FAT_NULL
        <5> QED
          BY <1>1, <1>5, <5>1 DEF Away
      <4>2. /\ Len(c) \in Nat /\ DOMAIN c = 1..Len(c)
            /\ \A i \in DOMAIN c : c[i] \in D
        BY <1>5, <1>6, <2>1, <4>1, WalkStays
      <4>3. n \in 1..Len(c)
        BY <2>5, <4>2
      <4> QED
        BY <3>1, <4>2, <4>3
    <3>7. Chains(J, S)
      BY DEF OnDisk
    <3>8. Leads(J, S, fat') /\ Closed(fat', D, {})
      <4>1. PICK y \in D \cup {FAT_NULL, Cut} : y = Cut
        OBVIOUS
      <4>2. fat' = [fat EXCEPT ![last] = y]
        BY <3>4, <4>1
      <4>3. PICK e : e = {}
        OBVIOUS
      <4>4. Closed(fat, D, e) /\ Leads(J, S, fat) /\ Away(J, S, D) /\ \A b \in e : b = last \/ b \in e
        BY <1>5, <4>3
      <4>5. Leads(J, S, fat') /\ Closed(fat', D, e)
        BY <3>6, <3>7, <4>2, <4>4, Rewritten
      <4> QED
        BY <4>3, <4>5
    <3>9. reg'[t] = q /\ pc'[t] = "free"
      BY <1>1, <3>4
    <3>10. fat[last] \in D \cup {FAT_NULL, Cut}
      BY <1>5, <3>4, <3>6 DEF Closed
    <3> QED
      BY <1>6, <1>8, <2>1, <3>4, <3>5, <3>8, <3>9, <3>10
  <2> QED
    BY <1>11, <2>1, <2>3, <2>4, <2>5, Zenon DEF Shrink, Chain
<1> QED
  BY <1>3, <1>4, <1>7, <1>9, <1>10, <1>11
(* Before the first crash, the chains of the files are whole: as a chain   *)
(* is begun, they are what the disk knows of.                              *)
LEMMA BeforeGrow ==
  ASSUME NEW t, Threads = {t}, Healthy(t), Running(t), pc[t] = "idle",
         NEW f \in Files, NEW n \in 0..MaxFile, Grow(t, f, n),
         NEW J, NEW S, NEW T, OnDisk(J, S, T), fat = T
  PROVE  \E A : Before(J, t, S, T, A)'
<1> USE UsersAre
<1>1. PICK C : Shape(t, C) /\ Held(t, C)
  BY DEF Running, Healthy
<1>2. \A g \in Files : C[File(g)] \in Seq(Live)
  BY <1>1, OwnFacts DEF Shape
<1>3. \A b \in Live : b \in Blocks /\ b < next_alloc /\ b \notin freed
  BY DEF Live
<1>4. \A g \in Files : C[File(g)] \in Seq(Blocks) /\ \A b : In(b, C[File(g)]) => b \in Live
  <2> SUFFICES ASSUME NEW g \in Files
               PROVE  C[File(g)] \in Seq(Blocks) /\ \A b : In(b, C[File(g)]) => b \in Live
    OBVIOUS
  <2>1. Live \subseteq Blocks
    BY <1>3
  <2> QED
    BY <1>2, <2>1, SeqMonotonic, ElementOfSeq DEF In
<1>5. \A g \in Files : Whole(T, C[File(g)]) /\ entry[g].start = First(C[File(g)])
  BY <1>1 DEF Shape, FileChains, Coming, Matches
<1>6. PICK A : A = {b \in Blocks : \E g \in Files : g \notin DOMAIN J /\ In(b, C[File(g)])}
  OBVIOUS
<1>7. Away(J, S, A)
  <2> SUFFICES ASSUME NEW b \in A PROVE b \notin Spared(J, S)
    BY <1>6 DEF Away
  <2>1. PICK g \in Files : g \notin DOMAIN J /\ In(b, C[File(g)])
    BY <1>6
  <2>2. holds[b] = g /\ g \notin {"system", "table"}
    BY <1>1, <2>1, RestartAssumption DEF Held
  <2>3. b # 0 /\ b # Root /\ ~In(b, S) /\ \A h \in DOMAIN J : ~In(b, J[h])
    BY <2>1, <2>2 DEF OnDisk, Labelled
  <2> QED
    BY <2>3 DEF Spared
<1>8. Closed(T, A, {})
  <2> SUFFICES ASSUME NEW b \in A PROVE T[b] \in A \cup {FAT_NULL, Cut}
    BY DEF Closed
  <2>1. PICK g \in Files : g \notin DOMAIN J /\ In(b, C[File(g)])
    BY <1>6
  <2>2. T[b] \in {FAT_NULL, Cut} \/ (T[b] \in Blocks /\ In(T[b], C[File(g)]))
    BY <1>4, <1>5, <2>1, ChainCloses
  <2> QED
    BY <1>6, <2>1, <2>2
<1>9. \A g \in Files : g \notin DOMAIN J => entry[g].start \in A \cup {FAT_NULL}
  <2> SUFFICES ASSUME NEW g \in Files, g \notin DOMAIN J PROVE entry[g].start \in A \cup {FAT_NULL}
    OBVIOUS
  <2>1. PICK p : p = First(C[File(g)])
    OBVIOUS
  <2>2. p = FAT_NULL \/ (p \in Blocks /\ In(p, C[File(g)]))
    BY <1>4, <1>5, <2>1, ChainCloses
  <2> QED
    BY <1>5, <1>6, <2>1, <2>2
<1>10. \A b \in A : b < next_alloc /\ b \notin freed
  BY <1>3, <1>4, <1>6
<1>11. PICK r : r = [NoLocals EXCEPT !.op = "truncate", !.file = f, !.de = entry[f],
                                     !.want = n, !.todo = n - entry[f].blocks]
  OBVIOUS
<1>12. /\ UNCHANGED <<fat, sb, next_alloc, freed, entry, stored>>
       /\ reg' = [reg EXCEPT ![t] = r] /\ pc' = [pc EXCEPT ![t] = "alloc"]
  BY <1>11 DEF Grow, Set, Goto
<1>13. r.start = FAT_NULL /\ reg'[t] = r /\ pc'[t] = "alloc"
  BY <1>11, <1>12, SaneBasics DEF NoLocals, Healthy
<1>14. Foreign(J, S, T, A)'
  BY <1>7, <1>8, <1>9, <1>12 DEF Foreign, Led
<1>15. Before(J, t, S, T, A)'
  BY <1>10, <1>12, <1>13, <1>14 DEF Before
<1> QED
  BY <1>15

LEMMA RBeginSafe ==
  ASSUME NEW t, Threads = {t}, Healthy(t), clean => Running(t), UNCHANGED <<saved, clean>>,
         RBegin(t), NEW S, NEW T, NEW B, NEW A, Safe(kept.files, t, S, T, B, A)
  PROVE  \E D, E : Safe(kept.files, t, S, T, D, E)'
<1>1. PICK f \in Files : /\ \/ Mknod(t, f)
                            \/ Unlink(t, f)
                            \/ \E n \in 0..MaxFile : Grow(t, f, n) \/ Shrink(t, f, n)
                         /\ kept' = Unchanged(f)
  BY DEF RBegin
<1>2. PICK K, J : K = kept.files /\ J = kept'.files
  OBVIOUS
<1>3. J = [g \in DOMAIN K \ {f} |-> K[g]]
  BY <1>1, <1>2 DEF Unchanged
<1>4. DOMAIN J = DOMAIN K \ {f} /\ (\A g \in DOMAIN J : J[g] = K[g]) /\ f \notin DOMAIN J
  BY <1>3
<1>5. pc[t] = "idle" /\ UNCHANGED holds
  BY <1>1 DEF RBegin, Mknod, Unlink, Grow, Shrink, At
<1>6. PICK D : OnDisk(J, S, T) /\ Reserved(J, S) /\ Apart(J, t, S, T, D)
  BY <1>2, <1>4, <1>5, Dropped
<1>7. OnDisk(J, S, T)' /\ (fault' = "none" => Reserved(J, S)' /\ Apart(J, t, S, T, D)')
  BY <1>1, <1>4, <1>5, <1>6, BeginSafe
<1>8. CASE fault' # "none"
  BY <1>2, <1>7, <1>8 DEF Safe
<1>9. CASE clean' /\ pc'[t] \in Building
  <2>1. PICK n \in 0..MaxFile : Grow(t, f, n)
    <3>1. \A x \in {"idle", "free"} : x \notin Building
      BY DEF Building
    <3>2. pc'[t] \notin {"idle", "free"}
      BY <1>9, <3>1
    <3>3. pc \in [Threads -> Steps] /\ t \in Threads
      BY SaneBasics DEF Healthy
    <3>4. ~Mknod(t, f) /\ ~Unlink(t, f) /\ \A n \in 0..MaxFile : ~Shrink(t, f, n)
      BY <1>5, <3>2, <3>3 DEF Mknod, Unlink, Shrink, Goto, Fails
    <3> QED
      BY <1>1, <3>4
  <2>2. fat = T
    BY <1>5, <1>6 DEF Apart, Settled
  <2>3. PICK E : Before(J, t, S, T, E)'
    BY <1>5, <1>6, <1>9, <2>1, <2>2, BeforeGrow
  <2>4. fault' = "none" => InMemory(J, t, S, T, D, E)'
    BY <1>7, <2>3 DEF InMemory
  <2> QED
    BY <1>2, <1>7, <2>4 DEF Safe
<1>10. CASE fault' = "none" /\ ~(clean' /\ pc'[t] \in Building)
  <2>1. InMemory(J, t, S, T, D, {})'
    BY <1>7, <1>10 DEF InMemory
  <2> QED
    BY <1>2, <1>7, <2>1 DEF Safe
<1> QED
  BY <1>8, <1>9, <1>10
-----------------------------------------------------------------------------
(* The steps of alloc_blocks: a new block is none of those.                *)
LEMMA NewIsOther ==
  ASSUME NEW t, Threads = {t}, Healthy(t), NEW X, \A b \in X : b < next_alloc /\ b \notin freed
  PROVE  NewBlock \notin X
<1>1. freed = {} => NewBlock = next_alloc
  BY NewBlockSane
<1>2. freed # {} => NewBlock \in freed
  BY NewBlockSane
<1>3. next_alloc \in Nat
  BY SaneBasics DEF Healthy
<1> QED
  BY <1>1, <1>2, <1>3

(* The chain that is built changes nothing of what the disk knows. *)
LEMMA StillBefore ==
  ASSUME NEW K, NEW t, NEW S, NEW T, NEW A, Before(K, t, S, T, A), UNCHANGED <<entry, stored>>,
         \A b \in A : b < next_alloc' /\ b \notin freed',
         sb'.fat_size = stored.sb.fat_size =>
            sb.fat_size = stored.sb.fat_size /\ \A b \in A : b \in DOMAIN T => fat'[b] = fat[b],
         reg'[t].start # FAT_NULL => reg'[t].last \notin A,
         pc'[t] \in {"advance", "place"} => reg'[t].new \notin A
  PROVE  Before(K, t, S, T, A)'
<1>1. Foreign(K, S, T, A)'
  BY DEF Before, Foreign, Led
<1>2. sb'.fat_size = stored'.sb.fat_size => \A b \in A : b \in DOMAIN T => fat'[b] = T[b]
  BY DEF Before
<1> QED
  BY <1>1, <1>2, Zenon DEF Before

LEMMA TakeSafe ==
  ASSUME NEW t, Threads = {t}, Healthy(t), UNCHANGED <<saved, clean>>,
         NEW K, NEW S, NEW T, NEW B, NEW A, OnDisk(K, S, T), InMemory(K, t, S, T, B, A),
         NEW what, Take(t), Holding({NewBlock}, what)
  PROVE  \E D : Safe(K, t, S, T, D, A)'
<1>1. PICK x, r, q : x = NewBlock /\ r = reg[t] /\ q = [r EXCEPT !.new = x]
  OBVIOUS
<1>2. /\ UNCHANGED <<fat, sb, next_alloc, entry, stored, fault>>
      /\ pc[t] = "alloc" /\ r.todo > 0 /\ reg' = [reg EXCEPT ![t] = q]
      /\ x < MaxBlocks /\ freed' = freed \ {x}
      /\ pc' = [pc EXCEPT ![t] = IF freed = {} THEN "advance" ELSE "place"]
  BY <1>1 DEF Take, At, Set, Goto
<1>3. pc[t] \in Building /\ pc'[t] \in {"advance", "place"} /\ pc'[t] \in Building /\ reg'[t] = q
  BY <1>2, SaneBasics DEF Healthy, Building
<1>4. /\ r \in Locals
  BY <1>1, SaneBasics DEF Healthy
<1>5. /\ q.new = x /\ q.de = r.de /\ q.start = r.start /\ q.last = r.last /\ q.cur = r.cur
      /\ q.todo = r.todo /\ q.file = r.file
  BY <1>1, <1>4 DEF Locals
<1>6. x \in Blocks
  BY <1>1, <1>2, NewBlockSane, FatAssumption DEF Blocks
<1>7. x \notin Spared(K, S)
  BY <1>1, NewIsOther DEF InMemory, Reserved
<1>8. OnDisk(K, S, T)'
  <2>1. \A b \in Spared(K, S) : holds'[b] = holds[b]
    BY <1>1, <1>7 DEF Holding, Spared
  <2> QED
    BY <1>2, <2>1, SameDisk
<1>9. Reserved(K, S)'
  BY <1>2 DEF InMemory, Reserved
<1>10. PICK D : D = B \cup {x}
  OBVIOUS
<1>11. ASSUME sb.fat_size = stored.sb.fat_size PROVE Apart(K, t, S, T, D)'
  <2>1. Apart(K, t, S, T, B)
    BY <1>11 DEF InMemory
  <2>2. Working(K, t, D)'
    <3>1. Working(K, t, B) /\ pc[t] # "idle"
      BY <1>2, <2>1 DEF Apart
    <3> QED
      BY <1>1, <1>3, <1>5, <1>10, <3>1 DEF Working
  <2>3. Settled(t, T, D)'
    BY <1>3 DEF Settled, Building
  <2>4. Away(K, S, D) /\ Led(K, D)'
    BY <1>2, <1>6, <1>7, <1>10, <2>1 DEF Apart, Away, Led
  <2>5. \A b \in Unlinked(t) : b \in Unlinked(t)'
    BY <1>1, <1>2, <1>3, <1>5 DEF Unlinked
  <2>6. x \in Unlinked(t)'
    BY <1>3, <1>5, <1>6 DEF Unlinked
  <2>7. Closed(fat, D, Unlinked(t)')
    BY <1>10, <2>1, <2>5, <2>6 DEF Apart, Closed
  <2> QED
    BY <1>2, <2>1, <2>2, <2>3, <2>4, <2>7 DEF Apart
<1>12. ASSUME clean PROVE Before(K, t, S, T, A)'
  <2>1. Before(K, t, S, T, A)
    BY <1>3, <1>12 DEF InMemory
  <2>2. \A b \in A : b < next_alloc /\ b \notin freed
    BY <2>1 DEF Before
  <2>3. x \notin A
    BY <1>1, <2>2, NewIsOther
  <2>4. r.start # FAT_NULL => r.last \notin A
    BY <1>1, <2>1 DEF Before
  <2> QED
    BY <1>2, <1>3, <1>5, <2>1, <2>2, <2>3, <2>4, StillBefore
<1>13. InMemory(K, t, S, T, D, A)'
  BY <1>2, <1>9, <1>11, <1>12 DEF InMemory
<1> QED
  BY <1>8, <1>13 DEF Safe

LEMMA AdvanceSafe ==
  ASSUME NEW t, Threads = {t}, Healthy(t), UNCHANGED <<saved, clean, holds>>,
         NEW K, NEW S, NEW T, NEW B, NEW A, OnDisk(K, S, T), InMemory(K, t, S, T, B, A),
         Advance(t)
  PROVE  Safe(K, t, S, T, B, A)'
<1>1. /\ UNCHANGED <<fat, sb, freed, entry, stored, reg, fault>>
      /\ pc[t] = "advance" /\ pc'[t] = "place" /\ next_alloc' = next_alloc + 1 /\ next_alloc \in Nat
  BY SaneBasics DEF Advance, At, Goto, Healthy
<1>2. pc[t] \in Building /\ pc'[t] \in Building
  BY <1>1 DEF Building
<1>3. OnDisk(K, S, T)'
  BY <1>1, SameDisk
<1>4. ASSUME NEW X, \A b \in X : b \in Nat /\ b < next_alloc /\ b \notin freed
      PROVE  \A b \in X : b < next_alloc' /\ b \notin freed'
  BY <1>1, <1>4
<1>5. Reserved(K, S)'
  <2>1. \A b \in Spared(K, S) : b \in Nat /\ b < next_alloc /\ b \notin freed
    BY SaneBasics DEF InMemory, Reserved, Spared, Healthy
  <2> QED
    BY <1>4, <2>1 DEF Reserved
<1>6. ASSUME sb.fat_size = stored.sb.fat_size PROVE Apart(K, t, S, T, B)'
  <2>1. Apart(K, t, S, T, B)
    BY <1>6 DEF InMemory
  <2>2. Working(K, t, B)' /\ Unlinked(t)' = Unlinked(t)
    BY <1>1, <1>2, <2>1 DEF Apart, Working, Unlinked
  <2>3. Settled(t, T, B)'
    BY <1>1, <1>2 DEF Settled, Building
  <2> QED
    BY <1>1, <2>1, <2>2, <2>3 DEF Apart, Led
<1>7. ASSUME clean PROVE Before(K, t, S, T, A)'
  <2>1. Before(K, t, S, T, A)
    BY <1>2, <1>7 DEF InMemory
  <2>2. \A b \in A : b \in Nat /\ b < next_alloc /\ b \notin freed
    BY <2>1, SaneBasics DEF Before, Foreign, Away, Healthy
  <2>3. \A b \in A : b < next_alloc' /\ b \notin freed'
    BY <1>4, <2>2
  <2>4. /\ reg[t].start # FAT_NULL => reg[t].last \notin A
        /\ reg[t].new \notin A
    BY <1>1, <2>1 DEF Before
  <2> QED
    BY <1>1, <2>1, <2>3, <2>4, StillBefore
<1>8. InMemory(K, t, S, T, B, A)'
  BY <1>1, <1>2, <1>5, <1>6, <1>7 DEF InMemory
<1> QED
  BY <1>3, <1>8 DEF Safe

LEMMA PlaceFirstSafe ==
  ASSUME NEW t, Threads = {t}, Healthy(t), UNCHANGED <<saved, clean, holds>>,
         NEW K, NEW S, NEW T, NEW B, NEW A, OnDisk(K, S, T), InMemory(K, t, S, T, B, A),
         PlaceFirst(t)
  PROVE  Safe(K, t, S, T, B, A)'
<1>1. PICK r, q : r = reg[t] /\ q = [r EXCEPT !.start = r.new, !.last = r.new, !.todo = r.todo - 1]
  OBVIOUS
<1>2. /\ UNCHANGED <<fat, sb, next_alloc, freed, entry, stored, fault>>
      /\ pc[t] = "place" /\ r.start = FAT_NULL /\ reg' = [reg EXCEPT ![t] = q]
      /\ pc' = [pc EXCEPT ![t] = "alloc"]
  BY <1>1 DEF PlaceFirst, At, Set, Goto
<1>3. pc[t] \in Building /\ pc'[t] = "alloc" /\ pc'[t] \in Building /\ reg'[t] = q
  BY <1>2, SaneBasics DEF Healthy, Building
<1>4. r \in Locals
  BY <1>1, SaneBasics DEF Healthy
<1>5. /\ q.start = r.new /\ q.last = r.new /\ q.de = r.de /\ q.cur = r.cur /\ q.file = r.file
  BY <1>1, <1>4 DEF Locals
<1>6. r.new # FAT_NULL /\ r.new \in Blocks
  <2>1. r.new \in Nat /\ r.new > Root /\ Root = 2 /\ FAT_NULL = 0 /\ r.new \in Blocks
    BY <1>1, <1>2, SaneBasics DEF Healthy, LocalsSane
  <2> QED
    BY <2>1
<1>7. OnDisk(K, S, T)'
  BY <1>2, SameDisk
<1>8. Reserved(K, S)'
  BY <1>2 DEF InMemory, Reserved
<1>9. ASSUME sb.fat_size = stored.sb.fat_size PROVE Apart(K, t, S, T, B)'
  <2>1. Apart(K, t, S, T, B)
    BY <1>9 DEF InMemory
  <2>2. Working(K, t, B) /\ r.new \in B
    BY <1>1, <1>2, <2>1 DEF Apart, Working
  <2>3. Working(K, t, B)'
    BY <1>1, <1>2, <1>3, <1>5, <1>6, <2>2 DEF Working
  <2>4. Settled(t, T, B)'
    BY <1>3 DEF Settled, Building
  <2>5. \A b \in Unlinked(t) : b \in Unlinked(t)'
    BY <1>1, <1>2, <1>3, <1>5, <1>6 DEF Unlinked
  <2>6. Closed(fat, B, Unlinked(t)')
    BY <2>1, <2>5 DEF Apart, Closed
  <2> QED
    BY <1>2, <2>1, <2>3, <2>4, <2>6 DEF Apart, Led
<1>10. ASSUME clean PROVE Before(K, t, S, T, A)'
  <2>1. Before(K, t, S, T, A)
    BY <1>3, <1>10 DEF InMemory
  <2>2. (\A b \in A : b < next_alloc /\ b \notin freed) /\ r.new \notin A
    BY <1>1, <1>2, <2>1 DEF Before
  <2> QED
    BY <1>2, <1>3, <1>5, <2>1, <2>2, StillBefore
<1>11. InMemory(K, t, S, T, B, A)'
  BY <1>2, <1>8, <1>9, <1>10 DEF InMemory
<1> QED
  BY <1>7, <1>11 DEF Safe
LEMMA ExpandSafe ==
  ASSUME NEW t, Threads = {t}, Healthy(t), UNCHANGED <<saved, clean>>,
         NEW K, NEW S, NEW T, NEW B, NEW A, OnDisk(K, S, T), InMemory(K, t, S, T, B, A),
         Expand(t), Holding({NewBlock}, "table")
  PROVE  Safe(K, t, S, T, B, A)'
<1>1. PICK x : x = NewBlock
  OBVIOUS
<1>2. /\ UNCHANGED <<entry, stored, pc, reg, fault>>
      /\ pc[t] = "place" /\ sb' = Grown
      /\ next_alloc' = IF freed = {} THEN next_alloc + 1 ELSE next_alloc
      /\ freed' = freed \ {x}
  BY <1>1 DEF Expand, At
<1>3. /\ next_alloc \in Nat /\ sb.fat_size \in Nat /\ sb \in Superblocks
      /\ FAT_PER_BLOCK \in Nat /\ FAT_PER_BLOCK > 2 /\ \A b \in Blocks : b \in Nat
  BY SaneBasics DEF Healthy
<1>4. sb'.fat_size # stored.sb.fat_size
  <2>1. sb'.fat_size = sb.fat_size + FAT_PER_BLOCK
    BY <1>2, <1>3 DEF Grown, Superblocks
  <2>2. sb.fat_size >= stored.sb.fat_size /\ stored.sb.fat_size \in Nat
    BY <1>2 DEF Healthy, TableSane, Building, DiskSane, Superblocks
  <2> QED
    BY <1>3, <2>1, <2>2
<1>5. ASSUME NEW X \in SUBSET Blocks, \A b \in X : b < next_alloc /\ b \notin freed
      PROVE  x \notin X /\ \A b \in X : b < next_alloc' /\ b \notin freed'
  <2>1. x \notin X
    BY <1>1, <1>5, NewIsOther
  <2> QED
    BY <1>2, <1>3, <1>5, <2>1
<1>6. x \notin Spared(K, S) /\ Reserved(K, S)'
  <2>1. \A b \in Spared(K, S) : b \in Blocks /\ b < next_alloc /\ b \notin freed
    BY DEF InMemory, Reserved, Spared
  <2> QED
    BY <1>5, <2>1 DEF Reserved
<1>7. OnDisk(K, S, T)'
  <2>1. \A b \in Spared(K, S) : holds'[b] = holds[b]
    BY <1>1, <1>6 DEF Holding, Spared
  <2> QED
    BY <1>2, <2>1, SameDisk
<1>8. ASSUME clean PROVE Before(K, t, S, T, A)'
  <2>1. Before(K, t, S, T, A)
    BY <1>2, <1>8 DEF InMemory, Building
  <2>2. A \in SUBSET Blocks /\ \A b \in A : b < next_alloc /\ b \notin freed
    BY <2>1 DEF Before, Foreign, Away
  <2>3. \A b \in A : b < next_alloc' /\ b \notin freed'
    BY <1>5, <2>2
  <2>4. /\ reg[t].start # FAT_NULL => reg[t].last \notin A
        /\ pc[t] \in {"advance", "place"} => reg[t].new \notin A
    BY <2>1 DEF Before
  <2> QED
    BY <1>2, <1>4, <2>1, <2>3, <2>4, StillBefore
<1>9. InMemory(K, t, S, T, B, A)'
  BY <1>2, <1>4, <1>6, <1>8 DEF InMemory
<1> QED
  BY <1>7, <1>9 DEF Safe

LEMMA PlaceNextSafe ==
  ASSUME NEW t, Threads = {t}, Healthy(t), UNCHANGED <<saved, clean, holds>>,
         NEW K, NEW S, NEW T, NEW B, NEW A, OnDisk(K, S, T), InMemory(K, t, S, T, B, A),
         PlaceNext(t)
  PROVE  Safe(K, t, S, T, B, A)'
<1>1. PICK r, q : r = reg[t] /\ q = [r EXCEPT !.last = r.new, !.todo = r.todo - 1]
  OBVIOUS
<1>2. /\ UNCHANGED <<sb, next_alloc, freed, entry, stored, fault>>
      /\ pc[t] = "place" /\ r.start # FAT_NULL /\ reg' = [reg EXCEPT ![t] = q]
      /\ fat' = [fat EXCEPT ![r.last] = r.new]
      /\ pc' = [pc EXCEPT ![t] = "alloc"]
  BY <1>1 DEF PlaceNext, At, Set, Goto
<1>3. pc[t] \in Building /\ pc'[t] = "alloc" /\ pc'[t] \in Building /\ reg'[t] = q
  BY <1>2, SaneBasics DEF Healthy, Building
<1>4. r \in Locals
  BY <1>1, SaneBasics DEF Healthy
<1>5. /\ q.last = r.new /\ q.start = r.start /\ q.de = r.de /\ q.cur = r.cur /\ q.file = r.file
  BY <1>1, <1>4 DEF Locals
<1>6. r.new \in Blocks
  BY <1>4 DEF Locals
<1>7. OnDisk(K, S, T)'
  BY <1>2, SameDisk
<1>8. Reserved(K, S)'
  BY <1>2 DEF InMemory, Reserved
<1>9. ASSUME sb.fat_size = stored.sb.fat_size PROVE Apart(K, t, S, T, B)'
  <2>1. Apart(K, t, S, T, B)
    BY <1>9 DEF InMemory
  <2>2. Working(K, t, B) /\ r.new \in B /\ r.last \in B
    BY <1>1, <1>2, <1>3, <2>1 DEF Apart, Working
  <2>3. Working(K, t, B)'
    BY <1>1, <1>2, <1>3, <1>5, <2>2 DEF Working
  <2>4. Settled(t, T, B)'
    BY <1>3 DEF Settled, Building
  <2>5. \A b \in Unlinked(t) : b = r.last \/ b \in Unlinked(t)'
    BY <1>1, <1>2, <1>3, <1>5, <1>6 DEF Unlinked
  <2>6. Chains(K, S)
    BY DEF OnDisk
  <2>7. PICK open, rest : open = Unlinked(t) /\ rest = Unlinked(t)'
    OBVIOUS
  <2>8. /\ Leads(K, S, fat) /\ Away(K, S, B) /\ Closed(fat, B, open)
        /\ \A b \in open : b = r.last \/ b \in rest
    BY <2>1, <2>5, <2>7 DEF Apart
  <2>9. PICK x \in B, y \in B \cup {FAT_NULL, Cut} : x = r.last /\ y = r.new
    BY <2>2
  <2>10. Leads(K, S, fat') /\ Closed(fat', B, rest)
    <3>1. fat' = [fat EXCEPT ![x] = y] /\ \A b \in open : b = x \/ b \in rest
      BY <1>2, <2>8, <2>9
    <3> QED
      BY <2>6, <2>8, <3>1, Rewritten
  <2> QED
    BY <1>2, <2>1, <2>3, <2>4, <2>7, <2>10 DEF Apart, Led
<1>10. ASSUME clean PROVE Before(K, t, S, T, A)'
  <2>1. Before(K, t, S, T, A)
    BY <1>3, <1>10 DEF InMemory
  <2>2. (\A b \in A : b < next_alloc /\ b \notin freed) /\ r.new \notin A /\ r.last \notin A
    BY <1>1, <1>2, <2>1 DEF Before
  <2>3. sb.fat_size = stored.sb.fat_size => \A b \in A : b \in DOMAIN T => fat'[b] = fat[b]
    <3> SUFFICES ASSUME sb.fat_size = stored.sb.fat_size, NEW b \in A, b \in DOMAIN T
                 PROVE  fat'[b] = fat[b]
      OBVIOUS
    <3>1. b \in DOMAIN fat /\ b # r.last
      <4>1. DOMAIN T = 0..(stored.sb.fat_size - 1) /\ DOMAIN fat = 0..(sb.fat_size - 1)
        BY DEF OnDisk, Healthy, Types
      <4> QED
        BY <2>2, <4>1
    <3> QED
      BY <1>2, <3>1
  <2> QED
    BY <1>2, <1>3, <1>5, <2>1, <2>2, <2>3, StillBefore
<1>11. InMemory(K, t, S, T, B, A)'
  BY <1>2, <1>8, <1>9, <1>10 DEF InMemory
<1> QED
  BY <1>7, <1>11 DEF Safe
-----------------------------------------------------------------------------
(* The tables that are written, as long as the table has not grown: they   *)
(* lead along the same chains.  E are the blocks to which other files lead *)
(* if not all of it is written before the first crash.                     *)
PendingKeeps(K, S, T, B, w) ==
  /\ w.table \in Tables /\ Leads(K, S, w.table) /\ Closed(w.table, B, {})
  /\ clean => \E E : Foreign(K, S, T, E) /\ Closed(w.table, E, {})
  /\ w.sb.fat_start = S[1]

LEMMA LastOfWalk ==
  ASSUME NEW K, NEW S, NEW B, Away(K, S, B), Chains(K, S), Cut \notin DOMAIN fat,
         Closed(fat, B, {}), NEW p \in B
  PROVE  last_block(p) \in B
<1>1. PICK c : c = ChainIn(fat, p)
  OBVIOUS
<1>2. B \subseteq Blocks /\ FAT_NULL \notin B
  BY Elements DEF Away, FAT_NULL
<1>3. PICK q \in B \cup {FAT_NULL, Cut} : q = p
  OBVIOUS
<1>4. /\ Len(c) \in Nat /\ DOMAIN c = 1..Len(c) /\ 1 \in DOMAIN c
      /\ \A i \in DOMAIN c : c[i] \in B
  BY <1>1, <1>2, <1>3, WalkStays
<1>5. Len(c) \in DOMAIN c
  BY <1>4
<1> QED
  BY <1>1, <1>4, <1>5 DEF last_block, Chain, Last

LEMMA PendingSafe ==
  ASSUME NEW t, Threads = {t}, Healthy(t), NEW w \in Pending(t),
         w.sb.fat_size = stored.sb.fat_size,
         NEW K, NEW S, NEW T, NEW B, NEW A, OnDisk(K, S, T), InMemory(K, t, S, T, B, A)
  PROVE  Apart(K, t, S, T, B) /\ PendingKeeps(K, S, T, B, w)
<1>1. PICK r, size : r = reg[t] /\ size = stored.sb.fat_size
  OBVIOUS
<1>2. /\ fat \in [0..(sb.fat_size - 1) -> Blocks \cup {Cut}] /\ sb.fat_size \in Nat /\ sb \in Superblocks
      /\ Cut = -1 /\ FAT_NULL = 0 /\ 0 \in Blocks /\ r \in Locals
  BY <1>1, SaneBasics DEF Healthy, Types
<1>3. \/ pc[t] = "alloc" /\ r.todo = 0 /\ w = [table |-> Ended(r), sb |-> Charged(r), super |-> "before"]
      \/ /\ pc[t] = "attach" /\ r.de.start # FAT_NULL
         /\ w = [table |-> Linked(r), sb |-> sb, super |-> "not"]
      \/ pc[t] = "free" /\ w = [table |-> fat, sb |-> sb, super |-> "after"]
  BY <1>1 DEF Pending
<1>4. /\ w.sb = sb \/ w.sb = Charged(r)
      /\ w.table = Ended(r) \/ w.table = Linked(r) \/ w.table = fat
  BY <1>3
<1>5. Charged(r).fat_size = sb.fat_size /\ Charged(r).fat_start = sb.fat_start
  BY <1>2 DEF Charged, Superblocks
<1>6. sb.fat_size = size /\ w.sb.fat_start = sb.fat_start
  BY <1>1, <1>4, <1>5
<1>7. Apart(K, t, S, T, B)
  BY <1>1, <1>6 DEF InMemory
<1>8. /\ Leads(K, S, fat) /\ sb.fat_start = S[1] /\ Away(K, S, B) /\ Led(K, B)
      /\ Closed(fat, B, Unlinked(t)) /\ Working(K, t, B) /\ Settled(t, T, B)
  BY <1>7 DEF Apart
<1>9. /\ Chains(K, S) /\ T \in [0..(size - 1) -> Blocks \cup {Cut}]
      /\ fat \in [0..(size - 1) -> Blocks \cup {Cut}]
  BY <1>1, <1>2, <1>6 DEF OnDisk
<1>10. ASSUME NEW x \in B, NEW y \in B \cup {FAT_NULL, Cut}, w.table = [fat EXCEPT ![x] = y],
              \A b \in Unlinked(t) : b = x
       PROVE  w.table \in Tables /\ Leads(K, S, w.table) /\ Closed(w.table, B, {})
  <2>1. PICK open, rest : open = Unlinked(t) /\ rest = {}
    OBVIOUS
  <2>2. Closed(fat, B, open) /\ \A b \in open : b = x \/ b \in rest
    BY <1>8, <1>10, <2>1
  <2>3. Leads(K, S, w.table) /\ Closed(w.table, B, rest)
    <3>1. PICK U : U = w.table
      OBVIOUS
    <3>2. U = [fat EXCEPT ![x] = y]
      BY <1>10, <3>1
    <3>3. Leads(K, S, U) /\ Closed(U, B, rest)
      BY <1>8, <1>9, <2>2, <3>2, Rewritten, ZenonT(40)
    <3> QED
      BY <3>1, <3>3
  <2>4. y \in Blocks \cup {Cut}
    BY <1>2, <1>8 DEF Away
  <2>5. w.table \in [0..(size - 1) -> Blocks \cup {Cut}]
    BY <1>9, <1>10, <2>4
  <2> QED
    BY <1>1, <2>1, <2>3, <2>5 DEF Tables
<1>11. CASE pc[t] = "alloc"
  <2>1. r.todo = 0 /\ w.table = Ended(r)
    BY <1>3, <1>11
  <2>2. pc[t] \in Building /\ pc[t] \notin {"advance", "place"}
    BY <1>11 DEF Building
  <2>3. r.start # FAT_NULL /\ r.last \in B
    BY <1>1, <1>8, <2>1, <2>2 DEF Working
  <2>4. PICK x \in B, y \in B \cup {FAT_NULL, Cut} : x = r.last /\ y = FAT_NULL
    BY <2>3
  <2>5. w.table = [fat EXCEPT ![x] = y]
    BY <2>1, <2>4 DEF Ended
  <2>6. \A b \in Unlinked(t) : b = x
    BY <1>1, <2>2, <2>4 DEF Unlinked
  <2>7. ASSUME clean PROVE Foreign(K, S, T, A) /\ Closed(w.table, A, {})
    <3>1. Before(K, t, S, T, A)
      BY <2>2, <2>7 DEF InMemory
    <3>2. /\ Foreign(K, S, T, A) /\ x \notin A
          /\ \A b \in A : b \in DOMAIN T => fat[b] = T[b]
      BY <1>1, <1>6, <2>3, <2>4, <3>1 DEF Before
    <3>3. \A b \in A : b \in DOMAIN w.table => b \in DOMAIN T /\ w.table[b] = T[b]
      BY <1>9, <2>5, <3>2
    <3> QED
      BY <3>2, <3>3 DEF Foreign, Closed
  <2> QED
    BY <1>6, <1>7, <1>8, <1>10, <2>5, <2>6, <2>7 DEF PendingKeeps
<1>12. ASSUME pc[t] \in {"attach", "free"} PROVE Foreign(K, S, T, B) /\ Unlinked(t) = {}
  <2>1. pc[t] \notin Building /\ pc[t] \notin {"advance", "place"}
    BY <1>12 DEF Building
  <2> QED
    BY <1>8, <2>1 DEF Settled, Foreign, Unlinked
<1>13. CASE pc[t] = "attach"
  <2>1. r.de.start # FAT_NULL /\ w.table = Linked(r)
    BY <1>3, <1>13
  <2>2. Foreign(K, S, T, B) /\ Unlinked(t) = {} /\ Closed(fat, B, {})
    BY <1>8, <1>12, <1>13
  <2>3. PICK p \in B : p = r.de.start
    BY <1>1, <1>8, <2>1 DEF Working
  <2>4. Cut \notin DOMAIN fat
    BY <1>2
  <2>5. last_block(p) \in B
    BY <1>8, <1>9, <2>2, <2>4, LastOfWalk
  <2>6. r.start \in B \cup {FAT_NULL, Cut}
    BY <1>1, <1>8 DEF Working
  <2>7. PICK x \in B, y \in B \cup {FAT_NULL, Cut} : x = last_block(p) /\ y = r.start
    BY <2>5, <2>6
  <2>8. w.table = [fat EXCEPT ![x] = y]
    BY <2>1, <2>3, <2>7 DEF Linked
  <2>9. w.table \in Tables /\ Leads(K, S, w.table) /\ Closed(w.table, B, {})
    BY <1>10, <2>2, <2>8
  <2> QED
    BY <1>6, <1>7, <1>8, <2>2, <2>9 DEF PendingKeeps
<1>14. CASE pc[t] = "free"
  <2>1. w.table = fat
    BY <1>3, <1>14
  <2>2. Foreign(K, S, T, B) /\ Closed(fat, B, {})
    BY <1>8, <1>12, <1>14
  <2>3. fat \in Tables
    BY <1>1, <1>9 DEF Tables
  <2> QED
    BY <1>6, <1>7, <1>8, <2>1, <2>2, <2>3 DEF PendingKeeps
<1> QED
  BY <1>3, <1>11, <1>13, <1>14
(* A step that writes such a table. *)
LEMMA WrittenSafe ==
  ASSUME NEW t, Threads = {t}, Healthy(t), UNCHANGED <<saved, clean, next_alloc, freed, entry, reg>>,
         NEW w \in Pending(t), w.sb.fat_size = stored.sb.fat_size,
         NEW K, NEW S, NEW T, NEW B, NEW A, OnDisk(K, S, T), InMemory(K, t, S, T, B, A),
         fat' = w.table, sb'.fat_start = sb.fat_start,
         "part" \in DOMAIN stored', stored'.part = write_fat(w.table, w.sb),
         stored'.sb.fat_size = w.sb.fat_size, stored'.sb.fat_start = w.sb.fat_start,
         pc'[t] \in {"attach", "save"}, Holding(AllBlocks(w), "table")
  PROVE  Safe(K, t, S, w.table, B, A)'
<1>1. PICK U : U = w.table
  OBVIOUS
<1>2. /\ Apart(K, t, S, T, B)
      /\ U \in Tables /\ Leads(K, S, U) /\ Closed(U, B, {}) /\ w.sb.fat_start = S[1]
  BY <1>1, PendingSafe DEF PendingKeeps
<1>3. ChainIn(U, w.sb.fat_start) = S /\ HoldsParts(write_fat(U, w.sb), U, S)
  <2>1. PICK s : s = w.sb
    OBVIOUS
  <2> QED
    BY <1>2, <2>1, PartsGoHome
<1>4. \A b \in Spared(K, S) : holds'[b] = holds[b]
  <2>1. TableChain(w) = S /\ S \in Seq(Blocks)
    BY <1>1, <1>3 DEF TableChain, OnDisk, Chains
  <2>2. \A b \in AllBlocks(w) : In(b, S)
    BY <2>1, PartsAreOwn DEF AllBlocks
  <2> QED
    BY <2>2, PartsOverwritten
<1>5. OnDisk(K, S, U)'
  <2>1. HoldsParts(stored'.part, U, S)
    BY <1>1, <1>3
  <2> QED
    BY <1>2, <1>4, <2>1, DiskKept
<1>6. pc'[t] \notin Building /\ Unlinked(t)' = {} /\ pc'[t] \notin {"advance", "place", "idle"}
  BY DEF Building, Unlinked
<1>7. Reserved(K, S)'
  BY DEF InMemory, Reserved
<1>8. Apart(K, t, S, U, B)'
  <2>1. Working(K, t, B)'
    <3>1. pc[t] # "idle"
      BY DEF Pending
    <3> QED
      BY <1>2, <1>6, <3>1 DEF Apart, Working
  <2>2. Settled(t, U, B)'
    BY <1>1, <1>2 DEF Settled
  <2> QED
    BY <1>1, <1>2, <1>6, <2>1, <2>2 DEF Apart, Led
<1>9. InMemory(K, t, S, U, B, A)'
  BY <1>6, <1>7, <1>8 DEF InMemory
<1>10. Safe(K, t, S, U, B, A)'
  BY <1>5, <1>9 DEF Safe
<1> QED
  BY <1>1, <1>10

LEMMA EndChainSafe ==
  ASSUME NEW t, Threads = {t}, Healthy(t), UNCHANGED <<saved, clean>>,
         stored'.sb.fat_size = stored.sb.fat_size,
         NEW K, NEW S, NEW T, NEW B, NEW A, OnDisk(K, S, T), InMemory(K, t, S, T, B, A),
         EndChain(t), Holding(UNION {AllBlocks(w) : w \in Pending(t)}, "table")
  PROVE  \E U : Safe(K, t, S, U, B, A)'
<1>1. PICK r : r = reg[t]
  OBVIOUS
<1>2. pc[t] = "alloc" /\ r.todo = 0 /\ fault = "none"
  BY <1>1 DEF EndChain, At
<1>3. CASE r.last \notin DOMAIN fat
  <2>1. UNCHANGED <<stored, entry>> /\ fault' = "overrun"
    BY <1>1, <1>3 DEF EndChain, Fails
  <2>2. Pending(t) = {}
    BY <1>1, <1>2, <1>3 DEF Pending
  <2>3. \A b \in Spared(K, S) : holds'[b] = holds[b]
    BY <2>2 DEF Holding, Spared
  <2>4. OnDisk(K, S, T)'
    BY <2>1, <2>3, SameDisk
  <2> QED
    BY <2>1, <2>4 DEF Safe
<1>4. CASE r.last \in DOMAIN fat
  <2>1. PICK w : w = [table |-> Ended(r), sb |-> Charged(r), super |-> "before"]
    OBVIOUS
  <2>2. w.table = Ended(r) /\ w.sb = Charged(r)
    BY <2>1
  <2>3. Pending(t) = {w}
    BY <1>1, <1>2, <1>4, <2>1 DEF Pending
  <2>4. /\ UNCHANGED <<next_alloc, freed, entry, reg, fault>>
        /\ fat' = w.table /\ sb' = w.sb /\ pc' = [pc EXCEPT ![t] = "attach"]
        /\ stored' = [part |-> write_fat(w.table, w.sb), sb |-> w.sb]
    BY <1>1, <1>4, <2>2 DEF EndChain, Goto, Fails
  <2>5. /\ stored'.part = write_fat(w.table, w.sb) /\ stored'.sb = w.sb
        /\ "part" \in DOMAIN stored'
    BY <2>4
  <2>6. pc'[t] = "attach"
    BY <2>4, SaneBasics DEF Healthy
  <2>7. sb'.fat_start = sb.fat_start
    BY <2>2, <2>4, SaneBasics DEF Charged, Superblocks, Healthy
  <2>8. Holding(AllBlocks(w), "table")
    <3>1. UNION {AllBlocks(v) : v \in Pending(t)} = AllBlocks(w)
      BY <2>3
    <3> QED
      BY <3>1
  <2>9. Safe(K, t, S, w.table, B, A)'
    BY <2>3, <2>4, <2>5, <2>6, <2>7, <2>8, WrittenSafe
  <2> QED
    BY <2>9
<1> QED
  BY <1>3, <1>4

LEMMA AttachSafe ==
  ASSUME NEW t, Threads = {t}, Healthy(t), UNCHANGED <<saved, clean>>,
         NEW K, NEW S, NEW T, NEW B, NEW A, OnDisk(K, S, T), InMemory(K, t, S, T, B, A),
         Attach(t), Holding(UNION {AllBlocks(w) : w \in Pending(t)}, "table")
  PROVE  \E U : Safe(K, t, S, U, B, A)'
<1>1. PICK r : r = reg[t]
  OBVIOUS
<1>2. /\ pc[t] = "attach" /\ pc[t] \notin Building /\ fault = "none"
  BY <1>1 DEF Attach, At, Building
<1>3. sb.fat_size = stored.sb.fat_size
  BY <1>2, Level
<1>4. ASSUME Pending(t) = {} PROVE \A b \in Spared(K, S) : holds'[b] = holds[b]
  BY <1>4 DEF Holding, Spared
<1>5. CASE r.de.start = FAT_NULL
  <2>1. PICK d, q : d = [r.de EXCEPT !.start = r.start] /\ q = [r EXCEPT !.de = d]
    OBVIOUS
  <2>2. /\ UNCHANGED <<fat, sb, next_alloc, freed, entry, stored, fault>>
        /\ reg' = [reg EXCEPT ![t] = q] /\ pc' = [pc EXCEPT ![t] = "save"]
    BY <1>1, <1>5, <2>1 DEF Attach, Set, Goto
  <2>3. Pending(t) = {}
    BY <1>1, <1>2, <1>5 DEF Pending
  <2>4. OnDisk(K, S, T)'
    BY <1>4, <2>2, <2>3, SameDisk
  <2>5. reg'[t] = q /\ pc'[t] = "save"
    BY <2>2, SaneBasics DEF Healthy
  <2>6. r \in Locals /\ r.de \in Entries
    BY <1>1, SaneBasics DEF Healthy
  <2>7. q.start = r.start /\ q.cur = r.cur /\ q.file = r.file /\ q.de.start = r.start
    <3>1. d.start = r.start
      BY <2>1, <2>6 DEF Entries
    <3>2. q.start = r.start /\ q.cur = r.cur /\ q.file = r.file /\ q.de = d
      BY <2>1, <2>6 DEF Locals
    <3> QED
      BY <3>1, <3>2
  <2>8. Apart(K, t, S, T, B)
    BY <1>3 DEF InMemory
  <2>9. /\ Leads(K, S, fat) /\ sb.fat_start = S[1] /\ Away(K, S, B) /\ Led(K, B)
        /\ Working(K, t, B) /\ Closed(T, B, {}) /\ fat = T
    BY <1>2, <2>8 DEF Apart, Settled
  <2>10. pc'[t] \notin Building /\ pc'[t] \notin {"advance", "place"} /\ Unlinked(t)' = {}
    BY <2>5 DEF Building, Unlinked
  <2>11. Working(K, t, B)' /\ Settled(t, T, B)'
    BY <1>1, <1>2, <2>2, <2>5, <2>7, <2>9, <2>10 DEF Working, Settled
  <2>12. Apart(K, t, S, T, B)'
    BY <2>2, <2>9, <2>10, <2>11 DEF Apart, Led
  <2>13. InMemory(K, t, S, T, B, A)'
    BY <2>2, <2>10, <2>12 DEF InMemory, Reserved
  <2> QED
    BY <2>4, <2>13 DEF Safe
<1>6. CASE r.de.start # FAT_NULL /\ ~EndsWell(r.de.start)
  <2>1. UNCHANGED <<stored, entry>> /\ fault' = "wild"
    BY <1>1, <1>6 DEF Attach, Fails
  <2>2. Pending(t) = {}
    BY <1>1, <1>2, <1>6 DEF Pending
  <2>3. OnDisk(K, S, T)'
    BY <1>4, <2>1, <2>2, SameDisk
  <2> QED
    BY <2>1, <2>3 DEF Safe
<1>7. CASE r.de.start # FAT_NULL /\ EndsWell(r.de.start)
  <2>1. PICK w : w = [table |-> Linked(r), sb |-> sb, super |-> "not"]
    OBVIOUS
  <2>2. w.table = Linked(r) /\ w.sb = sb
    BY <2>1
  <2>3. Pending(t) = {w}
    BY <1>1, <1>2, <1>7, <2>1 DEF Pending
  <2>4. /\ UNCHANGED <<sb, next_alloc, freed, entry, reg, fault>>
        /\ fat' = w.table /\ pc' = [pc EXCEPT ![t] = "save"]
        /\ stored' = [stored EXCEPT !.part = write_fat(w.table, w.sb)]
    BY <1>1, <1>7, <2>2 DEF Attach, Goto, Fails
  <2>5. /\ stored'.part = write_fat(w.table, w.sb) /\ stored'.sb = stored.sb
        /\ "part" \in DOMAIN stored'
    <3>1. "part" \in DOMAIN stored
      BY DEF OnDisk
    <3> QED
      BY <2>4, <3>1
  <2>6. pc'[t] = "save"
    BY <2>4, SaneBasics DEF Healthy
  <2>7. Holding(AllBlocks(w), "table")
    <3>1. UNION {AllBlocks(v) : v \in Pending(t)} = AllBlocks(w)
      BY <2>3
    <3> QED
      BY <3>1
  <2>8. stored'.sb.fat_size = w.sb.fat_size /\ stored'.sb.fat_start = w.sb.fat_start
    <3>1. w.sb.fat_start = S[1]
      BY <1>3, <2>2, <2>3, PendingSafe DEF PendingKeeps
    <3> QED
      BY <1>3, <2>2, <2>5, <3>1 DEF OnDisk
  <2>9. Safe(K, t, S, w.table, B, A)'
    BY <1>3, <2>2, <2>3, <2>4, <2>5, <2>6, <2>7, <2>8, WrittenSafe
  <2> QED
    BY <2>9
<1> QED
  BY <1>5, <1>6, <1>7
-----------------------------------------------------------------------------
(* The steps of free_blocks, and the end of an operation. *)
LEMMA FreeNextSafe ==
  ASSUME NEW t, Threads = {t}, Healthy(t), UNCHANGED <<saved, clean>>,
         NEW K, NEW S, NEW T, NEW B, NEW A, OnDisk(K, S, T), InMemory(K, t, S, T, B, A),
         FreeNext(t), Holding({reg[t].cur} \cup next_alloc'..(next_alloc - 1), "nothing")
  PROVE  Safe(K, t, S, T, B, A)'
<1>1. PICK r, x, q : r = reg[t] /\ x = r.cur /\ q = [r EXCEPT !.cur = fat[x]]
  OBVIOUS
<1>2. pc[t] = "free" /\ x # FAT_NULL /\ fault = "none"
  BY <1>1 DEF FreeNext, At
<1>3. pc[t] \notin Building /\ pc[t] \notin {"advance", "place"} /\ Unlinked(t) = {}
  BY <1>2 DEF Building, Unlinked
<1>4. sb.fat_size = stored.sb.fat_size
  BY <1>3, Level
<1>5. Apart(K, t, S, T, B)
  BY <1>4 DEF InMemory
<1>6. /\ Leads(K, S, fat) /\ sb.fat_start = S[1] /\ Away(K, S, B) /\ Led(K, B)
      /\ Closed(fat, B, {}) /\ Working(K, t, B) /\ Closed(T, B, {})
  BY <1>3, <1>5 DEF Apart, Settled
<1>7. x \in B \/ x = Cut
  BY <1>1, <1>2, <1>6 DEF Working
<1>8. /\ next_alloc \in Nat /\ Cut \notin Blocks /\ r \in Locals
      /\ \A b \in Blocks : b \in Nat
      /\ fat \in [0..(sb.fat_size - 1) -> Blocks \cup {Cut}]
  BY <1>1, SaneBasics DEF Healthy, Types
<1>9. ASSUME NEW b \in Spared(K, S)
      PROVE  b \in Blocks /\ b \in Nat /\ b # x /\ b < next_alloc /\ b \notin freed
  <2>1. b \in Blocks /\ b < next_alloc /\ b \notin freed
    BY DEF InMemory, Reserved, Spared
  <2>2. b # x
    BY <1>6, <1>7, <1>8, <2>1 DEF Away
  <2> QED
    BY <1>8, <2>1, <2>2
<1>10. ASSUME \A b \in Spared(K, S) : ~(b \in next_alloc'..(next_alloc - 1)), UNCHANGED <<stored, entry>>
       PROVE  OnDisk(K, S, T)'
  <2>1. \A b \in Spared(K, S) : holds'[b] = holds[b]
    BY <1>1, <1>9, <1>10 DEF Holding
  <2> QED
    BY <1>10, <2>1, SameDisk
<1>11. CASE fault' # "none"
  <2>1. UNCHANGED <<stored, entry, next_alloc>>
    BY <1>2, <1>11 DEF FreeNext, Fails
  <2>2. \A b \in Spared(K, S) : ~(b \in next_alloc'..(next_alloc - 1))
    BY <1>8, <1>9, <2>1
  <2>3. OnDisk(K, S, T)'
    BY <1>10, <2>1, <2>2
  <2> QED
    BY <1>11, <2>3 DEF Safe
<1>12. CASE fault' = "none"
  <2>1. /\ UNCHANGED <<fat, entry, stored, pc, fault>>
        /\ x \notin freed \cup {Cut}
        /\ sb' = [sb EXCEPT !.free_blocks = sb.free_blocks + 1]
        /\ reg' = [reg EXCEPT ![t] = q]
    BY <1>1, <1>12 DEF FreeNext, Set, Fails
  <2>2. PICK m \in 0..next_alloc : \E n \in {next_alloc - 1, next_alloc} : \E f \in {freed, freed \cup {x}} :
           /\ (x = next_alloc - 1 => n = next_alloc - 1 /\ f = freed)
           /\ (x # next_alloc - 1 => n = next_alloc)
           /\ CleanedTo(n, f, m) /\ next_alloc' = m /\ freed' = f \ (m..(n - 1))
    BY <1>1, <1>12 DEF FreeNext, Fails
  <2>3. PICK n \in {next_alloc - 1, next_alloc}, f \in {freed, freed \cup {x}} :
           /\ (x = next_alloc - 1 => n = next_alloc - 1 /\ f = freed)
           /\ (x # next_alloc - 1 => n = next_alloc)
           /\ CleanedTo(n, f, m) /\ next_alloc' = m /\ freed' = f \ (m..(n - 1))
    BY <2>2
  <2>4. ASSUME NEW b \in Spared(K, S)
        PROVE  b < next_alloc' /\ b \notin freed' /\ ~(b \in next_alloc'..(next_alloc - 1))
    <3>1. b \in Nat /\ b # x /\ b < next_alloc /\ b \notin freed
      BY <1>9
    <3>2. b \notin f /\ b < n /\ n \in Int /\ m \in Nat
      <4>1. CASE x = next_alloc - 1
        BY <1>8, <2>3, <3>1, <4>1
      <4>2. CASE x # next_alloc - 1
        BY <1>8, <2>3, <3>1, <4>2
      <4> QED
        BY <4>1, <4>2
    <3>3. b < m
      <4> SUFFICES ASSUME ~(b < m) PROVE FALSE
        OBVIOUS
      <4>1. b \in m..(n - 1)
        BY <3>1, <3>2
      <4>2. b \in f
        BY <2>3, <4>1 DEF CleanedTo
      <4> QED
        BY <3>2, <4>2
    <3> QED
      BY <2>3, <3>1, <3>2, <3>3
  <2>5. OnDisk(K, S, T)' /\ Reserved(K, S)'
    BY <1>10, <2>1, <2>4 DEF Reserved
  <2>6. x \in B /\ x \in DOMAIN fat
    <3>1. x \in Numbers(sb.fat_size)
      BY <1>1 DEF Healthy, LocalsSane
    <3>2. x \in Given(sb.fat_size)
      BY <1>2, <2>1, <3>1 DEF Numbers
    <3>3. sb.fat_size \in Nat /\ Root = 2
      BY SaneBasics DEF Healthy
    <3> QED
      BY <1>7, <1>8, <2>1, <3>2, <3>3 DEF Given
  <2>7. fat[x] \in B \cup {FAT_NULL, Cut}
    BY <1>6, <2>6 DEF Closed
  <2>8. reg'[t] = q /\ q.cur = fat[x] /\ q.de = r.de /\ q.start = r.start /\ q.file = r.file
    BY <1>1, <1>8, <2>1, SaneBasics DEF Healthy, Locals
  <2>9. sb'.fat_start = sb.fat_start /\ sb'.fat_size = sb.fat_size
    BY <2>1, SaneBasics DEF Healthy, Superblocks
  <2>10. Working(K, t, B)'
    BY <1>1, <1>2, <1>3, <1>6, <2>1, <2>7, <2>8 DEF Working
  <2>11. Settled(t, T, B)' /\ Unlinked(t)' = {}
    BY <1>2, <1>3, <1>6, <2>1 DEF Settled, Unlinked
  <2>12. Apart(K, t, S, T, B)'
    BY <1>6, <2>1, <2>9, <2>10, <2>11 DEF Apart, Led
  <2>13. InMemory(K, t, S, T, B, A)'
    BY <1>3, <2>1, <2>5, <2>12 DEF InMemory
  <2> QED
    BY <2>5, <2>13 DEF Safe
<1> QED
  BY <1>11, <1>12

LEMMA FreeDoneSafe ==
  ASSUME NEW t, Threads = {t}, Healthy(t), UNCHANGED <<saved, clean>>,
         NEW K, NEW S, NEW T, NEW B, NEW A, OnDisk(K, S, T), InMemory(K, t, S, T, B, A),
         FreeDone(t), Holding(UNION {AllBlocks(w) : w \in Pending(t)}, "table")
  PROVE  \E U : Safe(K, t, S, U, B, A)'
<1>1. PICK w : w = [table |-> fat, sb |-> sb, super |-> "after"]
  OBVIOUS
<1>2. w.table = fat /\ w.sb = sb
  BY <1>1
<1>3. /\ pc[t] = "free" /\ pc[t] \notin Building /\ reg[t].cur = FAT_NULL
      /\ UNCHANGED <<fat, sb, next_alloc, freed, entry, reg, fault>>
      /\ stored' = [part |-> write_fat(w.table, w.sb), sb |-> w.sb]
      /\ pc' = [pc EXCEPT ![t] = "save"]
  BY <1>2 DEF FreeDone, At, Goto, Building
<1>4. Pending(t) = {w}
  BY <1>1, <1>3 DEF Pending
<1>5. sb.fat_size = stored.sb.fat_size
  BY <1>3, Level
<1>6. /\ stored'.part = write_fat(w.table, w.sb) /\ stored'.sb = w.sb
      /\ "part" \in DOMAIN stored'
  BY <1>3
<1>7. pc'[t] = "save"
  BY <1>3, SaneBasics DEF Healthy
<1>8. Holding(AllBlocks(w), "table")
  <2>1. UNION {AllBlocks(v) : v \in Pending(t)} = AllBlocks(w)
    BY <1>4
  <2> QED
    BY <2>1
<1>9. Safe(K, t, S, w.table, B, A)'
  BY <1>2, <1>3, <1>4, <1>5, <1>6, <1>7, <1>8, WrittenSafe
<1> QED
  BY <1>9

LEMMA SaveSafe ==
  ASSUME NEW t, Threads = {t}, Healthy(t), UNCHANGED <<saved, clean, holds>>,
         NEW K, NEW S, NEW T, NEW B, NEW A, OnDisk(K, S, T), InMemory(K, t, S, T, B, A),
         Save(t)
  PROVE  Safe(K, t, S, T, B, A)'
<1>1. PICK r, e : /\ r = reg[t]
                  /\ e = IF r.op = "truncate" /\ Exists(r.file)
                         THEN [start |-> r.de.start, blocks |-> r.want] ELSE NoEntry
  OBVIOUS
<1>2. /\ UNCHANGED <<fat, sb, next_alloc, freed, stored, fault>> /\ pc[t] = "save"
      /\ entry' = [entry EXCEPT ![r.file] = e]
      /\ reg' = [reg EXCEPT ![t] = NoLocals] /\ pc' = [pc EXCEPT ![t] = "idle"]
  BY <1>1 DEF Save, At, Set, Goto
<1>3. pc[t] \notin Building /\ Unlinked(t) = {}
  BY <1>2 DEF Building, Unlinked
<1>4. sb.fat_size = stored.sb.fat_size
  BY <1>3, Level
<1>5. Apart(K, t, S, T, B)
  BY <1>4 DEF InMemory
<1>6. /\ Leads(K, S, fat) /\ sb.fat_start = S[1] /\ Away(K, S, B) /\ Led(K, B)
      /\ Closed(fat, B, {}) /\ Working(K, t, B) /\ Closed(T, B, {}) /\ fat = T
  BY <1>2, <1>3, <1>5 DEF Apart, Settled
<1>7. r.file \in Files /\ r.file \notin DOMAIN K /\ entry \in [Files -> Entries]
  BY <1>1, <1>2, <1>6 DEF Healthy, LocalsSane, Working, Types
<1>8. e.start \in B \cup {FAT_NULL}
  BY <1>1, <1>6 DEF Working, NoEntry
<1>9. reg'[t] = NoLocals /\ pc'[t] = "idle"
  BY <1>2, SaneBasics DEF Healthy
<1>10. OnDisk(K, S, T)'
  <2>1. \A f \in DOMAIN K : f \in Files /\ f # r.file
    BY <1>7 DEF OnDisk
  <2>2. \A f \in DOMAIN K : entry'[f] = entry[f]
    BY <1>2, <1>7, <2>1
  <2> QED
    BY <1>2, <2>2, SameDisk
<1>11. Led(K, B)'
  <2> SUFFICES ASSUME NEW f \in Files, f \notin DOMAIN K PROVE entry'[f].start \in B \cup {FAT_NULL}
    BY DEF Led
  <2>1. CASE f = r.file
    BY <1>2, <1>7, <1>8, <2>1
  <2>2. CASE f # r.file
    <3>1. entry'[f] = entry[f]
      BY <1>2, <1>7, <2>2
    <3> QED
      BY <1>6, <3>1 DEF Led
  <2> QED
    BY <2>1, <2>2
<1>12. pc'[t] \notin Building /\ pc'[t] \notin {"advance", "place"} /\ Unlinked(t)' = {}
  BY <1>9 DEF Building, Unlinked
<1>13. Working(K, t, B)'
  BY <1>9, <1>12 DEF Working, NoLocals, NoEntry
<1>14. Settled(t, T, B)'
  BY <1>2, <1>6 DEF Settled
<1>15. Apart(K, t, S, T, B)'
  BY <1>2, <1>6, <1>11, <1>12, <1>13, <1>14 DEF Apart
<1>16. InMemory(K, t, S, T, B, A)'
  BY <1>2, <1>12, <1>15 DEF InMemory, Reserved
<1> QED
  BY <1>10, <1>16 DEF Safe

LEMMA OverwriteSafe ==
  ASSUME NEW t, Threads = {t}, Healthy(t), UNCHANGED <<saved, clean>>,
         NEW K, NEW S, NEW T, NEW B, NEW A, OnDisk(K, S, T), InMemory(K, t, S, T, B, A),
         NEW f \in Files, Overwrite(t, f)
  PROVE  Safe(K, t, S, T, B, A)'
<1>1. /\ pc[t] = "idle" /\ Exists(f)
      /\ UNCHANGED <<fat, sb, next_alloc, freed, pc, reg, entry, stored, fault>>
  BY DEF Overwrite, At, process
<1>2. PICK x \in ToSet(Blocked(f)) : Holding({x}, f)
  BY DEF Overwrite
<1>3. PICK c, p : p = entry[f].start /\ c = ChainIn(fat, p)
  OBVIOUS
<1>4. x \in {c[i] : i \in DOMAIN c}
  BY <1>1, <1>2, <1>3 DEF Blocked, Chain, ToSet
<1>5. Unlinked(t) = {} /\ Apart(K, t, S, T, B)
  BY <1>1, IdleIsLevel DEF InMemory
<1>6. /\ Leads(K, S, fat) /\ Away(K, S, B) /\ Led(K, B) /\ Closed(fat, B, {}) /\ Chains(K, S)
  BY <1>5 DEF Apart, OnDisk
<1>7. sb.fat_size \in Nat /\ fat \in [0..(sb.fat_size - 1) -> Blocks \cup {Cut}] /\ Cut = -1
  BY SaneBasics DEF Healthy, Types
<1>8. \A b \in Spared(K, S) : b = x => holds[b] = f
  <2>1. CASE f \in DOMAIN K
    <3>1. PICK s : s = K[f]
      OBVIOUS
    <3>2. s \in Seq(Blocks) /\ Whole(fat, s) /\ KeptFile(s, entry[f])
      BY <1>6, <2>1, <3>1 DEF OnDisk, Leads, Chains
    <3>3. c = s
      BY <1>3, <1>7, <3>2, ChainIs DEF KeptFile
    <3>4. In(x, s)
      BY <1>4, <3>2, <3>3, LenProperties DEF In
    <3> QED
      BY <2>1, <3>1, <3>4 DEF OnDisk, Labelled
  <2>2. CASE f \notin DOMAIN K
    <3>1. FAT_NULL \notin B /\ B \subseteq Blocks /\ Cut \notin DOMAIN fat
      BY <1>6, <1>7, Elements DEF Away, FAT_NULL
    <3>2. PICK q \in B \cup {FAT_NULL, Cut} : q = p
      BY <1>3, <1>6, <2>2 DEF Led
    <3>3. \A i \in DOMAIN c : c[i] \in B
      BY <1>3, <1>6, <3>1, <3>2, WalkStays
    <3> QED
      BY <1>4, <1>6, <3>3 DEF Away
  <2> QED
    BY <2>1, <2>2
<1>9. OnDisk(K, S, T)'
  <2>1. \A b \in Spared(K, S) : holds'[b] = holds[b]
    BY <1>2, <1>8 DEF Holding, Spared
  <2> QED
    BY <1>1, <2>1, SameDisk
<1>10. Apart(K, t, S, T, B)'
  BY <1>1, <1>5 DEF Apart, Led, Unlinked, Working, Settled
<1>11. InMemory(K, t, S, T, B, A)'
  BY <1>1, <1>10, IdleIsLevel DEF InMemory, Reserved
<1> QED
  BY <1>9, <1>11 DEF Safe
(* A step of the operation under way, or a write to a file. *)
LEMMA StepSafe ==
  ASSUME NEW t, Threads = {t}, Healthy(t), UNCHANGED <<saved, clean>>,
         stored'.sb.fat_size = stored.sb.fat_size,
         NEW K, NEW S, NEW T, NEW B, NEW A, OnDisk(K, S, T), InMemory(K, t, S, T, B, A),
         RStep(t) \/ \E f \in Files : Overwrite(t, f)
  PROVE  \E U, D : Safe(K, t, S, U, D, A)'
<1>1. CASE Take(t) /\ Holding({NewBlock}, reg[t].file)
  <2>1. PICK what : what = reg[t].file
    OBVIOUS
  <2>2. Take(t) /\ Holding({NewBlock}, what)
    BY <1>1, <2>1
  <2>3. \E D : Safe(K, t, S, T, D, A)'
    BY <2>2, TakeSafe
  <2> QED
    BY <2>3
<1>2. CASE Expand(t) /\ Holding({NewBlock}, "table")
  BY <1>2, ExpandSafe
<1>3. CASE (Advance(t) \/ PlaceFirst(t) \/ PlaceNext(t) \/ Save(t)) /\ UNCHANGED holds
  BY <1>3, AdvanceSafe, PlaceFirstSafe, PlaceNextSafe, SaveSafe
<1>4. CASE FreeNext(t) /\ Holding({reg[t].cur} \cup next_alloc'..(next_alloc - 1), "nothing")
  BY <1>4, FreeNextSafe
<1>5. CASE /\ EndChain(t) \/ Attach(t) \/ FreeDone(t)
           /\ Holding(UNION {AllBlocks(w) : w \in Pending(t)}, "table")
  <2>1. \E U : Safe(K, t, S, U, B, A)'
    BY <1>5, EndChainSafe, AttachSafe, FreeDoneSafe
  <2> QED
    BY <2>1
<1>6. CASE \E f \in Files : Overwrite(t, f)
  BY <1>6, OverwriteSafe
<1> QED
  BY <1>1, <1>2, <1>3, <1>4, <1>5, <1>6 DEF RStep

(* The table on disk never shrinks. *)
LEMMA NeverShrinks ==
  ASSUME NEW t, Threads = {t}, Healthy(t),
         RBegin(t) \/ RStep(t) \/ \E f \in Files : Overwrite(t, f)
  PROVE  stored'.sb.fat_size \in Nat /\ stored'.sb.fat_size >= stored.sb.fat_size
<1>0. PICK r : r = reg[t]
  OBVIOUS
<1>1. sb \in Superblocks /\ sb.fat_size \in Nat /\ stored.sb.fat_size \in Nat
  BY SaneBasics DEF Healthy, DiskSane, Superblocks
<1>2. CASE UNCHANGED stored
  BY <1>1, <1>2
<1>3. CASE EndChain(t) /\ ~UNCHANGED stored
  <2>1. stored' = [part |-> write_fat(fat', sb'), sb |-> sb'] /\ sb' = Charged(r) /\ pc[t] = "alloc"
    BY <1>0, <1>3 DEF EndChain, Fails, At
  <2>2. stored'.sb.fat_size = sb.fat_size
    BY <1>1, <2>1 DEF Charged, Superblocks
  <2>3. sb.fat_size >= stored.sb.fat_size
    BY <2>1 DEF Healthy, TableSane, Building
  <2> QED
    BY <1>1, <2>2, <2>3
<1>4. CASE Attach(t) /\ ~UNCHANGED stored
  <2>1. stored' = [stored EXCEPT !.part = write_fat(fat', sb)]
    BY <1>0, <1>4 DEF Attach, Fails
  <2>2. stored'.sb = stored.sb
    BY <2>1
  <2> QED
    BY <1>1, <2>2
<1>5. CASE FreeDone(t)
  <2>1. stored'.sb = sb /\ pc[t] = "free"
    BY <1>5 DEF FreeDone, At
  <2>2. pc[t] \notin Building
    BY <2>1 DEF Building
  <2>3. sb.fat_size = stored.sb.fat_size
    BY <2>2, Level
  <2> QED
    BY <1>1, <2>1, <2>3
<1>6. UNCHANGED stored \/ EndChain(t) \/ Attach(t) \/ FreeDone(t)
  <2>1. RBegin(t) => UNCHANGED stored
    BY DEF RBegin, Mknod, Unlink, Grow, Shrink, Fails
  <2>2. RStep(t) => UNCHANGED stored \/ EndChain(t) \/ Attach(t) \/ FreeDone(t)
    BY DEF RStep, Take, Expand, Advance, PlaceFirst, PlaceNext, Save, FreeNext, Fails
  <2>3. (\E f \in Files : Overwrite(t, f)) => UNCHANGED stored
    BY DEF Overwrite
  <2> QED
    BY <2>1, <2>2, <2>3
<1> QED
  BY <1>2, <1>3, <1>4, <1>5, <1>6

LEMMA RunningSafe ==
  ASSUME NEW t, Threads = {t}, Healthy(t), clean => Running(t), SafeInv(t),
         crashes \in Nat, up, UNCHANGED <<up, saved, crashes, clean>>,
         RBegin(t) \/ RStep(t) \/ \E f \in Files : Overwrite(t, f)
  PROVE  SafeInv(t)'
<1>1. kept'.fat_size = kept.fat_size
  <2>1. kept' = kept \/ \E f \in Files : kept' = Unchanged(f)
    BY DEF RBegin, RStep, Overwrite
  <2>2. \A f : Unchanged(f).fat_size = kept.fat_size
    BY DEF Unchanged
  <2> QED
    BY <2>1, <2>2
<1>2. stored'.sb.fat_size \in Nat /\ stored'.sb.fat_size >= stored.sb.fat_size
  BY NeverShrinks
<1>3. PICK k, a, z : k = kept.fat_size /\ a = stored.sb.fat_size /\ z = stored'.sb.fat_size
  OBVIOUS
<1>4. k \in Nat /\ a \in Nat /\ z \in Nat /\ k <= a /\ a > 0 /\ a <= z
  BY <1>2, <1>3 DEF SafeInv, Healthy, DiskSane, Superblocks
<1>5. ASSUME crashes <= 1, z = k PROVE Survives(t, kept.files)'
  <2>1. a = k /\ z = a
    BY <1>4, <1>5
  <2>2. Survives(t, kept.files)
    BY <1>3, <1>5, <2>1 DEF SafeInv
  <2>3. PICK S, T, B, A : Safe(kept.files, t, S, T, B, A)
    BY <2>2 DEF Survives
  <2>4. OnDisk(kept.files, S, T) /\ InMemory(kept.files, t, S, T, B, A)
    BY <2>3 DEF Safe, Healthy
  <2>5. PICK K : K = kept'.files
    OBVIOUS
  <2>6. \E U, D, E : Safe(K, t, S, U, D, E)'
    <3>1. CASE RBegin(t)
      <4>1. \E D, E : Safe(kept.files, t, S, T, D, E)'
        BY <2>3, <3>1, RBeginSafe
      <4> QED
        BY <2>5, <4>1
    <3>2. CASE RStep(t) \/ \E f \in Files : Overwrite(t, f)
      <4>1. K = kept.files
        BY <2>5, <3>2 DEF RStep, Overwrite
      <4>2. OnDisk(K, S, T) /\ InMemory(K, t, S, T, B, A)
        BY <2>4, <4>1
      <4>3. \E U, D : Safe(K, t, S, U, D, A)'
        BY <1>3, <2>1, <3>2, <4>2, StepSafe
      <4> QED
        BY <4>3
    <3> QED
      BY <3>1, <3>2
  <2>7. Survives(t, K)'
    BY <2>6 DEF Survives
  <2> QED
    BY <2>5, <2>7
<1> QED
  BY <1>1, <1>3, <1>4, <1>5 DEF SafeInv
-----------------------------------------------------------------------------
(* An orderly unmount: all files are kept, or those that were before. *)
LEMMA AllKept ==
  ASSUME NEW t, Threads = {t}, Healthy(t), pc[t] = "idle", Unmount,
         NEW C, Shape(t, C), Held(t, C),
         NEW K, K = [f \in {g \in Files : Exists(g)} |-> Blocked(f)]
  PROVE  \E S, T, B : Spares(K, S, T, B)'
<1> USE UsersAre
<1>1. /\ Types /\ stored = [part |-> write_fat(fat, sb), sb |-> sb]
      /\ UNCHANGED <<entry, stored, holds>>
      /\ saved' = [next_alloc |-> next_alloc, freed |-> freed]
  BY DEF Healthy, Shape, Written, Unmount
<1>2. PICK S, T, s : S = C[Table] /\ T = fat /\ s = sb
  OBVIOUS
<1>3. /\ \A h \in Users : C[h] \in Seq(Blocks) /\ Len(C[h]) \in Nat
      /\ \A h \in Users : \A i \in 1..Len(C[h]) :
           C[h][i] \in Live /\ C[h][i] \in Blocks /\ (h # Fixed => C[h][i] # FAT_NULL)
  BY <1>1, Basics, ElementOfSeq
<1>4. /\ stored.part = write_fat(T, s) /\ stored.sb = s /\ "part" \in DOMAIN stored
  BY <1>1, <1>2
<1>5. ASSUME NEW f \in DOMAIN K
      PROVE  /\ f \in Files /\ Exists(f) /\ K[f] = C[File(f)]
             /\ Whole(T, C[File(f)]) /\ Matches(C[File(f)], entry[f])
  <2>1. f \in Files /\ Exists(f) /\ K[f] = Blocked(f)
    OBVIOUS
  <2>2. Coming(t, f) = entry[f]
    BY DEF Coming
  <2>3. Blocked(f) = C[File(f)]
    BY <1>1, <2>1, <2>2, FileIs DEF Blocked
  <2> QED
    BY <1>2, <2>1, <2>2, <2>3 DEF Shape, FileChains
<1>6. Chains(K, S)
  BY <1>2, <1>3, <1>5 DEF Chains
<1>7. Parted(S, s.fat_size) /\ Whole(T, S) /\ S[1] = s.fat_start /\ S # <<>>
  BY <1>1, <1>2, TableParted DEF Shape, SystemChains, TableShape
<1>8. HoldsParts(stored.part, T, S)
  <2>1. ChainIn(T, s.fat_start) = S
    BY <1>1, <1>2, TableIs DEF Chain
  <2>2. WritesTo(T, s, S)
    BY <1>7, <2>1 DEF WritesTo
  <2> QED
    BY <1>4, <2>2, PartsWritten
<1>9. Leads(K, S, T)
  BY <1>5, <1>7 DEF Leads
<1>10. C[Fixed] = <<0, Root>>
  BY DEF Shape, SystemChains
<1>11. Labelled(K, S)
  <2>1. 1 \in 1..Len(C[Fixed]) /\ 2 \in 1..Len(C[Fixed]) /\ C[Fixed][1] = 0 /\ C[Fixed][2] = Root
    BY <1>10
  <2>2. In(0, C[Fixed]) /\ In(Root, C[Fixed])
    BY <2>1 DEF In
  <2> QED
    BY <1>2, <1>5, <2>2 DEF Held, Labelled
<1>12. ASSUME NEW f \in DOMAIN K PROVE f \in Files /\ KeptFile(K[f], entry[f])
  <2>1. PICK c : c = C[File(f)]
    OBVIOUS
  <2>2. File(f) \in Users /\ File(f) # Fixed /\ f \in Files /\ Exists(f) /\ K[f] = c
    BY <1>5, <2>1
  <2>3. \A i, j \in 1..Len(c) : c[i] = c[j] => i = j
    BY <2>1, <2>2, OwnOnce DEF Shape
  <2>4. Matches(c, entry[f])
    BY <1>5, <2>1
  <2>5. entry[f].blocks # -1
    BY <2>2 DEF Healthy, DiskSane, Exists
  <2> QED
    BY <1>3, <2>1, <2>2, <2>3, <2>4, <2>5 DEF KeptFile, Matches
<1>13. ASSUME NEW b \in Spared(K, S) PROVE b \in Live
  <2>1. b \in {0, Root} => b \in Live
    <3>1. 1 \in 1..Len(C[Fixed]) /\ 2 \in 1..Len(C[Fixed]) /\ C[Fixed][1] = 0 /\ C[Fixed][2] = Root
      BY <1>10
    <3> QED
      BY <1>3, <3>1
  <2>2. In(b, S) => b \in Live
    BY <1>2, <1>3 DEF In
  <2>3. ASSUME NEW f \in DOMAIN K, In(b, K[f]) PROVE b \in Live
    BY <1>3, <1>5, <2>3 DEF In
  <2> QED
    BY <2>1, <2>2, <2>3 DEF Spared
<1>14. T \in [0..(s.fat_size - 1) -> Blocks \cup {Cut}]
  BY <1>1, <1>2 DEF Types
<1>15. saved' # NoState
  <2>1. saved' \in [next_alloc : 0..MaxBlocks, freed : SUBSET Blocks]
    BY <1>1 DEF Types
  <2> QED
    BY <2>1, RestartAssumption
<1>16. OnDisk(K, S, T)'
  <2>1. \A b \in Spared(K, S) : b < saved'.next_alloc /\ b \notin saved'.freed
    BY <1>1, <1>13 DEF Live
  <2>2. Labelled(K, S)'
    BY <1>1, <1>11 DEF Labelled
  <2> QED
    BY <1>1, <1>4, <1>6, <1>7, <1>8, <1>9, <1>12, <1>14, <1>15, <2>1, <2>2 DEF OnDisk
<1>17. Led(K, {})
  <2> SUFFICES ASSUME NEW f \in Files, f \notin DOMAIN K PROVE entry[f].start = FAT_NULL
    BY DEF Led
  <2>1. entry[f] = NoEntry
    BY DEF Exists
  <2> QED
    BY <2>1 DEF NoEntry
<1>18. Foreign(K, S, T, {})'
  BY <1>1, <1>17 DEF Foreign, Away, Closed, Led
<1> QED
  BY <1>16, <1>18 DEF Spares

LEMMA UnmountSafe ==
  ASSUME NEW t, Threads = {t}, WeakInv(t), clean /\ up => Running(t), SafeInv(t), Unmount
  PROVE  SafeInv(t)'
<1>1. /\ up /\ ~up' /\ fault = "none" /\ pc[t] = "idle"
      /\ UNCHANGED <<entry, stored, fault, holds, crashes, clean>>
      /\ saved' = [next_alloc |-> next_alloc, freed |-> freed]
      /\ kept' = IF clean
                 THEN [files |-> [f \in {g \in Files : Exists(g)} |-> Blocked(f)],
                       fat_size |-> sb.fat_size]
                 ELSE kept
  BY DEF Unmount, Down, Quiet
<1>2. Healthy(t)
  BY <1>1 DEF WeakInv, Sane, Healthy
<1>3. sb.fat_size = stored.sb.fat_size /\ pc[t] \notin Building /\ Unlinked(t) = {}
  BY <1>1, <1>2, IdleIsLevel
<1>4. saved' # NoState
  <2>1. saved' \in [next_alloc : 0..MaxBlocks, freed : SUBSET Blocks]
    BY <1>1, <1>2 DEF Healthy, Types
  <2> QED
    BY <2>1, RestartAssumption
<1>5. PICK k, a : k = kept'.fat_size /\ a = stored.sb.fat_size
  OBVIOUS
<1>6. k \in Nat /\ k <= a /\ a > 0 /\ a \in Nat
  <2>1. a \in Nat /\ a > 0
    BY <1>2, <1>5 DEF SafeInv, Healthy, DiskSane, Superblocks
  <2>2. CASE clean
    <3>1. kept'.fat_size = sb.fat_size
      BY <1>1, <2>2
    <3> QED
      BY <1>3, <1>5, <2>1, <3>1
  <2>3. CASE ~clean
    BY <1>1, <1>5, <2>1, <2>3 DEF SafeInv
  <2> QED
    BY <2>2, <2>3
<1>7. ASSUME crashes <= 1, a = k PROVE \E S, T, B : Spares(kept.files, S, T, B)'
  <2>1. PICK K : K = kept'.files
    OBVIOUS
  <2>2. CASE clean
    <3>1. K = [f \in {g \in Files : Exists(g)} |-> Blocked(f)]
      BY <1>1, <2>1, <2>2
    <3>2. PICK C : Shape(t, C) /\ Held(t, C)
      BY <1>1, <2>2 DEF Running
    <3>3. \E S, T, B : Spares(K, S, T, B)'
      BY <1>1, <1>2, <3>1, <3>2, AllKept
    <3> QED
      BY <2>1, <3>3
  <2>3. CASE ~clean
    <3>1. kept' = kept /\ K = kept.files
      BY <1>1, <2>1, <2>3
    <3>2. Survives(t, kept.files)
      BY <1>5, <1>7, <3>1 DEF SafeInv
    <3>3. PICK S, T, B, A : Safe(kept.files, t, S, T, B, A)
      BY <1>1, <3>2 DEF Survives
    <3>4. OnDisk(K, S, T) /\ Reserved(K, S) /\ Apart(K, t, S, T, B)
      BY <1>1, <1>3, <3>1, <3>3 DEF Safe, InMemory
    <3>5. Foreign(K, S, T, B)'
      BY <1>1, <1>3, <3>4 DEF Apart, Settled, Foreign, Led
    <3>6. OnDisk(K, S, T)'
      BY <1>1, <1>4, <3>4 DEF OnDisk, Labelled, Reserved
    <3>7. \E X, Y, Z : Spares(K, X, Y, Z)'
      BY <3>5, <3>6 DEF Spares
    <3> QED
      BY <2>1, <3>7
  <2> QED
    BY <2>2, <2>3
<1> QED
  BY <1>1, <1>4, <1>5, <1>6, <1>7 DEF SafeInv, Survives

(* Mounting reads the table back, and goes on with the allocator's state of *)
(* the last unmount.                                                       *)
LEMMA LoadSafe ==
  ASSUME NEW t, Threads = {t}, WeakInv(t), ~up, up', SafeInv(t), Load,
         UNCHANGED <<pc, reg, saved, crashes, kept>>
  PROVE  SafeInv(t)'
<1>1. /\ pc = [u \in Threads |-> "idle"] /\ reg = [u \in Threads |-> NoLocals]
      /\ next_alloc' = saved.next_alloc /\ freed' = saved.freed /\ sb' = stored.sb /\ fat' = read_fat
      /\ UNCHANGED <<entry, stored, holds, clean>>
  BY DEF WeakInv, Load
<1>2. pc'[t] = "idle" /\ reg'[t] = NoLocals
  BY <1>1
<1>3. pc'[t] \notin Building /\ Unlinked(t)' = {} /\ pc'[t] \notin {"advance", "place"}
  BY <1>2 DEF Building, Unlinked
<1>4. ASSUME crashes <= 1, stored.sb.fat_size = kept.fat_size PROVE Survives(t, kept.files)'
  <2>1. PICK K : K = kept.files
    OBVIOUS
  <2>2. PICK S, T, B : Spares(K, S, T, B)
    BY <1>4, <2>1 DEF SafeInv, Survives
  <2>3. OnDisk(K, S, T) /\ Foreign(K, S, T, B)
    BY <2>2 DEF Spares
  <2>4. read_fat = T
    BY <2>3, PartsBack DEF OnDisk, Leads
  <2>5. OnDisk(K, S, T)'
    BY <1>1, <2>3, SameDisk
  <2>6. Reserved(K, S)'
    BY <1>1, <2>3 DEF OnDisk, Reserved
  <2>7. Working(K, t, B)'
    BY <1>2, <1>3 DEF Working, NoLocals, NoEntry
  <2>8. Settled(t, T, B)'
    BY <1>1, <2>3, <2>4 DEF Settled, Foreign
  <2>9. Apart(K, t, S, T, B)'
    BY <1>1, <1>3, <2>3, <2>4, <2>7, <2>8 DEF Apart, OnDisk, Foreign, Led
  <2>10. InMemory(K, t, S, T, B, {})'
    BY <1>3, <2>6, <2>9 DEF InMemory
  <2>11. \E X, Y, Z, W : Safe(K, t, X, Y, Z, W)'
    BY <2>5, <2>10 DEF Safe
  <2>12. K = kept'.files
    BY <2>1
  <2> QED
    BY <2>11, <2>12 DEF Survives
<1> QED
  BY <1>1, <1>4 DEF SafeInv

(* Making a file system anew: nothing is kept, as nothing was unmounted. *)
LEMMA FormatSafe ==
  ASSUME NEW t, SafeInv(t), Format, UNCHANGED <<saved, crashes, kept>>
  PROVE  SafeInv(t)'
<1>1. saved = NoState /\ clean' /\ stored'.sb.fat_size = FAT_PER_BLOCK
  BY DEF Format
<1> QED
  BY <1>1, FatAssumption DEF SafeInv

(* A crash between two writes: what other files lead to, on disk, stays    *)
(* among blocks of their own.                                              *)
LEMMA DiesSafe ==
  ASSUME NEW t, Threads = {t}, Healthy(t), clean, UNCHANGED <<stored, entry, saved, holds>>,
         NEW K, NEW S, NEW T, NEW B, NEW A, OnDisk(K, S, T), InMemory(K, t, S, T, B, A)
  PROVE  \E D : Spares(K, S, T, D)'
<1>1. OnDisk(K, S, T)'
  BY SameDisk
<1>2. \A D : Foreign(K, S, T, D) => Foreign(K, S, T, D)'
  BY DEF Foreign, Led
<1>3. CASE pc[t] \in Building
  <2>1. Foreign(K, S, T, A)
    BY <1>3 DEF InMemory, Before
  <2> QED
    BY <1>1, <1>2, <2>1 DEF Spares
<1>4. CASE pc[t] \notin Building
  <2>1. Apart(K, t, S, T, B)
    BY <1>4, Level DEF InMemory
  <2>2. Foreign(K, S, T, B)
    BY <1>4, <2>1 DEF Apart, Settled, Foreign
  <2> QED
    BY <1>1, <1>2, <2>2 DEF Spares
<1> QED
  BY <1>3, <1>4

(* A crash within write_fat: some of the table's blocks are those of the   *)
(* new table.                                                              *)
LEMMA TornSafe ==
  ASSUME NEW t, Threads = {t}, Healthy(t), clean, UNCHANGED <<entry, saved>>,
         NEW w \in Pending(t), NEW k, stored' = Torn(w, k), Holding(TableBlocks(w, k), "table"),
         stored'.sb.fat_size = stored.sb.fat_size,
         NEW K, NEW S, NEW T, NEW B, NEW A, OnDisk(K, S, T), InMemory(K, t, S, T, B, A)
  PROVE  \E M, D : Spares(K, S, M, D)'
<1>1. PICK X, new, part : /\ X = TableBlocks(w, k) /\ new = write_fat(w.table, w.sb)
                          /\ part = [b \in DOMAIN stored.part \cup X |->
                                       IF b \in X THEN new[b] ELSE stored.part[b]]
  OBVIOUS
<1>2. stored' = [part |-> part, sb |-> IF w.super = "before" THEN w.sb ELSE stored.sb]
  BY <1>1 DEF Torn
<1>3. /\ stored'.part = part /\ "part" \in DOMAIN stored'
      /\ stored'.sb = IF w.super = "before" THEN w.sb ELSE stored.sb
  BY <1>2
<1>4. w.sb.fat_size = stored.sb.fat_size
  BY <1>3, PendingSane
<1>5. PICK U, s : U = w.table /\ s = w.sb
  OBVIOUS
<1>6. PendingKeeps(K, S, T, B, w)
  BY <1>4, PendingSafe
<1>7. U \in Tables /\ Leads(K, S, U) /\ s.fat_start = S[1]
  BY <1>5, <1>6 DEF PendingKeeps
<1>8. PICK E : Foreign(K, S, T, E) /\ Closed(U, E, {})
  BY <1>5, <1>6 DEF PendingKeeps
<1>9. ChainIn(U, s.fat_start) = S /\ HoldsParts(new, U, S)
  BY <1>1, <1>4, <1>5, <1>7, PartsGoHome
<1>10. \A b \in X : In(b, S)
  <2>1. TableChain(w) = S /\ S \in Seq(Blocks)
    BY <1>5, <1>9 DEF TableChain, OnDisk, Chains
  <2> QED
    BY <1>1, <2>1, PartsAreOwn
<1>11. /\ DOMAIN part = DOMAIN stored.part \cup X
       /\ \A b \in DOMAIN part : part[b] = IF b \in X THEN new[b] ELSE stored.part[b]
  BY <1>1
<1>12. PICK M \in Tables : /\ HoldsParts(part, M, S) /\ Leads(K, S, M)
                           /\ \A b \in DOMAIN T : M[b] = T[b] \/ M[b] = U[b]
  <2>1. U \in Tables /\ Leads(K, S, U)
    BY <1>7
  <2>2. HoldsParts(new, U, S)
    BY <1>9
  <2> QED
    BY <1>10, <1>11, <2>1, <2>2, Mixed, SMTT(60)
<1>13. OnDisk(K, S, M)'
  <2>1. \A b \in Spared(K, S) : holds'[b] = holds[b]
    BY <1>1, <1>10, PartsOverwritten
  <2>2. stored'.sb.fat_start = S[1]
    BY <1>3, <1>5, <1>7 DEF OnDisk
  <2>3. HoldsParts(stored'.part, M, S)
    BY <1>3, <1>12
  <2> QED
    BY <1>3, <1>12, <2>1, <2>2, <2>3, DiskKept
<1>14. Foreign(K, S, M, E)'
  <2>1. DOMAIN M = DOMAIN T /\ DOMAIN U = DOMAIN T
    BY <1>7, <1>12 DEF Tables, OnDisk
  <2>2. Closed(M, E, {})
    BY <1>8, <1>12, <2>1 DEF Foreign, Closed
  <2> QED
    BY <1>8, <2>2 DEF Foreign, Led
<1> QED
  BY <1>13, <1>14 DEF Spares

LEMMA CrashSafe ==
  ASSUME NEW t, Threads = {t}, WeakInv(t), SafeInv(t), Crash
  PROVE  SafeInv(t)'
<1>1. /\ up /\ ~up' /\ fault = "none" /\ crashes' = crashes + 1 /\ ~clean'
      /\ UNCHANGED <<entry, fault, saved, kept>>
  BY DEF Crash, Down
<1>2. Healthy(t) /\ crashes \in Nat
  BY <1>1, RestartAssumption DEF WeakInv, Sane, Healthy, Observed
<1>3. \/ UNCHANGED <<stored, holds>>
      \/ \E w \in Pending(t) : \E k :
           stored' = Torn(w, k) /\ Holding(TableBlocks(w, k), "table")
  BY DEF Crash
<1>4. PICK n, a, z : n = kept.fat_size /\ a = stored.sb.fat_size /\ z = stored'.sb.fat_size
  OBVIOUS
<1>5. n \in Nat /\ a \in Nat /\ n <= a /\ a > 0
  BY <1>2, <1>4 DEF SafeInv, Healthy, DiskSane, Superblocks
<1>6. z \in Nat /\ a <= z
  <2>1. CASE UNCHANGED stored
    BY <1>4, <1>5, <2>1
  <2>2. ASSUME NEW w \in Pending(t), NEW k, stored' = Torn(w, k) PROVE z \in Nat /\ a <= z
    <3>1. w.sb \in Superblocks /\ w.sb.fat_size >= a
      BY <1>2, <1>4, PendingSane
    <3>2. stored'.sb = IF w.super = "before" THEN w.sb ELSE stored.sb
      BY <2>2 DEF Torn
    <3> QED
      BY <1>4, <1>5, <3>1, <3>2 DEF Superblocks
  <2> QED
    BY <1>3, <2>1, <2>2
<1>7. ASSUME crashes' <= 1, z = n PROVE \E S, T, B : Spares(kept.files, S, T, B)'
  <2>1. a = n /\ a = z /\ crashes = 0
    BY <1>1, <1>2, <1>5, <1>6, <1>7
  <2>2. clean
    BY <2>1 DEF SafeInv
  <2>3. PICK K : K = kept.files
    OBVIOUS
  <2>4. PICK S, T, B, A : Safe(K, t, S, T, B, A)
    BY <1>1, <1>4, <2>1, <2>3 DEF SafeInv, Survives
  <2>5. OnDisk(K, S, T) /\ InMemory(K, t, S, T, B, A)
    BY <1>1, <2>4 DEF Safe
  <2>6. \E X, Y, Z : Spares(K, X, Y, Z)'
    <3>1. CASE UNCHANGED <<stored, holds>>
      <4>1. \E D : Spares(K, S, T, D)'
        BY <1>1, <1>2, <2>2, <2>5, <3>1, DiesSafe
      <4> QED
        BY <4>1
    <3>2. ASSUME NEW w \in Pending(t), NEW k, stored' = Torn(w, k), Holding(TableBlocks(w, k), "table")
          PROVE  \E X, Y, Z : Spares(K, X, Y, Z)'
      <4>1. stored'.sb.fat_size = stored.sb.fat_size
        BY <1>4, <2>1
      <4>2. \E M, D : Spares(K, S, M, D)'
        BY <1>1, <1>2, <2>2, <2>5, <3>2, <4>1, TornSafe
      <4> QED
        BY <4>2
    <3> QED
      BY <1>3, <3>1, <3>2
  <2>7. kept.files = K /\ kept'.files = K
    BY <1>1, <2>3
  <2> QED
    BY <2>6, <2>7
<1> QED
  BY <1>1, <1>2, <1>4, <1>5, <1>6, <1>7 DEF SafeInv, Survives

(* The invariant of what survives, beside the other two. *)
LEMMA SafeAlways ==
  ASSUME NEW t, Threads = {t}
  PROVE  RSpec => [](WeakInv(t) /\ SafeInv(t))
<1>1. RInit => SafeInv(t)
  <2> SUFFICES ASSUME RInit PROVE SafeInv(t)
    OBVIOUS
  <2>1. /\ saved = NoState /\ clean /\ kept.fat_size = 0
        /\ stored = [part |-> write_fat(fat, sb), sb |-> sb]
        /\ sb.fat_size = FAT_PER_BLOCK
    BY DEF RInit, Init, Nothing
  <2>2. stored.sb.fat_size = FAT_PER_BLOCK
    BY <2>1
  <2> QED
    BY <2>1, <2>2, FatAssumption DEF SafeInv
<1>2. CleanInv(t) /\ WeakInv(t) /\ SafeInv(t) /\ [RNext]_rvars => SafeInv(t)'
  <2> SUFFICES ASSUME CleanInv(t), WeakInv(t), SafeInv(t), [RNext]_rvars PROVE SafeInv(t)'
    OBVIOUS
  <2>1. CASE Mount
    <3>1. ~up /\ up' /\ UNCHANGED <<pc, reg, saved, crashes, kept>> /\ (Format \/ Load)
      BY <2>1 DEF Mount
    <3> QED
      BY <3>1, FormatSafe, LoadSafe
  <2>2. CASE Unmount
    BY <2>2, UnmountSafe DEF CleanInv
  <2>3. CASE Crash
    BY <2>3, CrashSafe
  <2>4. CASE /\ up /\ UNCHANGED <<up, saved, crashes, clean>>
             /\ RBegin(t) \/ RStep(t) \/ \E f \in Files : Overwrite(t, f)
    <3>1. fault = "none"
      BY <2>4 DEF RBegin, RStep, Overwrite, At, Mknod, Unlink, Grow, Shrink, Take, Expand, Advance,
                  PlaceFirst, PlaceNext, Save, FreeNext, EndChain, Attach, FreeDone
    <3>2. Healthy(t) /\ crashes \in Nat
      BY <2>4, <3>1, RestartAssumption DEF WeakInv, Sane, Healthy, Observed
    <3>3. clean => Running(t)
      BY <2>4 DEF CleanInv
    <3> QED
      BY <2>4, <3>2, <3>3, RunningSafe
  <2>5. CASE UNCHANGED rvars
    <3>1. /\ UNCHANGED <<fat, sb, next_alloc, freed, pc, reg, entry, stored, fault>>
          /\ UNCHANGED <<up, saved, holds, crashes, clean, kept>>
      BY <2>5 DEF rvars, process
    <3>2. \A K, S, T : OnDisk(K, S, T) => OnDisk(K, S, T)'
      BY <3>1 DEF OnDisk, Labelled
    <3>3. \A K, S, T, B : Foreign(K, S, T, B) => Foreign(K, S, T, B)'
      BY <3>1 DEF Foreign, Led
    <3>4. \A K, S, T, B : Apart(K, t, S, T, B) => Apart(K, t, S, T, B)'
      BY <3>1 DEF Apart, Led, Unlinked, Working, Settled
    <3>5. \A K, S, T, A : Before(K, t, S, T, A) => Before(K, t, S, T, A)'
      BY <3>1, <3>3 DEF Before
    <3>6. \A K, S, T, B, A : Safe(K, t, S, T, B, A) => Safe(K, t, S, T, B, A)'
      BY <3>1, <3>2, <3>4, <3>5 DEF Safe, InMemory, Reserved
    <3>7. \A K : Survives(t, K) => Survives(t, K)'
      BY <3>1, <3>2, <3>3, <3>6 DEF Survives, Spares
    <3>8. PICK K : K = kept.files /\ K = kept'.files
      BY <3>1
    <3> QED
      BY <3>1, <3>7, <3>8 DEF SafeInv
  <2>6. \A u \in Threads : u = t
    OBVIOUS
  <2> QED
    BY <2>1, <2>2, <2>3, <2>4, <2>5, <2>6 DEF RNext
<1>3. RSpec => []CleanInv(t) /\ []WeakInv(t)
  BY CleanAlways, WeakAlways
<1> QED
  BY <1>1, <1>2, <1>3, PTL DEF RSpec

-----------------------------------------------------------------------------
(* The theorems. *)

(* Unmounting saves the allocator's state and nothing else, and mounting   *)
(* reads the table back; no file loses a block to another one on the way   *)
(* (fatfs_destroy, fatfs_init, block_dev_init, read_fat).                  *)
THEOREM DataStaysOwned == RSpec => []DataOwned
<1>1. PICK t : Threads = {t}
  BY OneThread
<1>2. CleanInv(t) => DataOwned
  BY <1>1, QuietHeld
<1>3. RSpec => []CleanInv(t)
  BY <1>1, CleanAlways
<1> QED
  BY <1>2, <1>3, PTL

(* Before the first crash, and from each new file system to the next one,  *)
(* no number is freed twice and no part of the table is read from a block  *)
(* of something else.                                                      *)
THEOREM OnlyCrashesBreak == RSpec => []BrokenByCrashesOnly
<1>1. PICK t : Threads = {t}
  BY OneThread
<1>2. CleanInv(t) => BrokenByCrashesOnly
  BY <1>1, QuietHeld
<1>3. RSpec => []CleanInv(t)
  BY <1>1, CleanAlways
<1> QED
  BY <1>2, <1>3, PTL

(* Whatever crashes, and however often: every number in the table, in a    *)
(* directory entry, in the queue of freed blocks and in a local variable   *)
(* has an entry in the table (but for the lone block that Fat finds beyond *)
(* it), although mounting combines tables, entries and allocator states of *)
(* different times (fatfs_init, block_dev_init).                           *)
THEOREM TypesSurvive == RSpec => []RTypeOK
<1>1. PICK t : Threads = {t}
  BY OneThread
<1>2. WeakInv(t) => RTypeOK
  <2> SUFFICES ASSUME WeakInv(t) PROVE RTypeOK
    OBVIOUS
  <2>1. up /\ fault # "garbage" => TypeOK
    <3> SUFFICES ASSUME up, fault # "garbage" PROVE TypeOK
      OBVIOUS
    <3>1. Types /\ fault \in {"none", "overrun", "wild", "twice"}
      BY DEF WeakInv, Sane
    <3> QED
      BY <3>1 DEF TypeOK, Types, Entries, Locals, Steps
  <2>2. saved \in {NoState} \cup [next_alloc : 3..MaxBlocks, freed : SUBSET Blocks]
    BY DEF WeakInv, DiskSane
  <2> QED
    BY <2>1, <2>2 DEF RTypeOK, WeakInv, Observed, Marks
<1>3. RSpec => []WeakInv(t)
  BY <1>1, WeakAlways
<1> QED
  BY <1>2, <1>3, PTL

(* What an orderly unmount wrote survives one crash: every file that was   *)
(* there and was not changed since is read whole by the next mount, its    *)
(* blocks still hold its data and are not given to anything else, in spite *)
(* of the operations on other files that the crash broke, as long as the   *)
(* table on disk has not grown since (fatfs_destroy, write_fat,            *)
(* write_superblock, read_fat).                                            *)
THEOREM SavedFilesSurvive == RSpec => []SavedFilesIntact
<1>1. PICK t : Threads = {t}
  BY OneThread
<1>2. WeakInv(t) /\ SafeInv(t) => SavedFilesIntact
  BY SurvivingIsIntact DEF WeakInv
<1>3. RSpec => [](WeakInv(t) /\ SafeInv(t))
  BY <1>1, SafeAlways
<1> QED
  BY <1>2, <1>3, PTL
=============================================================================
