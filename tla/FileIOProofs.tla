---------------------------- MODULE FileIOProofs ----------------------------
(***************************************************************************)
(* That fatfs_read and fatfs_write, piece by piece, get at the bytes their *)
(* caller means, for every size of a block and of the file.  The argument  *)
(* is a closed form: the k-th piece lies in the k-th block of the range    *)
(* and ends with it or with the range, so that the first k pieces are the  *)
(* bytes from offset to there.                                             *)
(***************************************************************************)
EXTENDS FileIO, TLAPS, WellFoundedInduction, SequenceTheorems

(* Induction without an operator parameter: a set of natural numbers that  *)
(* has 0, and the successor of each of its numbers, has them all.          *)
LEMMA InductiveSet ==
  ASSUME NEW S, 0 \in S, \A i \in Nat : i \in S => i + 1 \in S
  PROVE  Nat \subseteq S
<1> DEFINE T == Nat \ S
<1> SUFFICES ASSUME T # {} PROVE FALSE
  OBVIOUS
<1>1. IsWellFoundedOn(OpToRel(<, Nat), Nat)
  BY NatLessThanWellFounded
<1>2. PICK m \in T : \A x \in T : ~(<<x, m>> \in OpToRel(<, Nat))
  BY <1>1, WFMin
<1>3. m \in Nat /\ m \notin S /\ m - 1 \in Nat /\ m - 1 < m
  OBVIOUS
<1>4. <<m - 1, m>> \in OpToRel(<, Nat)
  BY <1>3, Zenon DEF OpToRel
<1>5. m - 1 \in S
  <2>1. m - 1 \notin T
    BY <1>2, <1>4, Zenon
  <2> QED
    BY <1>3, <2>1
<1>6. (m - 1) + 1 = m
  BY <1>3
<1> QED
  BY <1>3, <1>5, <1>6

-----------------------------------------------------------------------------
Block == [1..BLOCK_SIZE -> Byte]

-----------------------------------------------------------------------------
(* Blocks and places in them. *)
LEMMA Place ==
  ASSUME NEW x \in Nat
  PROVE  /\ x \div BLOCK_SIZE \in Nat
         /\ x % BLOCK_SIZE \in 0..(BLOCK_SIZE - 1)
         /\ x = (x \div BLOCK_SIZE) * BLOCK_SIZE + (x % BLOCK_SIZE)
<1>1. BLOCK_SIZE \in Nat \ {0}
  BY FileAssumption
<1>2. PICK d \in Nat : d = BLOCK_SIZE /\ d > 0
  BY <1>1
<1>3. /\ x \div d \in Nat /\ x % d \in 0..(d - 1)
      /\ x = d * (x \div d) + (x % d)
  BY <1>2
<1>4. PICK q \in Nat : q = x \div d
  BY <1>3
<1>5. q * d = d * q
  BY <1>2
<1> QED
  BY <1>2, <1>3, <1>4, <1>5

LEMMA Times ==
  ASSUME NEW a \in Nat, NEW b \in Nat
  PROVE  /\ a * BLOCK_SIZE \in Nat
         /\ (a + b) * BLOCK_SIZE = a * BLOCK_SIZE + b * BLOCK_SIZE
         /\ (a + 1) * BLOCK_SIZE = a * BLOCK_SIZE + BLOCK_SIZE
         /\ a <= b => a * BLOCK_SIZE <= b * BLOCK_SIZE
         /\ a < b => a * BLOCK_SIZE + BLOCK_SIZE <= b * BLOCK_SIZE
<1>1. PICK d \in Nat : d = BLOCK_SIZE /\ d > 0
  BY FileAssumption
<1>2. /\ a * d \in Nat /\ b * d \in Nat /\ (a + b) * d = a * d + b * d
      /\ (a + 1) * d = a * d + d
  BY <1>1
<1>3. ASSUME a <= b PROVE a * d <= b * d
  <2>1. PICK c \in Nat : b = a + c
    <3>1. b - a \in Nat /\ b = a + (b - a)
      BY <1>3
    <3> QED
      BY <3>1
  <2>2. b * d = a * d + c * d /\ c * d \in Nat
    BY <2>1
  <2> QED
    BY <1>2, <2>2
<1>4. ASSUME a < b PROVE a * d + d <= b * d
  <2>1. PICK c \in Nat : b = a + 1 + c
    <3>1. b - a - 1 \in Nat /\ b = a + 1 + (b - a - 1)
      BY <1>4
    <3> QED
      BY <3>1
  <2>2. b * d = a * d + d + c * d /\ c * d \in Nat
    BY <2>1
  <2> QED
    BY <1>2, <2>2
<1> QED
  BY <1>1, <1>2, <1>3, <1>4

(* A place in a block has one block and one place. *)
LEMMA OnePlace ==
  ASSUME NEW a \in Nat, NEW r \in 0..(BLOCK_SIZE - 1), NEW x, x = a * BLOCK_SIZE + r
  PROVE  x \in Nat /\ x \div BLOCK_SIZE = a /\ x % BLOCK_SIZE = r
<1>1. PICK d \in Nat : d = BLOCK_SIZE /\ d > 0
  BY FileAssumption
<1>2. PICK y \in Nat : y = a * BLOCK_SIZE
  BY Times
<1>3. x \in Nat
  BY <1>1, <1>2
<1>4. PICK q \in Nat, s \in 0..(BLOCK_SIZE - 1) :
        q = x \div BLOCK_SIZE /\ s = x % BLOCK_SIZE /\ x = q * BLOCK_SIZE + s
  BY <1>3, Place
<1>5. PICK z \in Nat : z = q * BLOCK_SIZE
  BY Times
<1>6. /\ q < a => z + d <= y
      /\ a < q => y + d <= z
  BY <1>1, <1>2, <1>5, Times
<1>7. z + s = y + r
  BY <1>2, <1>4, <1>5
<1>8. ~(q < a) /\ ~(a < q)
  BY <1>1, <1>6, <1>7
<1>9. q = a
  BY <1>8
<1>10. s = r
  BY <1>1, <1>2, <1>5, <1>7, <1>9
<1> QED
  BY <1>3, <1>4, <1>9, <1>10

(* The blocks for n bytes are enough. *)
LEMMA BlocksAre ==
  ASSUME NEW n \in Nat
  PROVE  /\ BLOCKS(n) \in Nat /\ n <= BLOCKS(n) * BLOCK_SIZE
         /\ \A m \in Nat : m <= n => BLOCKS(m) <= BLOCKS(n)
<1>1. PICK d \in Nat : d = BLOCK_SIZE /\ d > 0
  BY FileAssumption
<1>2. ASSUME NEW m \in Nat
      PROVE  /\ BLOCKS(m) \in Nat
             /\ m <= BLOCKS(m) * BLOCK_SIZE
             /\ BLOCKS(m) * BLOCK_SIZE < m + BLOCK_SIZE
  <2>1. m + BLOCK_SIZE - 1 \in Nat
    BY <1>1
  <2>2. PICK x \in Nat : x = m + BLOCK_SIZE - 1
    BY <2>1
  <2>3. PICK q \in Nat, r \in 0..(BLOCK_SIZE - 1) : q = x \div BLOCK_SIZE /\ x = q * BLOCK_SIZE + r
    BY Place
  <2>4. PICK y \in Nat : y = q * BLOCK_SIZE
    BY Times
  <2>5. q = BLOCKS(m)
    BY <2>2, <2>3 DEF BLOCKS
  <2>6. m <= y /\ y < m + BLOCK_SIZE
    BY <1>1, <2>2, <2>3, <2>4
  <2> QED
    BY <2>4, <2>5, <2>6
<1>3. ASSUME NEW m \in Nat, m <= n PROVE BLOCKS(m) <= BLOCKS(n)
  <2>1. PICK a \in Nat, b \in Nat : a = BLOCKS(m) /\ b = BLOCKS(n)
    BY <1>2
  <2>2. PICK y \in Nat, z \in Nat : y = a * BLOCK_SIZE /\ z = b * BLOCK_SIZE
    BY Times
  <2>3. y < m + d /\ n <= z
    BY <1>1, <1>2, <2>1, <2>2
  <2>4. b < a => z + d <= y
    BY <1>1, <2>2, Times
  <2>5. ~(b < a)
    BY <1>1, <1>3, <2>3, <2>4
  <2> QED
    BY <2>1, <2>5
<1> QED
  BY <1>2, <1>3

-----------------------------------------------------------------------------
(* The pieces: blocks one after the other, each from where the last one    *)
(* ended.                                                                  *)
End(P, offset, n, k) ==
  IF k = 0 THEN offset
  ELSE IF k < Len(P) THEN ((offset \div BLOCK_SIZE) + k) * BLOCK_SIZE
  ELSE offset + n

Follow(P, offset, n) ==
  LET first == offset \div BLOCK_SIZE
      end(k) == End(P, offset, n, k)
  IN /\ Len(P) \in Nat \ {0} /\ DOMAIN P = 1..Len(P)
     /\ \A k \in 1..Len(P) :
          /\ P[k].block = first + k - 1
          /\ P[k].at = end(k - 1) - (first + k - 1) * BLOCK_SIZE
          /\ P[k].n = end(k) - end(k - 1)
          /\ P[k].at \in Nat /\ P[k].n \in Nat \ {0}
          /\ P[k].at + P[k].n <= BLOCK_SIZE

LEMMA PiecesFollow ==
  ASSUME NEW offset \in Nat, NEW n \in Nat \ {0}
  PROVE  Follow(Pieces(offset, n), offset, n)
<1>1. PICK d \in Nat : d = BLOCK_SIZE /\ d > 0
  BY FileAssumption
<1>2. PICK first \in Nat, r \in 0..(BLOCK_SIZE - 1) :
        /\ first = offset \div BLOCK_SIZE /\ r = offset % BLOCK_SIZE
        /\ offset = first * BLOCK_SIZE + r
  BY Place
<1>3. PICK f \in Nat : f = first * BLOCK_SIZE
  BY Times
<1>4. CASE r + n < BLOCK_SIZE
  <2>1. Pieces(offset, n) = << Piece(first, r, n) >>
    BY <1>2, <1>4 DEF Pieces
  <2>2. PICK P : P = << Piece(first, r, n) >>
    OBVIOUS
  <2>3. Len(P) = 1 /\ DOMAIN P = 1..1 /\ P[1] = Piece(first, r, n)
    BY <2>2
  <2>4. \A k \in 1..Len(P) : k = 1
    BY <2>3
  <2>5. Follow(P, offset, n)
    BY <1>1, <1>2, <1>3, <1>4, <2>3, <2>4 DEF Follow, End, Piece
  <2> QED
    BY <2>1, <2>2, <2>5
<1>5. CASE ~(r + n < BLOCK_SIZE)
  <2>1. PICK h \in Nat : h = Head1(offset) /\ h = IF r = 0 THEN 0 ELSE d - r
    <3>1. Head1(offset) = IF r = 0 THEN 0 ELSE d - r
      BY <1>1, <1>2 DEF Head1
    <3>2. (IF r = 0 THEN 0 ELSE d - r) \in Nat
      BY <1>1
    <3> QED
      BY <3>1, <3>2
  <2>2. h <= n /\ n - h \in Nat
    BY <1>1, <1>5, <2>1
  <2>3. PICK full \in Nat, left \in 0..(BLOCK_SIZE - 1) :
          full = Full(offset, n) /\ n - h = full * BLOCK_SIZE + left
    BY <2>1, <2>2, Place DEF Full
  <2>4. PICK m \in Nat : m = full * BLOCK_SIZE
    BY Times
  <2>5. left = n - h - m
    BY <1>1, <2>2, <2>3, <2>4
  <2>6. PICK c \in 0..1 : c = IF h = 0 THEN 0 ELSE 1
    OBVIOUS
  <2>7. PICK e \in 0..1 : e = IF left > 0 THEN 1 ELSE 0
    OBVIOUS
  <2>8. PICK A : A = IF h = 0 THEN <<>> ELSE << Piece(first, r, h) >>
    OBVIOUS
  <2>9. PICK M : M = [i \in 1..full |-> Piece(first + c + i - 1, 0, BLOCK_SIZE)]
    OBVIOUS
  <2>10. PICK Z : Z = IF left > 0 THEN << Piece(first + c + full, 0, left) >> ELSE <<>>
    OBVIOUS
  <2>11. Pieces(offset, n) = A \o M \o Z
    <3>1. (IF h = 0 THEN first ELSE first + 1) = first + c
      BY <2>6
    <3> QED
      BY <1>2, <1>5, <2>1, <2>3, <2>4, <2>5, <2>8, <2>9, <2>10, <3>1 DEF Pieces
  <2>12. PICK P : P = A \o M \o Z
    OBVIOUS
  <2>13. PICK R : R = [block : Nat, at : Nat, n : Int]
    OBVIOUS
  <2>14. A \in Seq(R) /\ Len(A) = c /\ (c = 1 => A[1] = Piece(first, r, h))
    <3>1. Piece(first, r, h) \in R
      BY <1>1, <2>13 DEF Piece
    <3>2. PICK x \in R : x = Piece(first, r, h)
      BY <3>1
    <3>3. CASE h = 0
      BY <2>6, <2>8, <3>3
    <3>4. CASE h # 0
      BY <2>6, <2>8, <3>2, <3>4
    <3> QED
      BY <3>3, <3>4
  <2>15. M \in Seq(R) /\ Len(M) = full
         /\ \A i \in 1..full : M[i] = Piece(first + c + i - 1, 0, BLOCK_SIZE)
    BY <1>1, <2>9, <2>13 DEF Piece
  <2>16. Z \in Seq(R) /\ Len(Z) = e /\ (e = 1 => Z[1] = Piece(first + c + full, 0, left))
    <3>1. Piece(first + c + full, 0, left) \in R
      BY <1>1, <2>13 DEF Piece
    <3>2. PICK x \in R : x = Piece(first + c + full, 0, left)
      BY <3>1
    <3>3. CASE left > 0
      BY <2>7, <2>10, <3>2, <3>3
    <3>4. CASE ~(left > 0)
      BY <2>7, <2>10, <3>4
    <3> QED
      BY <3>3, <3>4
  <2>17. Len(P) = c + full + e /\ DOMAIN P = 1..Len(P)
    <3> HIDE <2>8, <2>9, <2>10
    <3> QED
      BY <2>12, <2>14, <2>15, <2>16
  <2>18. /\ c = 1 => P[1] = Piece(first, r, h)
         /\ \A k \in (c + 1)..(c + full) : P[k] = Piece(first + k - 1, 0, BLOCK_SIZE)
         /\ e = 1 => P[c + full + 1] = Piece(first + c + full, 0, left)
    <3>1. PICK AM : AM = A \o M
      OBVIOUS
    <3>2. AM \in Seq(R) /\ Len(AM) = c + full
          /\ \A k \in 1..(c + full) : AM[k] = IF k <= c THEN A[k] ELSE M[k - c]
      <4>1. AM \in Seq(R) /\ Len(AM) = Len(A) + Len(M)
            /\ \A k \in 1..(Len(A) + Len(M)) :
                  AM[k] = IF k <= Len(A) THEN A[k] ELSE M[k - Len(A)]
        BY <2>14, <2>15, <3>1, ConcatProperties
      <4> QED
        BY <2>14, <2>15, <4>1
    <3>3. P = AM \o Z
      BY <2>12, <3>1
    <3>4. \A k \in 1..(c + full + e) : P[k] = IF k <= c + full THEN AM[k] ELSE Z[k - (c + full)]
      BY <2>16, <3>2, <3>3
    <3>5. c = 1 => P[1] = Piece(first, r, h)
      BY <2>14, <3>2, <3>4
    <3>6. ASSUME NEW k \in (c + 1)..(c + full)
          PROVE  P[k] = Piece(first + k - 1, 0, BLOCK_SIZE)
      <4>1. P[k] = M[k - c] /\ k - c \in 1..full
        <5>1. k \in 1..(c + full + e) /\ k \in 1..(c + full) /\ k <= c + full /\ ~(k <= c)
          OBVIOUS
        <5>2. P[k] = AM[k]
          BY <3>4, <5>1
        <5>3. AM[k] = M[k - c]
          BY <3>2, <5>1
        <5> QED
          BY <5>2, <5>3
      <4>2. first + c + (k - c) - 1 = first + k - 1
        OBVIOUS
      <4> QED
        BY <2>15, <4>1, <4>2
    <3>7. e = 1 => P[c + full + 1] = Piece(first + c + full, 0, left)
      BY <2>16, <3>4
    <3> QED
      BY <3>5, <3>6, <3>7
  <2>19. Len(P) > 0
    <3>1. SUFFICES ASSUME c = 0, full = 0, e = 0 PROVE FALSE
      BY <2>17
    <3>2. h = 0 /\ left = 0 /\ m = 0
      BY <1>1, <2>4, <2>6, <2>7, <3>1
    <3>3. n = 0
      BY <2>2, <2>5, <3>2
    <3> QED
      BY <3>3
  <2>20. Follow(P, offset, n)
    <3> DEFINE end(k) == IF k = 0 THEN offset
                         ELSE IF k < Len(P) THEN (first + k) * BLOCK_SIZE
                         ELSE offset + n
    <3>1. offset + n = f + r + h + m + left
      <4>1. offset = f + r
        BY <1>2, <1>3
      <4>2. left \in Nat /\ r \in Nat
        BY <1>1
      <4> QED
        BY <2>2, <2>5, <4>1, <4>2
    <3>2. c = 1 => f + r + h = (first + 1) * BLOCK_SIZE
      BY <1>1, <1>2, <1>3, <2>1, <2>6, Times
    <3>3. f + r + h = (first + c) * BLOCK_SIZE
      BY <1>1, <1>2, <1>3, <2>1, <2>6, <3>2
    <3>4. (first + c + full) * BLOCK_SIZE = f + r + h + m
      <4>1. first + c \in Nat
        BY <2>6
      <4> QED
        BY <2>4, <3>3, <4>1, Times
    <3>5. \A k \in (c)..(c + full) : end(k) = (first + k) * BLOCK_SIZE
      <4> TAKE k \in (c)..(c + full)
      <4>1. CASE k = 0
        <5>1. c = 0 /\ h = 0 /\ r = 0
          BY <1>1, <2>1, <2>6, <4>1
        <5>2. first + k = first
          BY <4>1
        <5>3. end(k) = f
          <6>1. end(k) = offset
            BY <4>1
          <6>2. offset = f
            <7>1. offset = f + r
              BY <1>2, <1>3
            <7>2. f + 0 = f
              OBVIOUS
            <7> QED
              BY <5>1, <7>1, <7>2
          <6> QED
            BY <6>1, <6>2
        <5> QED
          BY <1>3, <5>2, <5>3
      <4>2. CASE k # 0 /\ k < Len(P)
        BY <4>2
      <4>3. CASE k # 0 /\ ~(k < Len(P))
        <5>1. k = c + full /\ e = 0
          BY <2>17, <4>3
        <5>2. left = 0
          BY <1>1, <2>7, <5>1
        <5>3. first + k = first + c + full
          BY <5>1
        <5>4. offset + n = f + r + h + m
          BY <1>1, <3>1, <5>2
        <5>5. end(k) = offset + n
          BY <4>3
        <5> QED
          BY <3>4, <5>3, <5>4, <5>5
      <4> QED
        BY <4>1, <4>2, <4>3
    <3>6. end(0) = offset /\ end(Len(P)) = offset + n
      BY <2>17, <2>19
    <3> DEFINE Good(k) == /\ P[k].block = first + k - 1
                          /\ P[k].at = end(k - 1) - (first + k - 1) * BLOCK_SIZE
                          /\ P[k].n = end(k) - end(k - 1)
                          /\ P[k].at \in Nat /\ P[k].n \in Nat \ {0}
                          /\ P[k].at + P[k].n <= BLOCK_SIZE
    <3>7. c = 1 => Good(1)
      <4> SUFFICES ASSUME c = 1 PROVE Good(1)
        OBVIOUS
      <4>1. end(1) = (first + 1) * BLOCK_SIZE
        BY <3>5
      <4>2. end(1) = f + r + h
        BY <3>2, <4>1
      <4>3. P[1].block = first /\ P[1].at = r /\ P[1].n = h
        BY <2>18 DEF Piece
      <4>4. h > 0 /\ r + h <= d
        BY <1>1, <2>1, <2>6
      <4> HIDE DEF end
      <4>5. first + 1 - 1 = first /\ 1 - 1 = 0
        OBVIOUS
      <4> QED
        BY <1>1, <1>2, <1>3, <3>6, <4>2, <4>3, <4>4, <4>5
    <3>8. ASSUME NEW k \in (c + 1)..(c + full) PROVE Good(k)
      <4>1. /\ end(k) = (first + k) * BLOCK_SIZE
            /\ end(k - 1) = (first + (k - 1)) * BLOCK_SIZE
        <5> HIDE DEF end
        <5>1. k \in c..(c + full) /\ k - 1 \in c..(c + full)
          OBVIOUS
        <5> QED
          BY <3>5, <5>1
      <4>2. PICK x \in Nat : x = first + k - 1
        <5>1. first + k - 1 \in Nat
          OBVIOUS
        <5> QED
          BY <5>1
      <4>3. x = first + (k - 1) /\ first + k = x + 1
        BY <4>2
      <4>4. PICK y \in Nat : y = x * BLOCK_SIZE
        BY Times
      <4>5. end(k - 1) = y /\ end(k) = y + d
        BY <1>1, <4>1, <4>3, <4>4, Times
      <4>6. P[k].block = x /\ P[k].at = 0 /\ P[k].n = d
        <5>1. P[k] = Piece(x, 0, d)
          BY <1>1, <2>18, <4>2
        <5> QED
          BY <5>1 DEF Piece
      <4>7. (first + k - 1) * BLOCK_SIZE = y
        BY <4>2, <4>4
      <4> HIDE DEF end
      <4> QED
        BY <1>1, <4>2, <4>5, <4>6, <4>7
    <3>9. e = 1 => Good(c + full + 1)
      <4> SUFFICES ASSUME e = 1 PROVE Good(c + full + 1)
        OBVIOUS
      <4>1. Len(P) = c + full + 1
        BY <2>17
      <4>2. end(c + full + 1) = offset + n
        BY <3>6, <4>1
      <4>3. PICK x \in Nat : x = first + c + full
        OBVIOUS
      <4>4. end(c + full) = x * BLOCK_SIZE
        <5>1. end(c + full) = (first + (c + full)) * BLOCK_SIZE
          <6> HIDE DEF end
          <6>1. c + full \in c..(c + full)
            OBVIOUS
          <6> QED
            BY <3>5, <6>1
        <5>2. first + (c + full) = x
          BY <4>3
        <5> QED
          BY <5>1, <5>2
      <4>5. PICK y \in Nat : y = x * BLOCK_SIZE
        BY Times
      <4>6. y = f + r + h + m
        BY <3>4, <4>3, <4>5
      <4>7. P[c + full + 1].block = x /\ P[c + full + 1].at = 0 /\ P[c + full + 1].n = left
        BY <2>18, <4>3 DEF Piece
      <4>8. c + full + 1 - 1 = c + full /\ first + (c + full + 1) - 1 = x
        BY <4>3
      <4>9. left > 0
        BY <1>1, <2>7
      <4> HIDE DEF end
      <4> QED
        BY <1>1, <3>1, <4>2, <4>4, <4>5, <4>6, <4>7, <4>8, <4>9
    <3>10. \A k \in 1..Len(P) : Good(k)
      <4> HIDE DEF Good
      <4> TAKE k \in 1..Len(P)
      <4>1. CASE k <= c
        <5>1. c = 1 /\ k = 1
          BY <4>1
        <5> QED
          BY <3>7, <5>1
      <4>2. CASE k > c /\ k <= c + full
        <5>1. k \in (c + 1)..(c + full)
          BY <4>2
        <5> QED
          BY <3>8, <5>1
      <4>3. CASE k > c + full
        <5>1. e = 1 /\ k = c + full + 1
          BY <2>17, <4>3
        <5> QED
          BY <3>9, <5>1
      <4> QED
        BY <4>1, <4>2, <4>3
    <3>11. Len(P) \in Nat \ {0}
      BY <2>17, <2>19
    <3> QED
      BY <1>2, <2>17, <3>10, <3>11 DEF Follow, End
  <2> QED
    BY <2>11, <2>12, <2>20
<1> QED
  BY <1>4, <1>5

(* Piece p takes the bytes from u to v, which lie in a block that begins   *)
(* at y, of a range that begins at from.                                   *)
Lies(p, y, from, u, v) ==
  /\ p.block \in Nat /\ y \in Nat /\ y = p.block * BLOCK_SIZE
  /\ from \in Nat /\ u \in Nat /\ v \in Nat
  /\ from <= u /\ y <= u /\ u < v /\ v <= y + BLOCK_SIZE
  /\ p.at = u - y /\ p.n = v - u

AllLie(P, offset, n) ==
  \A k \in 1..Len(P) :
    \E y \in Nat : Lies(P[k], y, offset, End(P, offset, n, k - 1), End(P, offset, n, k))

LEMMA Ends ==
  ASSUME NEW offset \in Nat, NEW n \in Nat \ {0}, NEW P, Follow(P, offset, n)
  PROVE  /\ Len(P) \in Nat \ {0}
         /\ End(P, offset, n, 0) = offset /\ End(P, offset, n, Len(P)) = offset + n
         /\ \A k \in 0..Len(P) :
              /\ End(P, offset, n, k) \in Nat
              /\ offset <= End(P, offset, n, k) /\ End(P, offset, n, k) <= offset + n
         /\ AllLie(P, offset, n)
<1> DEFINE end(k) == End(P, offset, n, k)
<1>1. PICK d \in Nat : d = BLOCK_SIZE /\ d > 0
  BY FileAssumption
<1>2. PICK first \in Nat, r \in 0..(BLOCK_SIZE - 1) :
        first = offset \div BLOCK_SIZE /\ offset = first * BLOCK_SIZE + r
  BY Place
<1>3. PICK L \in Nat : L = Len(P) /\ L > 0
  <2>1. Len(P) \in Nat \ {0}
    BY Zenon DEF Follow
  <2> QED
    BY <2>1
<1>4. end(0) = offset /\ end(L) = offset + n
  BY <1>3 DEF End
<1>5. \A k \in 1..(L - 1) : end(k) = (first + k) * BLOCK_SIZE
  BY <1>2, <1>3 DEF End
<1>6. \A k \in 0..L : end(k) \in Nat
  <2> TAKE k \in 0..L
  <2>1. CASE k \in 1..(L - 1)
    <3>1. first + k \in Nat
      BY <2>1
    <3> QED
      BY <1>5, <2>1, <3>1, Times
  <2>2. CASE k \notin 1..(L - 1)
    <3>1. k = 0 \/ k = L
      BY <1>3, <2>2
    <3> QED
      BY <1>4, <3>1
  <2> QED
    BY <2>1, <2>2
<1>7. ASSUME NEW k \in 1..L
      PROVE  \E y \in Nat :
                /\ P[k].block \in Nat /\ y = P[k].block * BLOCK_SIZE
                /\ y <= end(k - 1)
                /\ end(k - 1) < end(k)
                /\ end(k) <= y + BLOCK_SIZE
                /\ P[k].at = end(k - 1) - y
                /\ P[k].n = end(k) - end(k - 1)
  <2>1. PICK x \in Nat : x = first + k - 1
    <3>1. first + k - 1 \in Nat
      OBVIOUS
    <3> QED
      BY <3>1
  <2>2. PICK y \in Nat : y = x * BLOCK_SIZE
    BY Times
  <2>3. /\ P[k].block = x
        /\ P[k].at = end(k - 1) - y
        /\ P[k].n = end(k) - end(k - 1)
        /\ P[k].at \in Nat /\ P[k].n \in Nat \ {0}
        /\ P[k].at + P[k].n <= BLOCK_SIZE
    BY <1>2, <1>3, <2>1, <2>2 DEF Follow
  <2>4. PICK u \in Nat, v \in Nat : u = end(k - 1) /\ v = end(k)
    <3> HIDE DEF end
    <3>1. k - 1 \in 0..L /\ k \in 0..L
      OBVIOUS
    <3> QED
      BY <1>6, <3>1
  <2> HIDE DEF end
  <2>5. y <= u /\ u < v /\ v <= y + d
    BY <1>1, <2>3, <2>4
  <2> QED
    BY <1>1, <2>2, <2>3, <2>4, <2>5
<1>8. \A k \in 1..L : offset <= end(k)
  <2> TAKE k \in 1..L
  <2>1. CASE k = L
    BY <1>4, <2>1
  <2>2. CASE k # L
    <3>1. k \in 1..(L - 1)
      BY <1>3, <2>2
    <3>2. PICK x \in Nat : x = first + k
      OBVIOUS
    <3>3. PICK y \in Nat, f \in Nat : y = x * BLOCK_SIZE /\ f = first * BLOCK_SIZE
      BY Times
    <3>4. f + d <= y
      BY <1>1, <3>2, <3>3, Times
    <3>5. end(k) = y
      BY <1>5, <3>1, <3>2, <3>3
    <3>6. offset = f + r
      BY <1>2, <3>3
    <3> HIDE DEF end
    <3> QED
      BY <1>1, <3>4, <3>5, <3>6
  <2> QED
    BY <2>1, <2>2
<1>9. \A k \in 0..L : end(k) <= offset + n
  <2> TAKE k \in 0..L
  <2>1. CASE k = L
    BY <1>4, <2>1
  <2>2. CASE k = 0
    BY <1>4, <2>2
  <2>3. CASE k \in 1..(L - 1)
    <3>1. PICK x \in Nat : x = first + k
      OBVIOUS
    <3>2. PICK z \in Nat : z = first + (L - 1)
      <4>1. L - 1 \in Nat
        BY <1>3
      <4>2. first + (L - 1) \in Nat
        BY <4>1
      <4> QED
        BY <4>2
    <3>3. PICK u \in Nat, v \in Nat : u = x * BLOCK_SIZE /\ v = z * BLOCK_SIZE
      BY Times
    <3>4. x <= z
      BY <2>3, <3>1, <3>2
    <3>5. u <= v
      BY <3>3, <3>4, Times
    <3>6. L - 1 \in 1..(L - 1)
      BY <2>3
    <3>7. end(k) = u /\ end(L - 1) = v
      BY <1>5, <2>3, <3>1, <3>2, <3>3, <3>6
    <3> HIDE DEF end
    <3>8. end(L - 1) < end(L)
      BY <1>3, <1>7
    <3> QED
      BY <1>4, <3>5, <3>7, <3>8
  <2>4. k = L \/ k = 0 \/ k \in 1..(L - 1)
    BY <1>3
  <2> QED
    BY <2>1, <2>2, <2>3, <2>4
<1>10. \A k \in 0..L : offset <= end(k)
  <2> HIDE DEF end
  <2> TAKE k \in 0..L
  <2>1. k = 0 \/ k \in 1..L
    OBVIOUS
  <2> QED
    BY <1>4, <1>8, <2>1
<1>11. ASSUME NEW k \in 1..L
       PROVE  \E y \in Nat : Lies(P[k], y, offset, end(k - 1), end(k))
  <2>1. k - 1 \in 0..L /\ k \in 0..L
    BY <1>3
  <2>2. PICK u \in Nat, v \in Nat : u = end(k - 1) /\ v = end(k) /\ offset <= u
    <3> HIDE DEF end
    <3> QED
      BY <1>6, <1>10, <2>1
  <2> HIDE DEF end
  <2>0. PICK p : p = P[k]
    OBVIOUS
  <2>3. PICK y \in Nat :
                /\ p.block \in Nat /\ y = p.block * BLOCK_SIZE
                /\ y <= u /\ u < v /\ v <= y + BLOCK_SIZE
                /\ p.at = u - y /\ p.n = v - u
    BY <1>7, <2>0, <2>2
  <2>4. Lies(p, y, offset, u, v)
    BY <2>2, <2>3 DEF Lies
  <2> QED
    BY <2>0, <2>2, <2>4, Zenon
<1>12. AllLie(P, offset, n)
  BY <1>3, <1>11 DEF AllLie
<1> QED
  BY <1>3, <1>4, <1>6, <1>9, <1>10, <1>12

(* How far the first k pieces take a write. *)
LEMMA DoneIs ==
  ASSUME NEW offset \in Nat, NEW n \in Nat \ {0}, NEW P, Follow(P, offset, n)
  PROVE  \A k \in 0..Len(P) : Done(P)[k] = End(P, offset, n, k) - offset
<1>1. PICK L \in Nat : L = Len(P) /\ L > 0
  BY Ends
<1> DEFINE end(k) == End(P, offset, n, k)
           step(q) == [k \in 0..Len(P) |-> IF k = 0 THEN 0 ELSE q[k - 1] + P[k].n]
           done == CHOOSE q : q = step(q)
           w == [k \in 0..Len(P) |-> end(k) - offset]
<1>2. /\ end(0) = offset
      /\ \A k \in 0..L : end(k) \in Nat
      /\ \A k \in 1..L : P[k].n = end(k) - end(k - 1)
  <2>1. end(0) = offset /\ \A k \in 0..L : end(k) \in Nat
    BY <1>1, Ends
  <2>2. ASSUME NEW k \in 1..L PROVE P[k].n = end(k) - end(k - 1)
    <3>1. k \in 1..Len(P)
      BY <1>1
    <3> HIDE DEF end
    <3>2. AllLie(P, offset, n)
      BY Ends
    <3>3. PICK y : Lies(P[k], y, offset, End(P, offset, n, k - 1), End(P, offset, n, k))
      BY <3>1, <3>2, Zenon DEF AllLie
    <3>4. P[k].n = End(P, offset, n, k) - End(P, offset, n, k - 1)
      BY <3>3, Zenon DEF Lies
    <3> QED
      BY <3>4 DEF end
  <2> QED
    BY <2>1, <2>2
<1> HIDE DEF end
<1>3. \A k \in 1..L : end(k - 1) \in Nat /\ end(k) \in Nat
  BY <1>2
<1>4. w = step(w)
  <2>1. \A k \in 0..L : w[k] = IF k = 0 THEN 0 ELSE w[k - 1] + P[k].n
    <3> TAKE k \in 0..L
    <3>1. CASE k = 0
      BY <1>1, <1>2, <3>1
    <3>2. CASE k # 0
      <4>1. k \in 1..L /\ k - 1 \in 0..L
        BY <3>2
      <4>2. w[k] = end(k) - offset /\ w[k - 1] = end(k - 1) - offset
        BY <1>1, <4>1
      <4>3. P[k].n = end(k) - end(k - 1)
        BY <1>2, <4>1
      <4> HIDE DEF w
      <4> QED
        BY <1>3, <3>2, <4>1, <4>2, <4>3
    <3> QED
      BY <3>1, <3>2
  <2> QED
    BY <1>1, <2>1
<1>5. done = step(done)
  <2> HIDE DEF w, step
  <2> QED
    BY <1>4
<1> HIDE DEF done
<1>6. \A k \in Nat : k <= L => done[k] = end(k) - offset
  <2> DEFINE T == {k \in Nat : k <= L => done[k] = end(k) - offset}
  <2>1. 0 \in T
    BY <1>1, <1>2, <1>5
  <2>2. ASSUME NEW k \in Nat, k \in T PROVE k + 1 \in T
    <3> SUFFICES ASSUME k + 1 <= L PROVE done[k + 1] = end(k + 1) - offset
      OBVIOUS
    <3>1. done[k] = end(k) - offset
      BY <1>1, <2>2
    <3>2. k + 1 \in 0..Len(P) /\ k + 1 # 0 /\ k + 1 - 1 = k /\ k + 1 \in 1..L
      BY <1>1
    <3>3. done[k + 1] = done[k] + P[k + 1].n
      BY <1>5, <3>2
    <3>4. P[k + 1].n = end(k + 1) - end(k) /\ end(k) \in Nat /\ end(k + 1) \in Nat
      BY <1>2, <1>3, <3>2
    <3> QED
      BY <3>1, <3>3, <3>4
  <2>3. Nat \subseteq T
    <3> HIDE DEF T
    <3> QED
      BY <2>1, <2>2, InductiveSet
  <2> QED
    BY <2>3
<1>7. done = Done(P)
  BY DEF Done, done
<1> QED
  BY <1>1, <1>6, <1>7 DEF end

-----------------------------------------------------------------------------
(* The blocks once the bytes behind from, up to to, have been written.     *)
Covered(blocks, data, from, to) ==
  [b \in DOMAIN blocks |->
     [j \in 1..BLOCK_SIZE |->
        IF from < (b - 1) * BLOCK_SIZE + j /\ (b - 1) * BLOCK_SIZE + j <= to
        THEN data[(b - 1) * BLOCK_SIZE + j - from]
        ELSE blocks[b][j]]]

(* One piece. *)
LEMMA PieceWritten ==
  ASSUME NEW m \in Nat, NEW blocks \in [1..m -> Block], NEW data,
         NEW p, NEW y, NEW from, NEW u, NEW v, NEW done,
         Lies(p, y, from, u, v), done = u - from
  PROVE  Written(Covered(blocks, data, from, u), p, data, done)
           = Covered(blocks, data, from, v)
<1>0. /\ p.block \in Nat /\ y \in Nat
      /\ from \in Nat /\ u \in Nat /\ v \in Nat
      /\ from <= u /\ y <= u /\ u < v /\ v <= y + BLOCK_SIZE
      /\ p.at = u - y /\ p.n = v - u
  BY DEF Lies
<1>8. PICK k \in Nat : k = p.block
  BY <1>0
<1>9. y = k * BLOCK_SIZE
  BY <1>8 DEF Lies
<1> USE <1>0
<1>1. PICK d \in Nat : d = BLOCK_SIZE /\ d > 0
  BY FileAssumption
<1>2. PICK C, D : C = Covered(blocks, data, from, u) /\ D = Covered(blocks, data, from, v)
  OBVIOUS
<1>3. PICK W : W = Written(C, p, data, done)
  OBVIOUS
<1>4. DOMAIN C = 1..m /\ DOMAIN D = 1..m
  BY <1>2 DEF Covered
<1>5. /\ W = [b \in 1..m |-> W[b]] /\ D = [b \in 1..m |-> D[b]]
      /\ \A b \in 1..m :
           W[b] = IF b = p.block + 1
                  THEN [j \in 1..BLOCK_SIZE |->
                          IF p.at < j /\ j <= p.at + p.n THEN data[u - from + j - p.at]
                          ELSE C[b][j]]
                  ELSE C[b]
  BY <1>2, <1>3, <1>4 DEF Written, Covered
<1>6. ASSUME NEW b \in 1..m PROVE W[b] = D[b]
  <2>1. PICK x \in Nat : x = b - 1
    <3>1. b - 1 \in Nat
      OBVIOUS
    <3> QED
      BY <3>1
  <2>2. PICK z \in Nat : z = x * BLOCK_SIZE /\ z = (b - 1) * BLOCK_SIZE
    <3>1. x * BLOCK_SIZE \in Nat
      BY Times
    <3> QED
      BY <2>1, <3>1
  <2>3. /\ C[b] = [j \in 1..d |-> IF from < z + j /\ z + j <= u THEN data[z + j - from]
                                  ELSE blocks[b][j]]
        /\ D[b] = [j \in 1..d |-> IF from < z + j /\ z + j <= v THEN data[z + j - from]
                                  ELSE blocks[b][j]]
    BY <1>1, <1>2, <1>4, <2>2 DEF Covered
  <2>4. CASE b = p.block + 1
    <3>1. z = y
      <4>1. x = k
        <5>1. b = k + 1
          BY <1>8, <2>4, Zenon
        <5> HIDE <1>0
        <5> QED
          BY <2>1, <5>1
      <4> QED
        <5>1. z = x * BLOCK_SIZE
          BY <2>2
        <5>2. y = x * BLOCK_SIZE
          BY <1>9, <4>1, Zenon
        <5> QED
          BY <5>1, <5>2
    <3>2. W[b] = [j \in 1..d |-> IF p.at < j /\ j <= p.at + p.n THEN data[u - from + j - p.at]
                                 ELSE C[b][j]]
      BY <1>1, <1>5, <2>4
    <3>3. ASSUME NEW j \in 1..d PROVE W[b][j] = D[b][j]
      <4>1. C[b][j] = IF from < z + j /\ z + j <= u THEN data[z + j - from] ELSE blocks[b][j]
        BY <2>3
      <4>2. D[b][j] = IF from < z + j /\ z + j <= v THEN data[z + j - from] ELSE blocks[b][j]
        BY <2>3
      <4>3. W[b][j] = IF p.at < j /\ j <= p.at + p.n THEN data[u - from + j - p.at] ELSE C[b][j]
        BY <3>2
      <4>0. j \in Int /\ p.at = u - z /\ p.at + p.n = v - z
        BY <3>1
      <4>4. u - from + j - p.at = z + j - from
        BY <4>0
      <4>5. (p.at < j /\ j <= p.at + p.n) <=> (u < z + j /\ z + j <= v)
        BY <4>0
      <4> QED
        <5>1. CASE u < z + j /\ z + j <= v
          <6>1. from < z + j
            BY <5>1
          <6> QED
            BY <4>2, <4>3, <4>4, <4>5, <5>1, <6>1
        <5>2. CASE ~(u < z + j /\ z + j <= v)
          <6>1. (from < z + j /\ z + j <= u) <=> (from < z + j /\ z + j <= v)
            BY <5>2
          <6> QED
            BY <4>1, <4>2, <4>3, <4>5, <5>2, <6>1
        <5> QED
          BY <5>1, <5>2
    <3> QED
      BY <2>3, <3>2, <3>3
  <2>5. CASE b # p.block + 1
    <3>2. x < k \/ k < x
      BY <1>8, <2>1, <2>5
    <3>3. x < k => z + d <= y
      <4>1. x < k => x * BLOCK_SIZE + BLOCK_SIZE <= k * BLOCK_SIZE
        BY Times
      <4> QED
        BY <1>1, <1>9, <2>2, <4>1
    <3>4. k < x => y + d <= z
      <4>1. k < x => k * BLOCK_SIZE + BLOCK_SIZE <= x * BLOCK_SIZE
        BY Times
      <4> QED
        BY <1>1, <1>9, <2>2, <4>1
    <3>5. \A j \in 1..d : (from < z + j /\ z + j <= u) <=> (from < z + j /\ z + j <= v)
      <4>1. z + d <= y \/ y + d <= z
        BY <3>2, <3>3, <3>4
      <4>2. v <= y + d
        BY <1>1
      <4>3. CASE z + d <= y
        <5>1. \A j \in 1..d : z + j <= u
          BY <4>3
        <5>2. \A j \in 1..d : z + j <= v
          BY <5>1
        <5> QED
          BY <5>1, <5>2
      <4>4. CASE y + d <= z
        <5>1. \A j \in 1..d : ~(z + j <= v) /\ ~(z + j <= u)
          BY <4>2, <4>4
        <5> QED
          BY <5>1
      <4> QED
        BY <4>1, <4>3, <4>4
    <3>6. C[b] = D[b]
      BY <2>3, <3>5
    <3> QED
      BY <1>5, <2>5, <3>6
  <2> QED
    BY <2>4, <2>5
<1>7. W = D
  <2> QED
    BY <1>5, <1>6
<1> QED
  BY <1>2, <1>3, <1>7

(* All pieces. *)
LEMMA AllWrittenIs ==
  ASSUME NEW m \in Nat, NEW blocks \in [1..m -> Block], NEW data,
         NEW offset \in Nat, NEW n \in Nat \ {0}, NEW P, Follow(P, offset, n)
  PROVE  AllWritten(blocks, P, data) = Covered(blocks, data, offset, offset + n)
<1>1. PICK L \in Nat : L = Len(P) /\ L > 0
  BY Ends
<1> DEFINE end(k) == End(P, offset, n, k)
           step(q) == [k \in 0..Len(P) |->
                         IF k = 0 THEN blocks
                         ELSE Written(q[k - 1], P[k], data, Done(P)[k - 1])]
           after == CHOOSE q : q = step(q)
           w == [k \in 0..Len(P) |-> Covered(blocks, data, offset, end(k))]
<1>2. end(0) = offset /\ end(L) = offset + n
  BY <1>1, Ends
<1>3. Covered(blocks, data, offset, offset) = blocks
  <2>1. PICK C : C = Covered(blocks, data, offset, offset)
    OBVIOUS
  <2>2. ASSUME NEW b \in 1..m PROVE C[b] = blocks[b]
    <3>1. blocks[b] \in Block /\ DOMAIN blocks = 1..m
      OBVIOUS
    <3>2. \A z : ~(offset < z /\ z <= offset) \/ z \notin Int
      OBVIOUS
    <3>3. PICK d \in Nat : d = BLOCK_SIZE
      BY FileAssumption
    <3>4. PICK z \in Nat : z = (b - 1) * BLOCK_SIZE
      <4>1. b - 1 \in Nat
        OBVIOUS
      <4> QED
        BY <4>1, Times
    <3>5. C[b] = [j \in 1..d |-> IF offset < z + j /\ z + j <= offset THEN data[z + j - offset]
                                 ELSE blocks[b][j]]
      BY <2>1, <3>1, <3>3, <3>4 DEF Covered
    <3>6. \A j \in 1..d : ~(offset < z + j /\ z + j <= offset)
      OBVIOUS
    <3>7. C[b] = [j \in 1..d |-> blocks[b][j]]
      BY <3>5, <3>6
    <3> QED
      BY <3>1, <3>3, <3>7 DEF Block
  <2>3. C = [b \in 1..m |-> C[b]] /\ blocks = [b \in 1..m |-> blocks[b]]
    BY <2>1 DEF Covered
  <2> QED
    BY <2>1, <2>2, <2>3
<1>4. ASSUME NEW k \in 1..L
      PROVE  /\ k - 1 \in 0..L
             /\ Written(Covered(blocks, data, offset, end(k - 1)), P[k], data, Done(P)[k - 1])
                  = Covered(blocks, data, offset, end(k))
  <2>1. k - 1 \in 0..L /\ k - 1 \in 0..Len(P) /\ k \in 0..Len(P) /\ k \in 1..Len(P)
    BY <1>1
  <2>0. PICK p : p = P[k]
    OBVIOUS
  <2>2. PICK y \in Nat : Lies(p, y, offset, end(k - 1), end(k))
    BY <2>0, <2>1, Ends DEF AllLie
  <2>3. PICK u \in Nat, v \in Nat : u = end(k - 1) /\ v = end(k) /\ offset <= u
    <3>1. end(k - 1) \in Nat /\ offset <= end(k - 1) /\ end(k) \in Nat
      BY <2>1, Ends
    <3> HIDE DEF end
    <3> QED
      BY <3>1
  <2>4. Done(P)[k - 1] = u - offset
    BY <2>1, <2>3, DoneIs
  <2> HIDE DEF end
  <2>6. PICK done : done = u - offset
    OBVIOUS
  <2>7. Written(Covered(blocks, data, offset, u), p, data, done)
           = Covered(blocks, data, offset, v)
    <3>1. Lies(p, y, offset, u, v)
      BY <2>2, <2>3, Zenon
    <3> QED
      BY <2>6, <3>1, PieceWritten
  <2> QED
    BY <2>0, <2>1, <2>3, <2>4, <2>6, <2>7
<1> HIDE DEF end
<1>5. w = step(w)
  <2>1. \A k \in 0..L : w[k] = IF k = 0 THEN blocks
                               ELSE Written(w[k - 1], P[k], data, Done(P)[k - 1])
    <3> TAKE k \in 0..L
    <3>1. CASE k = 0
      BY <1>1, <1>2, <1>3, <3>1
    <3>2. CASE k # 0
      <4>1. k \in 1..L
        BY <3>2
      <4>2. w[k] = Covered(blocks, data, offset, end(k))
            /\ w[k - 1] = Covered(blocks, data, offset, end(k - 1))
        BY <1>1, <1>4, <4>1
      <4> HIDE DEF w
      <4> QED
        BY <1>4, <3>2, <4>1, <4>2
    <3> QED
      BY <3>1, <3>2
  <2> QED
    BY <1>1, <2>1
<1>6. after = step(after)
  <2> HIDE DEF w, step
  <2> QED
    BY <1>5
<1> HIDE DEF after
<1>7. \A k \in Nat : k <= L => after[k] = Covered(blocks, data, offset, end(k))
  <2> DEFINE T == {k \in Nat : k <= L => after[k] = Covered(blocks, data, offset, end(k))}
  <2>1. 0 \in T
    BY <1>1, <1>2, <1>3, <1>6
  <2>2. ASSUME NEW k \in Nat, k \in T PROVE k + 1 \in T
    <3> SUFFICES ASSUME k + 1 <= L
                 PROVE  after[k + 1] = Covered(blocks, data, offset, end(k + 1))
      OBVIOUS
    <3>1. after[k] = Covered(blocks, data, offset, end(k))
      BY <1>1, <2>2
    <3>2. k + 1 \in 0..Len(P) /\ k + 1 # 0 /\ k + 1 - 1 = k /\ k + 1 \in 1..L
      BY <1>1
    <3>3. after[k + 1] = Written(after[k], P[k + 1], data, Done(P)[k])
      BY <1>6, <3>2
    <3>4. Written(Covered(blocks, data, offset, end(k)), P[k + 1], data, Done(P)[k])
            = Covered(blocks, data, offset, end(k + 1))
      BY <1>4, <3>2
    <3> QED
      BY <3>1, <3>3, <3>4
  <2>3. Nat \subseteq T
    <3> HIDE DEF T
    <3> QED
      BY <2>1, <2>2, InductiveSet
  <2> QED
    BY <2>3
<1>8. after[L] = AllWritten(blocks, P, data)
  BY <1>1 DEF AllWritten, after
<1> QED
  BY <1>1, <1>2, <1>7, <1>8

-----------------------------------------------------------------------------
(* The i-th byte in the blocks, and the bytes behind from, up to to.       *)
At(blocks, i) == blocks[((i - 1) \div BLOCK_SIZE) + 1][((i - 1) % BLOCK_SIZE) + 1]
Between(blocks, from, to) == [i \in 1..(to - from) |-> At(blocks, from + i)]

(* m blocks hold n bytes. *)
Room(m, n) == n <= m * BLOCK_SIZE

LEMMA InBlocks ==
  ASSUME NEW m \in Nat, NEW g \in Nat
  PROVE  /\ g < m * BLOCK_SIZE <=> (g \div BLOCK_SIZE) + 1 <= m
         /\ (g \div BLOCK_SIZE) + 1 \in Nat \ {0}
         /\ (g % BLOCK_SIZE) + 1 \in 1..BLOCK_SIZE
<1>1. PICK d \in Nat : d = BLOCK_SIZE /\ d > 0
  BY FileAssumption
<1>2. PICK q \in Nat, r \in 0..(BLOCK_SIZE - 1) :
        q = g \div BLOCK_SIZE /\ r = g % BLOCK_SIZE /\ g = q * BLOCK_SIZE + r
  BY Place
<1>3. PICK y \in Nat, z \in Nat : y = m * BLOCK_SIZE /\ z = q * BLOCK_SIZE
  BY Times
<1>4. q < m => z + d <= y
  <2>1. q < m => q * BLOCK_SIZE + BLOCK_SIZE <= m * BLOCK_SIZE
    BY Times
  <2> QED
    BY <1>1, <1>3, <2>1
<1>5. m <= q => y <= z
  <2>1. m <= q => m * BLOCK_SIZE <= q * BLOCK_SIZE
    BY Times
  <2> QED
    BY <1>3, <2>1
<1>6. g = z + r
  BY <1>2, <1>3
<1>7. g < y <=> q + 1 <= m
  BY <1>1, <1>4, <1>5, <1>6
<1>8. r + 1 \in 1..BLOCK_SIZE
  BY <1>1
<1> QED
  BY <1>2, <1>3, <1>7, <1>8

LEMMA AtIs ==
  ASSUME NEW m \in Nat, NEW blocks \in [1..m -> Block], NEW i \in Nat \ {0},
         Room(m, i)
  PROVE  At(blocks, i) \in Byte
<1>1. PICK g \in Nat : g = i - 1
  <2>1. i - 1 \in Nat
    OBVIOUS
  <2> QED
    BY <2>1
<1>2. PICK y \in Nat : y = m * BLOCK_SIZE
  BY Times
<1>3. g < m * BLOCK_SIZE
  <2>1. i <= y
    BY <1>2 DEF Room
  <2> QED
    BY <1>1, <1>2, <2>1
<1>4. PICK b \in 1..m, j \in 1..BLOCK_SIZE :
        b = (g \div BLOCK_SIZE) + 1 /\ j = (g % BLOCK_SIZE) + 1
  <2>1. (g \div BLOCK_SIZE) + 1 <= m /\ (g \div BLOCK_SIZE) + 1 \in Nat \ {0}
    BY <1>3, InBlocks
  <2>2. (g % BLOCK_SIZE) + 1 \in 1..BLOCK_SIZE
    BY InBlocks
  <2>3. (g \div BLOCK_SIZE) + 1 \in 1..m
    BY <2>1
  <2> QED
    BY <2>2, <2>3
<1>5. blocks[b][j] \in Byte
  BY DEF Block
<1> QED
  BY <1>1, <1>4, <1>5 DEF At

LEMMA BetweenIs ==
  ASSUME NEW m \in Nat, NEW blocks \in [1..m -> Block],
         NEW from \in Nat, NEW to \in Nat, from <= to, Room(m, to)
  PROVE  /\ Between(blocks, from, to) \in Seq(Byte)
         /\ Len(Between(blocks, from, to)) = to - from
<1>1. to - from \in Nat
  OBVIOUS
<1>2. PICK y \in Nat : y = m * BLOCK_SIZE
  BY Times
<1>3. ASSUME NEW i \in 1..(to - from) PROVE At(blocks, from + i) \in Byte
  <2>1. from + i \in Nat \ {0} /\ from + i <= to
    OBVIOUS
  <2>2. to <= y
    BY <1>2 DEF Room
  <2>3. from + i <= y
    BY <2>1, <2>2
  <2>4. Room(m, from + i)
    BY <1>2, <2>3 DEF Room
  <2> QED
    BY <2>1, <2>4, AtIs
<1>4. Between(blocks, from, to) \in [1..(to - from) -> Byte]
  BY <1>3 DEF Between
<1>5. PICK l, S : l \in Nat /\ l = to - from /\ S = Between(blocks, from, to)
  BY <1>1
<1>6. S \in Seq(Byte) /\ Len(S) = l
  BY <1>4, <1>5
<1> QED
  BY <1>5, <1>6

(* A piece is copied behind what is in buf. *)
Copied(buf, blocks, p) == buf \o SubSeq(blocks[p.block + 1], p.at + 1, p.at + p.n)

LEMMA PieceRead ==
  ASSUME NEW m \in Nat, NEW blocks \in [1..m -> Block],
         NEW p, NEW y, NEW from, NEW u, NEW v,
         Lies(p, y, from, u, v), Room(m, v)
  PROVE  Copied(Between(blocks, from, u), blocks, p) = Between(blocks, from, v)
<1>1. PICK d \in Nat : d = BLOCK_SIZE /\ d > 0
  BY FileAssumption
<1>2. /\ p.block \in Nat /\ y \in Nat
      /\ from \in Nat /\ u \in Nat /\ v \in Nat
      /\ from <= u /\ y <= u /\ u < v /\ v <= y + BLOCK_SIZE
      /\ p.at = u - y /\ p.n = v - u
  BY DEF Lies
<1>3. PICK k \in Nat : k = p.block
  BY <1>2
<1>4. y = k * BLOCK_SIZE
  BY <1>3 DEF Lies
<1>5. PICK z \in Nat : z = m * BLOCK_SIZE
  BY Times
<1>6. v <= z
  BY <1>5 DEF Room
<1>7. k + 1 \in 1..m
  <2>1. y < z
    BY <1>2, <1>6
  <2>2. m <= k => m * BLOCK_SIZE <= k * BLOCK_SIZE
    BY Times
  <2>3. m <= k => z <= y
    BY <1>4, <1>5, <2>2
  <2> QED
    BY <1>2, <2>1, <2>3
<1>8. PICK blk \in Block : blk = blocks[k + 1]
  BY <1>7
<1>9. \A g \in Nat : y <= g /\ g < y + d => At(blocks, g + 1) = blk[g - y + 1]
  <2> TAKE g \in Nat
  <2> HAVE y <= g /\ g < y + d
  <2>1. PICK r \in 0..(BLOCK_SIZE - 1) : r = g - y
    BY <1>1, <1>2
  <2>2. g = k * BLOCK_SIZE + r
    BY <1>2, <1>4, <2>1
  <2>3. g \div BLOCK_SIZE = k /\ g % BLOCK_SIZE = r
    BY <2>2, OnePlace
  <2>4. g + 1 - 1 = g
    OBVIOUS
  <2> QED
    BY <1>8, <2>1, <2>3, <2>4 DEF At
<1>10. blk \in Seq(Byte) /\ Len(blk) = d
  BY <1>1 DEF Block
<1>11. PICK a \in Nat, e \in Nat : a = p.at + 1 /\ e = p.at + p.n /\ a = u - y + 1 /\ e = v - y
  <2>1. p.at + 1 = u - y + 1 /\ p.at + p.n = v - y /\ u - y + 1 \in Nat /\ v - y \in Nat
    BY <1>2
  <2> QED
    BY <2>1
<1>12. /\ SubSeq(blk, a, e) \in Seq(Byte)
       /\ Len(SubSeq(blk, a, e)) = v - u
       /\ \A i \in 1..(v - u) : SubSeq(blk, a, e)[i] = blk[u - y + i]
  <2>1. a \in 1..(Len(blk) + 1) /\ e \in (a - 1)..Len(blk)
    BY <1>1, <1>2, <1>10, <1>11
  <2>2. /\ SubSeq(blk, a, e) \in Seq(Byte)
        /\ Len(SubSeq(blk, a, e)) = e - a + 1
        /\ \A i \in 1..(e - a + 1) : SubSeq(blk, a, e)[i] = blk[a + i - 1]
    BY <1>10, <2>1, SubSeqProperties
  <2>3. e - a + 1 = v - u
    BY <1>2, <1>11
  <2>4. \A i \in 1..(v - u) : a + i - 1 = u - y + i
    BY <1>2, <1>11
  <2> QED
    BY <2>2, <2>3, <2>4
<1>13. PICK F, G, H : F = Between(blocks, from, u) /\ G = Between(blocks, from, v)
                      /\ H = SubSeq(blk, a, e)
  OBVIOUS
<1>14. /\ F \in Seq(Byte) /\ Len(F) = u - from
       /\ G \in Seq(Byte) /\ Len(G) = v - from
  <2>1. Room(m, u) /\ from <= v
    <3>1. u <= z /\ from <= v
      BY <1>2, <1>6
    <3> QED
      BY <1>5, <3>1 DEF Room
  <2> QED
    <3>1. from \in Nat /\ u \in Nat /\ v \in Nat /\ from <= u
      BY <1>2
    <3>2. Between(blocks, from, u) \in Seq(Byte) /\ Len(Between(blocks, from, u)) = u - from
      BY <2>1, <3>1, BetweenIs
    <3>3. Between(blocks, from, v) \in Seq(Byte) /\ Len(Between(blocks, from, v)) = v - from
      BY <2>1, <3>1, BetweenIs
    <3>4. F \in Seq(Byte) /\ Len(F) = u - from
      BY <1>13, <3>2, Zenon
    <3>5. G \in Seq(Byte) /\ Len(G) = v - from
      BY <1>13, <3>3, Zenon
    <3> QED
      BY <3>4, <3>5
<1>15. F \o H \in Seq(Byte) /\ Len(F \o H) = v - from
       /\ \A i \in 1..(v - from) : (F \o H)[i] = IF i <= u - from THEN F[i] ELSE H[i - (u - from)]
  <2>1. H \in Seq(Byte) /\ Len(H) = v - u
    BY <1>12, <1>13
  <2>2. F \o H \in Seq(Byte) /\ Len(F \o H) = Len(F) + Len(H)
        /\ \A i \in 1..(Len(F) + Len(H)) : (F \o H)[i] = IF i <= Len(F) THEN F[i] ELSE H[i - Len(F)]
    BY <1>14, <2>1, ConcatProperties
  <2>3. Len(F) + Len(H) = v - from
    BY <1>2, <1>14, <2>1
  <2> QED
    BY <1>14, <2>2, <2>3
<1>16. ASSUME NEW i \in 1..(v - from) PROVE (F \o H)[i] = G[i]
  <2>1. G[i] = At(blocks, from + i)
    BY <1>13 DEF Between
  <2>2. CASE i <= u - from
    <3>1. i \in 1..(u - from)
      BY <1>2, <2>2
    <3>2. F[i] = At(blocks, from + i)
      BY <1>13, <3>1 DEF Between
    <3> QED
      BY <1>15, <2>1, <2>2, <3>2
  <2>3. CASE ~(i <= u - from)
    <3>1. PICK x \in 1..(v - u) : x = i - (u - from)
      BY <1>2, <2>3
    <3>2. (F \o H)[i] = H[x]
      BY <1>15, <2>3, <3>1
    <3>3. H[x] = blk[u - y + x]
      BY <1>12, <1>13
    <3>4. PICK g \in Nat : g = u + x - 1
      <4>1. u + x - 1 \in Nat
        BY <1>2
      <4> QED
        BY <4>1
    <3>5. y <= g /\ g < y + d /\ g - y + 1 = u - y + x /\ g + 1 = from + i
      BY <1>1, <1>2, <3>1, <3>4
    <3>6. At(blocks, g + 1) = blk[g - y + 1]
      BY <1>9, <3>5
    <3> QED
      BY <2>1, <3>2, <3>3, <3>5, <3>6
  <2> QED
    BY <2>2, <2>3
<1>17. F \o H = G
  BY <1>14, <1>15, <1>16, SeqEqual
<1> QED
  BY <1>3, <1>8, <1>11, <1>13, <1>17 DEF Copied

LEMMA AllReadIs ==
  ASSUME NEW m \in Nat, NEW blocks \in [1..m -> Block],
         NEW offset \in Nat, NEW n \in Nat \ {0}, NEW P, Follow(P, offset, n),
         NEW to, to = offset + n, Room(m, to)
  PROVE  AllRead(blocks, P) = Between(blocks, offset, to)
<1>1. PICK L \in Nat : L = Len(P) /\ L > 0
  BY Ends
<1> DEFINE end(k) == End(P, offset, n, k)
           step(q) == [k \in 0..Len(P) |-> IF k = 0 THEN <<>> ELSE Copied(q[k - 1], blocks, P[k])]
           buf == CHOOSE q : q = step(q)
           w == [k \in 0..Len(P) |-> Between(blocks, offset, end(k))]
<1>2. end(0) = offset /\ end(L) = to
  BY <1>1, Ends
<1>3. Between(blocks, offset, offset) = <<>>
  <2>1. 1..(offset - offset) = {}
    OBVIOUS
  <2> QED
    BY <2>1 DEF Between
<1>4. ASSUME NEW k \in 1..L
      PROVE  /\ k - 1 \in 0..L
             /\ Copied(Between(blocks, offset, end(k - 1)), blocks, P[k]) = Between(blocks, offset, end(k))
  <2>1. k - 1 \in 0..L /\ k - 1 \in 0..Len(P) /\ k \in 0..Len(P) /\ k \in 1..Len(P)
    BY <1>1
  <2>0. PICK p : p = P[k]
    OBVIOUS
  <2>2. PICK y \in Nat : Lies(p, y, offset, end(k - 1), end(k))
    BY <2>0, <2>1, Ends DEF AllLie
  <2>3. PICK u \in Nat, v \in Nat :
          u = end(k - 1) /\ v = end(k) /\ offset <= u /\ Room(m, v)
    <3>1. end(k - 1) \in Nat /\ offset <= end(k - 1) /\ end(k) \in Nat /\ end(k) <= offset + n
      BY <2>1, Ends
    <3> HIDE DEF end
    <3>2. PICK z \in Nat : z = m * BLOCK_SIZE
      BY Times
    <3>3. to <= z
      BY <3>2 DEF Room
    <3>4. end(k) <= z
      BY <3>1, <3>2, <3>3
    <3>5. Room(m, end(k))
      BY <3>2, <3>4 DEF Room
    <3> QED
      BY <3>1, <3>5
  <2> HIDE DEF end
  <2>5. Lies(p, y, offset, u, v)
    BY <2>2, <2>3, Zenon
  <2>6. Copied(Between(blocks, offset, u), blocks, p) = Between(blocks, offset, v)
    BY <2>3, <2>5, PieceRead
  <2> QED
    BY <2>0, <2>1, <2>3, <2>6
<1> HIDE DEF end
<1>5. w = step(w)
  <2>1. \A k \in 0..L : w[k] = IF k = 0 THEN <<>> ELSE Copied(w[k - 1], blocks, P[k])
    <3> TAKE k \in 0..L
    <3>1. CASE k = 0
      BY <1>1, <1>2, <1>3, <3>1
    <3>2. CASE k # 0
      <4>1. k \in 1..L
        BY <3>2
      <4>2. w[k] = Between(blocks, offset, end(k)) /\ w[k - 1] = Between(blocks, offset, end(k - 1))
        BY <1>1, <1>4, <4>1
      <4> HIDE DEF w
      <4> QED
        BY <1>4, <3>2, <4>1, <4>2
    <3> QED
      BY <3>1, <3>2
  <2> QED
    BY <1>1, <2>1
<1>6. buf = step(buf)
  <2> HIDE DEF w, step
  <2> QED
    BY <1>5
<1> HIDE DEF buf
<1>7. \A k \in Nat : k <= L => buf[k] = Between(blocks, offset, end(k))
  <2> DEFINE T == {k \in Nat : k <= L => buf[k] = Between(blocks, offset, end(k))}
  <2>1. 0 \in T
    BY <1>1, <1>2, <1>3, <1>6
  <2>2. ASSUME NEW k \in Nat, k \in T PROVE k + 1 \in T
    <3> SUFFICES ASSUME k + 1 <= L PROVE buf[k + 1] = Between(blocks, offset, end(k + 1))
      OBVIOUS
    <3>1. buf[k] = Between(blocks, offset, end(k))
      BY <1>1, <2>2
    <3>2. k + 1 \in 0..Len(P) /\ k + 1 # 0 /\ k + 1 - 1 = k /\ k + 1 \in 1..L
      BY <1>1
    <3>3. buf[k + 1] = Copied(buf[k], blocks, P[k + 1])
      BY <1>6, <3>2
    <3>4. Copied(Between(blocks, offset, end(k)), blocks, P[k + 1]) = Between(blocks, offset, end(k + 1))
      BY <1>4, <3>2
    <3> QED
      BY <3>1, <3>3, <3>4
  <2>3. Nat \subseteq T
    <3> HIDE DEF T
    <3> QED
      BY <2>1, <2>2, InductiveSet
  <2> QED
    BY <2>3
<1>8. buf[L] = AllRead(blocks, P)
  BY <1>1 DEF AllRead, Copied, buf
<1> QED
  BY <1>1, <1>2, <1>7, <1>8

-----------------------------------------------------------------------------
(* The bytes of blocks, one after the other. *)
BytesOf(blocks) == [i \in 1..(Len(blocks) * BLOCK_SIZE) |-> At(blocks, i)]

LEMMA BytesAre ==
  /\ Bytes = BytesOf(chain)
  /\ Bytes' = BytesOf(chain')
BY DEF Bytes, BytesOf, At

LEMMA BlocksLen ==
  ASSUME NEW m \in Nat, NEW blocks \in [1..m -> Block]
  PROVE  blocks \in Seq(Block) /\ Len(blocks) = m
OBVIOUS

LEMMA BytesLen ==
  ASSUME NEW m \in Nat, NEW blocks \in [1..m -> Block], NEW z \in Nat, z = m * BLOCK_SIZE
  PROVE  /\ BytesOf(blocks) \in [1..z -> Byte]
         /\ BytesOf(blocks) \in Seq(Byte) /\ Len(BytesOf(blocks)) = z
         /\ \A i \in 1..z : BytesOf(blocks)[i] = At(blocks, i)
<1>1. Len(blocks) * BLOCK_SIZE = z
  BY BlocksLen
<1>2. BytesOf(blocks) = [i \in 1..z |-> At(blocks, i)]
  BY <1>1 DEF BytesOf
<1>3. ASSUME NEW i \in 1..z PROVE At(blocks, i) \in Byte
  <2>1. i \in Nat \ {0} /\ Room(m, i)
    BY DEF Room
  <2> QED
    BY <2>1, AtIs
<1>4. BytesOf(blocks) \in [1..z -> Byte]
  BY <1>2, <1>3
<1>5. PICK S : S = BytesOf(blocks)
  OBVIOUS
<1>6. S \in Seq(Byte) /\ Len(S) = z
  BY <1>4, <1>5
<1> QED
  BY <1>2, <1>4, <1>5, <1>6

(* A part of the bytes. *)
LEMMA Part ==
  ASSUME NEW m \in Nat, NEW blocks \in [1..m -> Block],
         NEW from \in Nat, NEW to \in Nat, from <= to, Room(m, to)
  PROVE  SubSeq(BytesOf(blocks), from + 1, to) = Between(blocks, from, to)
<1>1. PICK z \in Nat : z = m * BLOCK_SIZE
  BY Times
<1>2. to <= z
  BY <1>1 DEF Room
<1>3. PICK S : S = BytesOf(blocks)
  OBVIOUS
<1>4. S \in [1..z -> Byte] /\ \A i \in 1..z : S[i] = At(blocks, i)
  BY <1>1, <1>3, BytesLen
<1>5. PICK G : G = Between(blocks, from, to)
  OBVIOUS
<1>6. G \in Seq(Byte) /\ Len(G) = to - from
  <2>1. Between(blocks, from, to) \in Seq(Byte) /\ Len(Between(blocks, from, to)) = to - from
    BY BetweenIs
  <2> QED
    BY <1>5, <2>1, Zenon
<1>7. PICK a \in Int : a = from + 1
  <2>1. from + 1 \in Int
    OBVIOUS
  <2> QED
    BY <2>1
<1>8. PICK T : T = SubSeq(S, a, to)
  OBVIOUS
<1>9. \A i \in a..to : S[i] \in Byte
  BY <1>2, <1>4, <1>7
<1>10. /\ T \in Seq(Byte) /\ Len(T) = to - from
      /\ \A i \in 1..(to - from) : T[i] = S[from + i]
  <2>1. /\ SubSeq(S, a, to) \in Seq(Byte)
        /\ Len(SubSeq(S, a, to)) = IF a <= to THEN to - a + 1 ELSE 0
        /\ \A i \in 1..(to - a + 1) : SubSeq(S, a, to)[i] = S[a + i - 1]
    <3>1. to \in Int
      OBVIOUS
    <3> QED
      BY <1>9, <3>1, SubSeqProperties
  <2>2. to - a + 1 = to - from /\ (~(a <= to) => to - from = 0)
    BY <1>7
  <2>3. \A i \in 1..(to - from) : a + i - 1 = from + i
    BY <1>7
  <2> QED
    BY <1>8, <2>1, <2>2, <2>3
<1>11. \A i \in 1..(to - from) : T[i] = G[i]
  <2> TAKE i \in 1..(to - from)
  <2>1. from + i \in 1..z
    BY <1>2
  <2>2. T[i] = At(blocks, from + i)
    BY <1>4, <1>10, <2>1
  <2>3. G[i] = At(blocks, from + i)
    BY <1>5 DEF Between
  <2> QED
    BY <2>2, <2>3
<1>12. T = G
  BY <1>6, <1>10, <1>11, SeqEqual
<1> QED
  BY <1>3, <1>5, <1>7, <1>12, <1>8

(* What was written is in its place. *)
LEMMA CoveredBytes ==
  ASSUME NEW m \in Nat, NEW blocks \in [1..m -> Block],
         NEW from \in Nat, NEW to \in Nat, NEW data,
         \A i \in Nat : from < i /\ i <= to => data[i - from] \in Byte
  PROVE  /\ Covered(blocks, data, from, to) \in [1..m -> Block]
         /\ BytesOf(Covered(blocks, data, from, to)) =
              [i \in DOMAIN BytesOf(blocks) |->
                 IF from < i /\ i <= to THEN data[i - from] ELSE BytesOf(blocks)[i]]
<1>1. PICK d \in Nat : d = BLOCK_SIZE /\ d > 0
  BY FileAssumption
<1>2. PICK z \in Nat : z = m * BLOCK_SIZE
  BY Times
<1>3. PICK C : C = Covered(blocks, data, from, to)
  OBVIOUS
<1>4. ASSUME NEW b \in 1..m
      PROVE  \E y \in Nat :
               /\ y = (b - 1) * BLOCK_SIZE
               /\ C[b] = [j \in 1..d |-> IF from < y + j /\ y + j <= to THEN data[y + j - from]
                                         ELSE blocks[b][j]]
  <2>1. b - 1 \in Nat /\ DOMAIN blocks = 1..m
    OBVIOUS
  <2>2. PICK y \in Nat : y = (b - 1) * BLOCK_SIZE
    BY <2>1, Times
  <2>3. C[b] = [j \in 1..d |-> IF from < y + j /\ y + j <= to THEN data[y + j - from]
                               ELSE blocks[b][j]]
    BY <1>1, <1>3, <2>1, <2>2 DEF Covered
  <2> QED
    BY <2>2, <2>3
<1>5. C \in [1..m -> Block]
  <2>1. ASSUME NEW b \in 1..m PROVE C[b] \in Block
    <3>1. PICK y \in Nat :
            C[b] = [j \in 1..d |-> IF from < y + j /\ y + j <= to THEN data[y + j - from]
                                   ELSE blocks[b][j]]
      BY <1>4
    <3>2. blocks[b] \in [1..d -> Byte]
      BY <1>1 DEF Block
    <3>3. ASSUME NEW j \in 1..d
          PROVE  (IF from < y + j /\ y + j <= to THEN data[y + j - from] ELSE blocks[b][j]) \in Byte
      <4>1. PICK i \in Nat : i = y + j
        OBVIOUS
      <4> QED
        <5>1. CASE from < i /\ i <= to
          <6>1. data[i - from] \in Byte
            BY <5>1
          <6> QED
            BY <4>1, <5>1, <6>1
        <5>2. CASE ~(from < i /\ i <= to)
          BY <3>2, <4>1, <5>2
        <5> QED
          BY <5>1, <5>2
    <3>4. C[b] \in [1..d -> Byte]
      BY <3>1, <3>3
    <3> QED
      BY <1>1, <3>4 DEF Block
  <2>2. C = [b \in 1..m |-> C[b]]
    BY <1>3 DEF Covered
  <2> QED
    BY <2>1, <2>2
<1>6. PICK F, S : F = BytesOf(C) /\ S = BytesOf(blocks)
  OBVIOUS
<1>7. /\ F \in [1..z -> Byte] /\ S \in [1..z -> Byte]
      /\ \A i \in 1..z : F[i] = At(C, i) /\ S[i] = At(blocks, i)
  <2>1. F \in [1..z -> Byte] /\ \A i \in 1..z : F[i] = At(C, i)
    BY <1>2, <1>5, <1>6, BytesLen
  <2>2. S \in [1..z -> Byte] /\ \A i \in 1..z : S[i] = At(blocks, i)
    BY <1>2, <1>6, BytesLen
  <2> QED
    BY <2>1, <2>2
<1>8. ASSUME NEW i \in 1..z
      PROVE  F[i] = IF from < i /\ i <= to THEN data[i - from] ELSE S[i]
  <2>1. PICK g \in Nat : g = i - 1
    <3>1. i - 1 \in Nat
      OBVIOUS
    <3> QED
      BY <3>1
  <2>2. g < z
    BY <2>1
  <2>3. PICK q \in Nat, r \in 0..(BLOCK_SIZE - 1) :
          q = g \div BLOCK_SIZE /\ r = g % BLOCK_SIZE /\ g = q * BLOCK_SIZE + r
    BY Place
  <2>4. PICK b \in 1..m, j \in 1..d : b = q + 1 /\ j = r + 1
    <3>1. (g \div BLOCK_SIZE) + 1 <= m
      BY <1>2, <2>2, InBlocks
    <3>2. q + 1 \in 1..m
      BY <2>3, <3>1
    <3>3. r + 1 \in 1..d
      BY <1>1
    <3> QED
      BY <3>2, <3>3
  <2>5. At(C, i) = C[b][j] /\ At(blocks, i) = blocks[b][j]
    BY <2>1, <2>3, <2>4 DEF At
  <2>6. PICK y \in Nat :
          /\ y = (b - 1) * BLOCK_SIZE
          /\ C[b] = [x \in 1..d |-> IF from < y + x /\ y + x <= to THEN data[y + x - from]
                                    ELSE blocks[b][x]]
    BY <1>4
  <2>7. y + j = i
    <3>1. b - 1 = q
      BY <2>4
    <3>2. y = q * BLOCK_SIZE
      BY <2>6, <3>1
    <3>3. g = y + r
      BY <2>3, <3>2
    <3>4. r \in Int
      BY <1>1
    <3> QED
      BY <2>1, <2>4, <3>3, <3>4
  <2>8. C[b][j] = IF from < i /\ i <= to THEN data[i - from] ELSE blocks[b][j]
    BY <2>6, <2>7
  <2> QED
    BY <1>7, <2>5, <2>8
<1>9. F = [i \in DOMAIN S |-> IF from < i /\ i <= to THEN data[i - from] ELSE S[i]]
  BY <1>7, <1>8
<1> QED
  BY <1>3, <1>5, <1>6, <1>9

(* Blocks that are added hold zeros. *)
LEMMA ResizedBytes ==
  ASSUME NEW m \in Nat, chain \in [1..m -> Block], NEW n \in Nat
  PROVE  /\ Resized(n) \in [1..BLOCKS(n) -> Block]
         /\ BytesOf(Resized(n)) = B!Resized(n)
<1>1. PICK d \in Nat : d = BLOCK_SIZE /\ d > 0
  BY FileAssumption
<1>2. PICK k \in Nat : k = BLOCKS(n)
  BY BlocksAre
<1>3. PICK y \in Nat, z \in Nat : y = m * BLOCK_SIZE /\ z = k * BLOCK_SIZE
  BY Times
<1>4. Len(chain) = m
  BY BlocksLen
<1>5. PICK R : R = Resized(n)
  OBVIOUS
<1>6. /\ R = [b \in 1..k |-> R[b]]
      /\ \A b \in 1..k : R[b] = IF b <= m THEN chain[b] ELSE [j \in 1..d |-> 0]
  BY <1>1, <1>2, <1>4, <1>5 DEF Resized
<1>7. [j \in 1..d |-> 0] \in Block
  BY <1>1, FileAssumption DEF Block
<1>8. R \in [1..k -> Block]
  <2>1. ASSUME NEW b \in 1..k PROVE R[b] \in Block
    <3>1. CASE b <= m
      BY <1>6, <3>1
    <3>2. CASE ~(b <= m)
      BY <1>6, <1>7, <3>2
    <3> QED
      BY <3>1, <3>2
  <2> QED
    BY <1>6, <2>1
<1>9. PICK F, S : F = BytesOf(R) /\ S = BytesOf(chain)
  OBVIOUS
<1>10. F \in [1..z -> Byte] /\ \A i \in 1..z : F[i] = At(R, i)
  BY <1>3, <1>8, <1>9, BytesLen
<1>11. Len(S) = y /\ \A i \in 1..y : S[i] = At(chain, i)
  BY <1>3, <1>9, BytesLen
<1>12. ASSUME NEW i \in 1..z PROVE F[i] = IF i <= y THEN S[i] ELSE 0
  <2>1. PICK g \in Nat : g = i - 1
    <3>1. i - 1 \in Nat
      OBVIOUS
    <3> QED
      BY <3>1
  <2>2. PICK b \in Nat, j \in 1..d :
          b = (g \div BLOCK_SIZE) + 1 /\ j = (g % BLOCK_SIZE) + 1
    BY <1>1, InBlocks
  <2>3. (g < y <=> b <= m) /\ (g < z <=> b <= k) /\ b > 0
    <3>1. g < m * BLOCK_SIZE <=> (g \div BLOCK_SIZE) + 1 <= m
      BY InBlocks
    <3>2. g < k * BLOCK_SIZE <=> (g \div BLOCK_SIZE) + 1 <= k
      BY InBlocks
    <3>3. (g \div BLOCK_SIZE) + 1 \in Nat \ {0}
      BY InBlocks
    <3> QED
      BY <1>3, <2>2, <3>1, <3>2, <3>3
  <2>4. b \in 1..k
    BY <2>1, <2>3
  <2>5. F[i] = R[b][j]
    BY <1>10, <2>1, <2>2 DEF At
  <2>6. CASE i <= y
    <3>1. b <= m
      BY <2>1, <2>3, <2>6
    <3>2. S[i] = chain[b][j]
      BY <1>11, <2>1, <2>2, <2>6 DEF At
    <3> QED
      BY <1>6, <2>4, <2>5, <2>6, <3>1, <3>2
  <2>7. CASE ~(i <= y)
    <3>1. ~(b <= m)
      BY <2>1, <2>3, <2>7
    <3>2. R[b] = [x \in 1..d |-> 0]
      BY <1>6, <2>4, <3>1
    <3>3. R[b][j] = 0
      BY <3>2
    <3> QED
      BY <2>5, <2>7, <3>3
  <2> QED
    BY <2>6, <2>7
<1>13. F = [i \in 1..z |-> IF i <= y THEN S[i] ELSE 0]
  BY <1>10, <1>12
<1>14. B!Resized(n) = [i \in 1..z |-> IF i <= y THEN S[i] ELSE 0]
  <2>1. B!Rounded(n) = z
    BY <1>2, <1>3 DEF B!Rounded, BLOCKS
  <2>2. Bytes = S /\ Len(Bytes) = y
    BY <1>9, <1>11, BytesAre
  <2> QED
    BY <2>1, <2>2 DEF B!Resized
<1> QED
  BY <1>2, <1>5, <1>8, <1>9, <1>13, <1>14

-----------------------------------------------------------------------------
(* The invariant: TypeOK, with the chain as a function from numbers.       *)
Inv ==
  /\ size \in 0..MaxSize
  /\ chain \in [1..BLOCKS(size) -> Block]
  /\ Len(out) <= size

LEMMA Sizes ==
  ASSUME NEW n \in Nat
  PROVE  BLOCKS(n) \in Nat /\ Room(BLOCKS(n), n)
BY BlocksAre DEF Room

LEMMA Starts ==
  ASSUME Init
  PROVE  Inv /\ B!Init
<1>1. BLOCKS(0) = 0
  <2>1. PICK d \in Nat : d = BLOCK_SIZE /\ d > 0
    BY FileAssumption
  <2>2. PICK r \in 0..(BLOCK_SIZE - 1) : r = BLOCK_SIZE - 1
    BY <2>1
  <2>3. r = 0 * BLOCK_SIZE + r /\ 0 + BLOCK_SIZE - 1 = r
    BY <2>1, <2>2
  <2>4. r \div BLOCK_SIZE = 0
    BY <2>3, OnePlace
  <2> QED
    BY <2>3, <2>4 DEF BLOCKS
<1>2. chain = <<>> /\ size = 0 /\ call = [op |-> "truncate", n |-> 0] /\ out = <<>>
  BY DEF Init
<1>3. chain \in [1..BLOCKS(size) -> Block]
  BY <1>1, <1>2
<1>4. Bytes = <<>>
  <2>1. 0 * BLOCK_SIZE = 0 /\ 1..0 = {}
    BY FileAssumption
  <2>2. Len(chain) * BLOCK_SIZE = 0
    BY <1>2, <2>1
  <2> QED
    BY <2>1, <2>2 DEF Bytes
<1>5. MaxSize \in Nat
  BY FileAssumption
<1> QED
  BY <1>2, <1>3, <1>4, <1>5 DEF Inv, B!Init

LEMMA TruncateStep ==
  ASSUME Inv, NEW n \in 0..MaxSize, fatfs_truncate(n)
  PROVE  Inv' /\ B!Next
<1>1. n \in Nat /\ size \in Nat
  BY FileAssumption DEF Inv
<1>2. /\ call' = [op |-> "truncate", n |-> n] /\ chain' = Resized(n)
      /\ size' = n /\ out' = <<>>
  BY DEF fatfs_truncate
<1>3. PICK m \in Nat : m = BLOCKS(size) /\ chain \in [1..m -> Block]
  BY <1>1, BlocksAre DEF Inv
<1>4. chain' \in [1..BLOCKS(n) -> Block] /\ Bytes' = B!Resized(n)
  BY <1>1, <1>2, <1>3, ResizedBytes, BytesAre
<1>5. Inv'
  BY <1>1, <1>2, <1>4 DEF Inv
<1>6. call' \in B!Call /\ call'.op = "truncate" /\ call'.n = n
  BY <1>2 DEF B!Call
<1> QED
  BY <1>2, <1>4, <1>5, <1>6 DEF B!Next, B!Truncate

LEMMA WriteStep ==
  ASSUME Inv, NEW offset \in 0..MaxSize, NEW data \in Data, fatfs_write(offset, data)
  PROVE  Inv' /\ B!Next
<1>1. offset \in Nat /\ size \in Nat /\ MaxSize \in Nat
  BY FileAssumption DEF Inv
<1>2. PICK n \in 1..MaxSize : data \in [1..n -> Byte]
  BY DEF Data
<1>3. n \in Nat \ {0} /\ Len(data) = n
  BY <1>1, <1>2
<1>4. PICK end \in Nat : end = offset + n /\ end = offset + Len(data)
  BY <1>1, <1>3
<1>5. PICK P, C : P = Pieces(offset, n) /\ C = IF end > size THEN Resized(end) ELSE chain
  OBVIOUS
<1>6. PICK s \in Nat : s = IF end > size THEN end ELSE size
  BY <1>1
<1>7. /\ end <= MaxSize /\ call' = [op |-> "write", offset |-> offset, data |-> data]
      /\ chain' = AllWritten(C, P, data)
      /\ size' = s /\ out' = <<>>
  BY <1>3, <1>4, <1>5, <1>6 DEF fatfs_write
<1>8. PICK k \in Nat : k = BLOCKS(size) /\ chain \in [1..k -> Block]
  BY <1>1, BlocksAre DEF Inv
<1>9. PICK m \in Nat : m = BLOCKS(s)
  BY BlocksAre
<1>10. /\ C \in [1..m -> Block]
       /\ BytesOf(C) = IF end > size THEN B!Resized(end) ELSE Bytes
  <2>1. CASE end > size
    <3>1. Resized(end) \in [1..BLOCKS(end) -> Block] /\ BytesOf(Resized(end)) = B!Resized(end)
      BY <1>8, ResizedBytes
    <3> QED
      BY <1>5, <1>6, <1>9, <2>1, <3>1
  <2>2. CASE ~(end > size)
    BY <1>5, <1>6, <1>8, <1>9, <2>2, BytesAre
  <2> QED
    BY <2>1, <2>2
<1>11. chain' = Covered(C, data, offset, end)
  <2>1. Follow(P, offset, n)
    BY <1>1, <1>3, <1>5, PiecesFollow
  <2>2. AllWritten(C, P, data) = Covered(C, data, offset, offset + n)
    BY <1>1, <1>3, <1>10, <2>1, AllWrittenIs
  <2> QED
    BY <1>4, <1>7, <2>2
<1>12. \A i \in Nat : offset < i /\ i <= end => data[i - offset] \in Byte
  BY <1>1, <1>2, <1>4
<1>13. /\ chain' \in [1..m -> Block]
       /\ Bytes' = [i \in DOMAIN BytesOf(C) |->
                      IF offset < i /\ i <= end THEN data[i - offset] ELSE BytesOf(C)[i]]
  <2>1. PICK D : D = Covered(C, data, offset, end)
    OBVIOUS
  <2>2. /\ D \in [1..m -> Block]
        /\ BytesOf(D) = [i \in DOMAIN BytesOf(C) |->
                           IF offset < i /\ i <= end THEN data[i - offset] ELSE BytesOf(C)[i]]
    <3>1. offset \in Nat /\ C \in [1..m -> Block]
      BY <1>1, <1>10
    <3> QED
      BY <1>12, <2>1, <3>1, CoveredBytes, SMTT(20)
  <2>3. chain' = D /\ Bytes' = BytesOf(D)
    BY <1>11, <2>1, BytesAre
  <2> QED
    BY <2>2, <2>3
<1>14. Inv'
  <2>1. size' \in 0..MaxSize
    BY <1>1, <1>6, <1>7 DEF Inv
  <2>2. Len(out') <= size'
    BY <1>7
  <2> QED
    BY <1>7, <1>9, <1>13, <2>1, <2>2 DEF Inv
<1>15. call' \in B!Call
  BY <1>7 DEF B!Call, B!Data, Data
<1>16. call'.op = "write" /\ call'.offset = offset /\ call'.data = data
  BY <1>7
<1>17. B!Write
  <2>1. size' = IF end > size THEN end ELSE size
    BY <1>6, <1>7
  <2> QED
    BY <1>4, <1>7, <1>10, <1>13, <1>16, <2>1 DEF B!Write
<1> QED
  BY <1>14, <1>15, <1>17 DEF B!Next

LEMMA ReadStep ==
  ASSUME Inv, NEW offset \in 0..MaxSize, NEW n \in 1..MaxSize, fatfs_read(offset, n)
  PROVE  Inv' /\ B!Next
<1>1. offset \in Nat /\ size \in Nat /\ MaxSize \in Nat /\ n \in Nat \ {0}
  BY FileAssumption DEF Inv
<1>2. PICK m \in Nat : m = BLOCKS(size) /\ chain \in [1..m -> Block]
  BY <1>1, BlocksAre DEF Inv
<1>3. Room(m, size)
  BY <1>1, <1>2, Sizes
<1>4. PICK end \in Nat : end = IF offset + n > size THEN size ELSE offset + n
  BY <1>1
<1>5. out' = SubSeq(Bytes, offset + 1, end) /\ Len(out') <= size
  <2>1. CASE offset >= size
    <3>1. out' = <<>>
      BY <2>1 DEF fatfs_read
    <3>2. end = size
      BY <1>1, <1>4, <2>1
    <3>3. SubSeq(Bytes, offset + 1, end) = <<>>
      <4>1. PICK S : S = Bytes
        OBVIOUS
      <4>2. PICK a \in Int : a = offset + 1 /\ ~(a <= end)
        BY <1>1, <2>1, <3>2
      <4>3. SubSeq(S, a, end) \in Seq(Byte) /\ Len(SubSeq(S, a, end)) = 0
        <5>1. a..end = {}
          BY <4>2
        <5>2. end \in Int
          OBVIOUS
        <5> QED
          BY <4>2, <5>1, <5>2, SubSeqProperties
      <4>4. SubSeq(S, a, end) = <<>>
        BY <4>3, EmptySeq
      <4> QED
        BY <4>1, <4>2, <4>4
    <3>4. Len(out') = 0
      BY <3>1
    <3>5. out' = SubSeq(Bytes, offset + 1, end)
      BY <3>1, <3>3, Zenon
    <3>6. Len(out') <= size
      BY <1>1, <3>4
    <3> QED
      BY <3>5, <3>6
  <2>2. CASE ~(offset >= size)
    <3>1. PICK c \in Nat \ {0} : c = Clipped(offset, n) /\ end = offset + c
      <4>1. Clipped(offset, n) = end - offset
        BY <1>1, <1>4 DEF Clipped
      <4>2. end - offset \in Nat \ {0} /\ end = offset + (end - offset)
        BY <1>1, <1>4, <2>2
      <4> QED
        BY <4>1, <4>2
    <3>2. Room(m, end)
      <4>1. PICK z \in Nat : z = m * BLOCK_SIZE
        BY Times
      <4>2. size <= z
        BY <1>3, <4>1 DEF Room
      <4>3. end <= z
        BY <1>1, <1>4, <4>2
      <4> QED
        BY <4>1, <4>3 DEF Room
    <3>3. PICK P : P = Pieces(offset, c)
      OBVIOUS
    <3>4. out' = AllRead(chain, P)
      BY <2>2, <3>1, <3>3 DEF fatfs_read
    <3>5. Follow(P, offset, c)
      BY <1>1, <3>3, PiecesFollow
    <3>6. AllRead(chain, P) = Between(chain, offset, end)
      BY <1>1, <1>2, <3>1, <3>2, <3>5, AllReadIs
    <3>7. offset <= end
      BY <1>1, <3>1
    <3>8. SubSeq(BytesOf(chain), offset + 1, end) = Between(chain, offset, end)
      <4>1. chain \in [1..m -> Block]
        BY <1>2
      <4>2. offset \in Nat
        BY <1>1
      <4> QED
        BY <3>2, <3>7, <4>1, <4>2, Part
    <3>9. Len(Between(chain, offset, end)) = end - offset
      <4>1. chain \in [1..m -> Block]
        BY <1>2
      <4>2. offset \in Nat
        BY <1>1
      <4> QED
        BY <3>2, <3>7, <4>1, <4>2, BetweenIs
    <3>10. end <= size
      BY <1>1, <1>4
    <3>11. Len(out') = end - offset
      BY <3>4, <3>6, <3>9
    <3> QED
      BY <1>1, <3>4, <3>6, <3>8, <3>10, <3>11, BytesAre
  <2> QED
    BY <2>1, <2>2
<1>6. call' = [op |-> "read", offset |-> offset, n |-> n] /\ UNCHANGED <<chain, size>>
  BY DEF fatfs_read
<1>7. call' \in B!Call /\ call'.op = "read" /\ call'.offset = offset /\ call'.n = n
  BY <1>6 DEF B!Call
<1>8. UNCHANGED <<Bytes, size>>
  BY <1>6, BytesAre DEF BytesOf, At
<1>9. Inv'
  BY <1>5, <1>6 DEF Inv
<1>10. B!Read
  BY <1>4, <1>5, <1>7, <1>8 DEF B!Read
<1> QED
  BY <1>7, <1>9, <1>10 DEF B!Next

LEMMA EachStep ==
  ASSUME Inv, [Next]_vars
  PROVE  Inv' /\ [B!Next]_(B!vars)
<1>1. CASE UNCHANGED vars
  <2>1. UNCHANGED <<chain, size, call, out>>
    BY <1>1 DEF vars
  <2>2. Bytes' = Bytes
    BY <2>1, BytesAre DEF BytesOf, At
  <2> QED
    BY <2>1, <2>2 DEF Inv, B!vars
<1>2. CASE Next
  BY <1>2, TruncateStep, WriteStep, ReadStep DEF Next
<1> QED
  BY <1>1, <1>2

-----------------------------------------------------------------------------
(* The chain always has the blocks that the size needs (fatfs_truncate),   *)
(* whatever is written.                                                    *)
THEOREM FileTypes == Spec => []TypeOK
<1>1. Init => Inv
  BY Starts
<1>2. Inv /\ [Next]_vars => Inv'
  BY EachStep
<1>3. Inv => TypeOK
  <2> SUFFICES ASSUME Inv PROVE TypeOK
    OBVIOUS
  <2>1. size \in Nat
    BY FileAssumption DEF Inv
  <2>2. PICK m \in Nat : m = BLOCKS(size) /\ chain \in [1..m -> Block]
    BY <2>1, BlocksAre DEF Inv
  <2>3. Len(chain) = m
    BY <2>2, BlocksLen
  <2>4. \A i \in DOMAIN chain : chain[i] \in [1..BLOCK_SIZE -> Byte]
    BY <2>2 DEF Block
  <2> QED
    BY <2>2, <2>3, <2>4 DEF TypeOK, Inv
<1> QED
  BY <1>1, <1>2, <1>3, PTL DEF Spec

(* fatfs_read and fatfs_write get at the bytes that the caller means, and  *)
(* at no others, whatever the size of a block and however the range lies   *)
(* on the blocks.                                                          *)
THEOREM FileIsBytes == Spec => ImplementsByteFile
<1>1. Init => Inv /\ B!Init
  BY Starts
<1>2. Inv /\ [Next]_vars => Inv' /\ [B!Next]_(B!vars)
  BY EachStep
<1> QED
  BY <1>1, <1>2, PTL DEF Spec, ImplementsByteFile, B!Spec
=============================================================================
