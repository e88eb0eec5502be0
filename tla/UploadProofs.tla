---------------------------- MODULE UploadProofs ----------------------------
(***************************************************************************)
(* What Upload promises, for files, chunks, tags and headers of any size,  *)
(* any distance between checkpoints, any number of requests and of faults. *)
(*                                                                         *)
(* Two arguments carry it.  What the record names is whole and flushed     *)
(* whatever is done to the part (PartInv), because the record goes up      *)
(* after a flush and down before a cut.  And bytes are named by a row,     *)
(* because a request that writes holds the part, and nobody does while the *)
(* sweep is at work (WriterInv, ServerInv).  Under both lies the format:   *)
(* how much plaintext a length on disk stands for.                         *)
(***************************************************************************)
EXTENDS Upload, WellFoundedInduction, TLAPS

(***************************************************************************)
(* The arithmetic of the format                                            *)
(***************************************************************************)

\* Division with remainder.
LEMMA Division ==
    ASSUME NEW a \in Nat, NEW b \in Nat \ {0}
    PROVE  /\ a \div b \in Nat /\ a % b \in 0 .. b - 1
           /\ a = (a \div b) * b + (a % b)
  OBVIOUS

\* A multiple and less than one more: there is one quotient.
LEMMA Quotient ==
    ASSUME NEW q \in Nat, NEW b \in Nat \ {0}, NEW r \in 0 .. b - 1
    PROVE  (q * b + r) \div b = q /\ (q * b + r) % b = r
  OBVIOUS

\* Multiplication keeps the order, with a whole step to spare.
LEMMA Multiples ==
    ASSUME NEW a \in Nat, NEW b \in Nat, a < b, NEW c \in Nat
    PROVE  a * c \in Nat /\ b * c \in Nat /\ a * c + c <= b * c
  OBVIOUS

\* The smaller and the larger of two.
LEMMA MinOfTwo ==
    ASSUME NEW a \in Int, NEW b \in Int
    PROVE  /\ Min({a, b}) \in {a, b} /\ Min({a, b}) <= a /\ Min({a, b}) <= b
           /\ Max({a, b}) \in {a, b} /\ Max({a, b}) >= a /\ Max({a, b}) >= b
  <1>1. \E x \in {a, b} : \A y \in {a, b} : x <= y
    OBVIOUS
  <1>2. \E x \in {a, b} : \A y \in {a, b} : x >= y
    OBVIOUS
  <1> QED BY <1>1, <1>2 DEF Min, Max

\* The smaller and the larger of two whose order is known.
LEMMA OrderedTwo ==
    ASSUME NEW a \in Int, NEW b \in Int, a <= b
    PROVE  Min({a, b}) = a /\ Max({a, b}) = b
  <1>1. /\ Min({a, b}) \in {a, b} /\ Min({a, b}) <= a
        /\ Max({a, b}) \in {a, b} /\ Max({a, b}) >= b
    BY MinOfTwo
  <1> QED BY <1>1

\* Lengths with a bound have a largest one.
LEMMA LargestOfBounded ==
    ASSUME NEW b \in Nat, NEW T \in SUBSET 0 .. b, T # {}
    PROVE  Max(T) \in T /\ \A n \in T : n <= Max(T)
  <1> DEFINE R == OpToRel(<, Nat)
             U == {b - n : n \in T}
  <1>1. IsWellFoundedOn(R, Nat)
    BY NatLessThanWellFounded
  <1>2. \A x, y \in Nat : <<y, x>> \in R <=> y < x
    BY DEF OpToRel
  <1> HIDE DEF R
  <1>3. U \subseteq Nat /\ U # {}
    <2>1. \A n \in T : n \in Int /\ 0 <= n /\ n <= b
      OBVIOUS
    <2>2. \A n \in T : b - n \in Nat
      BY <2>1
    <2> QED BY <2>2
  <1>4. PICK u \in U : \A y \in U : ~ (<<y, u>> \in R)
    BY <1>1, <1>3, WFMin
  <1>5. PICK n \in T : u = b - n
    OBVIOUS
  <1>6. ASSUME NEW m \in T PROVE m <= n
    <2>1. b - m \in U /\ b - m \in Nat /\ u \in Nat
      BY <1>3
    <2>2. ~(b - m < u)
      BY <1>2, <1>4, <2>1
    <2>3. m \in Int /\ n \in Int
      OBVIOUS
    <2> QED BY <1>5, <2>2, <2>3
  <1>7. \E x \in T : \A y \in T : x >= y
    BY <1>6
  <1> QED BY <1>7 DEF Max

\* The sizes are positive numbers.
LEMMA Sizes ==
    /\ ChunkSize \in Nat \ {0} /\ TagSize \in Nat \ {0} /\ HeaderSize \in Nat \ {0}
    /\ Size \in Nat \ {0} /\ SealedSize \in Nat \ {0} /\ SealedSize = ChunkSize + TagSize
  BY UploadAssumption DEF SealedSize

\* More plaintext is a longer file, by at least as much (CipherLen).
LEMMA CipherLenGrows ==
    ASSUME NEW a \in Nat, NEW b \in Nat, a < b
    PROVE  /\ CipherLen(a) \in Nat /\ CipherLen(b) \in Nat
           /\ HeaderSize <= CipherLen(a) /\ CipherLen(a) < CipherLen(b)
  <1> DEFINE qa == a \div ChunkSize
             qb == b \div ChunkSize
             ra == a % ChunkSize
             rb == b % ChunkSize
  <1>1. /\ qa \in Nat /\ ra \in 0 .. ChunkSize - 1 /\ a = qa * ChunkSize + ra
        /\ qb \in Nat /\ rb \in 0 .. ChunkSize - 1 /\ b = qb * ChunkSize + rb
    BY Sizes, Division
  <1>2. /\ CipherLen(a) = HeaderSize + qa * SealedSize + (IF ra > 0 THEN ra + TagSize ELSE 0)
        /\ CipherLen(b) = HeaderSize + qb * SealedSize + (IF rb > 0 THEN rb + TagSize ELSE 0)
    BY DEF CipherLen
  <1> HIDE DEF qa, qb, ra, rb
  <1>3. qa * SealedSize \in Nat /\ qb * SealedSize \in Nat
    BY <1>1, Sizes
  <1>4. CASE qb < qa
    <2>1. qb * ChunkSize + ChunkSize <= qa * ChunkSize
      BY <1>1, <1>4, Sizes, Multiples
    <2> QED BY <1>1, <2>1, Sizes
  <1>5. CASE qa = qb
    BY <1>1, <1>2, <1>3, <1>5, Sizes
  <1>6. CASE qa < qb
    <2>1. qa * SealedSize + SealedSize <= qb * SealedSize
      BY <1>1, <1>6, Sizes, Multiples
    <2> QED BY <1>1, <1>2, <1>3, <2>1, Sizes
  <1> QED BY <1>1, <1>4, <1>5, <1>6

\* More plaintext, or as much.
LEMMA CipherLenOrder ==
    ASSUME NEW a \in Nat, NEW b \in Nat, a <= b
    PROVE  CipherLen(a) \in Nat /\ CipherLen(a) <= CipherLen(b)
  <1>1. CipherLen(a) \in Nat
    BY CipherLenGrows
  <1> QED BY <1>1, CipherLenGrows

\* An empty file is its header.
LEMMA CipherLenOfNothing == CipherLen(0) = HeaderSize
  <1>1. 0 = 0 * ChunkSize + 0 /\ 0 \div ChunkSize = 0 /\ 0 % ChunkSize = 0
    BY Sizes, Quotient
  <1> QED BY <1>1, Sizes DEF CipherLen

\* A length that stands for p bytes of plaintext is long enough for them (plainLen).
LEMMA PlainLenFits ==
    ASSUME NEW n \in Int
    PROVE  /\ plainLen(n) \in Nat
           /\ \A p \in Nat \ {0} : p <= plainLen(n) => CipherLen(p) <= n
  <1>1. CASE n < HeaderSize
    BY <1>1 DEF plainLen
  <1>2. CASE HeaderSize <= n
    <2> DEFINE m == n - HeaderSize
               qm == m \div SealedSize
               rm == m % SealedSize
               x == IF rm > TagSize THEN rm - TagSize ELSE 0
    <2>1. m \in Nat
      BY <1>2, Sizes
    <2>2. qm \in Nat /\ rm \in 0 .. SealedSize - 1 /\ m = qm * SealedSize + rm
      BY <2>1, Sizes, Division
    <2>3. plainLen(n) = qm * ChunkSize + x
      BY <1>2, Sizes DEF plainLen
    <2> HIDE DEF qm, rm
    <2>4. x \in 0 .. ChunkSize - 1 /\ qm * ChunkSize \in Nat /\ qm * SealedSize \in Nat
      BY <2>2, Sizes
    <2>5. ASSUME NEW p \in Nat \ {0}, p <= plainLen(n)
          PROVE  CipherLen(p) <= n
      <3> DEFINE q == p \div ChunkSize
                 r == p % ChunkSize
      <3>1. q \in Nat /\ r \in 0 .. ChunkSize - 1 /\ p = q * ChunkSize + r
        BY Sizes, Division
      <3>2. CipherLen(p) = HeaderSize + q * SealedSize + (IF r > 0 THEN r + TagSize ELSE 0)
        BY DEF CipherLen
      <3> HIDE DEF q, r, x
      <3>3. q * SealedSize \in Nat
        BY <3>1, Sizes
      <3>4. CASE qm < q
        <4>1. qm * ChunkSize + ChunkSize <= q * ChunkSize
          BY <2>2, <3>1, <3>4, Sizes, Multiples
        <4> QED BY <2>3, <2>4, <2>5, <3>1, <4>1, Sizes
      <3>5. CASE q = qm
        <4>1. r <= x
          BY <2>3, <2>4, <2>5, <3>1, <3>5, Sizes
        <4>2. r > 0 => rm >= r + TagSize
          BY <2>2, <3>1, <4>1, Sizes DEF x
        <4> QED BY <2>2, <2>4, <3>1, <3>2, <3>5, <4>2, Sizes
      <3>6. CASE q < qm
        <4>1. q * SealedSize + SealedSize <= qm * SealedSize
          BY <2>2, <3>1, <3>6, Sizes, Multiples
        <4> QED BY <2>2, <2>4, <3>1, <3>2, <3>3, <4>1, Sizes
      <3> QED BY <2>2, <3>1, <3>4, <3>5, <3>6
    <2> QED BY <2>3, <2>4, <2>5
  <1> QED BY <1>1, <1>2, Sizes

\* And it stands for them: nothing that fits is left out (plainLen).
LEMMA PlainLenHolds ==
    ASSUME NEW n \in Int, NEW p \in Nat, CipherLen(p) <= n
    PROVE  p <= plainLen(n)
  <1> DEFINE m == n - HeaderSize
             qm == m \div SealedSize
             rm == m % SealedSize
             x == IF rm > TagSize THEN rm - TagSize ELSE 0
             q == p \div ChunkSize
             r == p % ChunkSize
  <1>1. CipherLen(p) \in Nat /\ HeaderSize <= n /\ m \in Nat
    <2>1. CipherLen(p) \in Nat /\ HeaderSize <= CipherLen(p)
      BY CipherLenGrows
    <2> QED BY <2>1, Sizes
  <1>2. qm \in Nat /\ rm \in 0 .. SealedSize - 1 /\ m = qm * SealedSize + rm
    BY <1>1, Sizes, Division
  <1>3. plainLen(n) = qm * ChunkSize + x
    BY <1>1, Sizes DEF plainLen
  <1>4. q \in Nat /\ r \in 0 .. ChunkSize - 1 /\ p = q * ChunkSize + r
    BY Sizes, Division
  <1>5. CipherLen(p) = HeaderSize + q * SealedSize + (IF r > 0 THEN r + TagSize ELSE 0)
    BY DEF CipherLen
  <1> HIDE DEF qm, rm, q, r
  <1>6. qm * SealedSize \in Nat /\ q * SealedSize \in Nat /\ qm * ChunkSize \in Nat
        /\ x \in Nat
    BY <1>2, <1>4, Sizes
  <1>7. q * SealedSize + (IF r > 0 THEN r + TagSize ELSE 0) <= qm * SealedSize + rm
    BY <1>1, <1>2, <1>4, <1>5, <1>6, Sizes
  <1>8. CASE qm < q
    <2>1. qm * SealedSize + SealedSize <= q * SealedSize
      BY <1>2, <1>4, <1>8, Sizes, Multiples
    <2> QED BY <1>2, <1>4, <1>6, <1>7, <2>1, Sizes
  <1>9. CASE q = qm
    <2>1. r > 0 => r + TagSize <= rm
      BY <1>2, <1>4, <1>6, <1>7, <1>9, Sizes
    <2>2. r <= x
      BY <1>2, <1>4, <2>1, Sizes
    <2> QED BY <1>3, <1>4, <1>6, <1>9, <2>2
  <1>10. CASE q < qm
    <2>1. q * ChunkSize + ChunkSize <= qm * ChunkSize
      BY <1>2, <1>4, <1>10, Sizes, Multiples
    <2> QED BY <1>3, <1>4, <1>6, <2>1, Sizes
  <1> QED BY <1>2, <1>4, <1>8, <1>9, <1>10

(***************************************************************************)
(* Pieces                                                                  *)
(***************************************************************************)

\* Where the plaintext may stand between two chunks: at the end of a piece.
Ends == {PlainEnd(i) : i \in Piece}

\* Every chunk but the last is whole, and the last ends with the file.
LEMMA ChunksCover ==
    /\ Chunks \in Nat /\ 0 \in Piece /\ Chunks \in Piece
    /\ Size <= Chunks * ChunkSize
    /\ \A i \in Nat : i < Chunks => i * ChunkSize \in Nat /\ i * ChunkSize < Size
  <1> DEFINE a == Size + ChunkSize - 1
             r == a % ChunkSize
  <1>1. a \in Nat
    BY Sizes
  <1>2. Chunks \in Nat /\ r \in 0 .. ChunkSize - 1 /\ a = Chunks * ChunkSize + r
    BY <1>1, Sizes, Division DEF Chunks
  <1> HIDE DEF r
  <1>3. Chunks * ChunkSize \in Nat
    BY <1>2, Sizes
  <1>4. Size <= Chunks * ChunkSize
    BY <1>2, <1>3, Sizes
  <1>5. ASSUME NEW i \in Nat, i < Chunks
        PROVE  i * ChunkSize \in Nat /\ i * ChunkSize < Size
    <2>1. i * ChunkSize + ChunkSize <= Chunks * ChunkSize /\ i * ChunkSize \in Nat
      BY <1>2, <1>5, Sizes, Multiples
    <2> QED BY <1>2, <1>3, <2>1, Sizes
  <1> QED BY <1>2, <1>4, <1>5 DEF Piece

\* Where pieces end in the plaintext.
LEMMA PlainEnds ==
    /\ \A i \in Piece : PlainEnd(i) \in 0 .. Size
    /\ \A i \in Piece : i < Chunks => PlainEnd(i) = i * ChunkSize /\ PlainEnd(i) < Size
    /\ PlainEnd(0) = 0 /\ PlainEnd(Chunks) = Size
    /\ \A i, j \in Piece : i < j => PlainEnd(i) < PlainEnd(j)
  <1>1. \A i \in Piece : i \in Nat /\ i <= Chunks /\ i * ChunkSize \in Nat
    BY ChunksCover, Sizes DEF Piece
  <1>2. ASSUME NEW i \in Piece
        PROVE  PlainEnd(i) = IF i * ChunkSize <= Size THEN i * ChunkSize ELSE Size
    <2> DEFINE a == i * ChunkSize
    <2>1. a \in Int /\ Size \in Int
      BY <1>1, Sizes
    <2> HIDE DEF a
    <2>2. /\ Min({a, Size}) \in {a, Size}
          /\ Min({a, Size}) <= a /\ Min({a, Size}) <= Size
      BY <2>1, MinOfTwo
    <2>3. Min({a, Size}) = IF a <= Size THEN a ELSE Size
      BY <2>1, <2>2
    <2> QED BY <2>3 DEF a, PlainEnd
  <1>3. \A i \in Piece : i < Chunks => PlainEnd(i) = i * ChunkSize /\ PlainEnd(i) < Size
    BY <1>1, <1>2, ChunksCover, Sizes
  <1>4. PlainEnd(0) = 0
    <2>1. 0 * ChunkSize = 0
      BY Sizes
    <2> QED BY <1>2, <2>1, ChunksCover, Sizes
  <1>5. PlainEnd(Chunks) = Size
    BY <1>1, <1>2, ChunksCover, Sizes
  <1>6. ASSUME NEW i \in Piece, NEW j \in Piece, i < j
        PROVE  PlainEnd(i) < PlainEnd(j)
    <2>1. i * ChunkSize + ChunkSize <= j * ChunkSize
      BY <1>1, <1>6, Sizes, Multiples
    <2>2. PlainEnd(i) = i * ChunkSize /\ PlainEnd(i) < Size
      <3>1. i < Chunks
        BY <1>1, <1>6, ChunksCover
      <3> QED BY <1>3, <3>1
    <2> QED BY <1>1, <1>2, <2>1, <2>2, Sizes
  <1>7. \A i \in Piece : PlainEnd(i) \in 0 .. Size
    BY <1>1, <1>2, Sizes
  <1> QED BY <1>3, <1>4, <1>5, <1>6, <1>7

\* A chunk that is not the last: the next one follows where it ends (receive).
LEMMA NextChunk ==
    ASSUME NEW k \in Piece, PlainEnd(k) < Size
    PROVE  k + 1 \in Piece /\ PlainEnd(k) \div ChunkSize = k
  <1>1. k \in Nat /\ k <= Chunks /\ k # Chunks /\ Chunks \in Nat
    BY PlainEnds, ChunksCover, Sizes DEF Piece
  <1>2. PlainEnd(k) = k * ChunkSize + 0 /\ 0 \in 0 .. ChunkSize - 1
    BY <1>1, PlainEnds, Sizes, ChunksCover
  <1> QED BY <1>1, <1>2, Quotient, Sizes DEF Piece

\* An offset that fits is the end of a piece (Resume).
LEMMA OffsetsEndPieces ==
    ASSUME NEW off \in Nat, OffsetFits(off), off <= Size
    PROVE  off \in Ends
  <1>1. CASE off = Size
    BY <1>1, PlainEnds, ChunksCover DEF Ends
  <1>2. CASE off # Size /\ off % ChunkSize = 0
    <2> DEFINE k == off \div ChunkSize
    <2>1. k \in Nat /\ off = k * ChunkSize
      BY <1>2, Division, Sizes
    <2> HIDE DEF k
    <2>2. k < Chunks
      <3>1. CASE Chunks < k
        BY <2>1, <3>1, Multiples, ChunksCover, Sizes
      <3> QED BY <1>2, <2>1, <3>1, ChunksCover, Sizes
    <2>3. k \in Piece /\ PlainEnd(k) = off
      BY <2>1, <2>2, ChunksCover, PlainEnds DEF Piece
    <2> QED BY <2>3 DEF Ends
  <1> QED BY <1>1, <1>2 DEF OffsetFits

\* Lengths on disk go by the plaintext they hold.
LEMMA EndsGrow ==
    /\ Ends \subseteq 0 .. Size /\ 0 \in Ends /\ Size \in Ends
    /\ \A i \in Piece : End(i) \in Nat /\ HeaderSize <= End(i)
    /\ \A i \in Piece : \A e \in Ends :
         End(i) <= CipherLen(e) <=> PlainEnd(i) <= e
    /\ \A e \in Ends : CipherLen(e) \in Nat /\ HeaderSize <= CipherLen(e)
  <1>1. \A a \in Nat : CipherLen(a) \in Nat /\ HeaderSize <= CipherLen(a)
    BY CipherLenGrows
  <1>2. Ends \subseteq 0 .. Size /\ 0 \in Ends /\ Size \in Ends
    BY PlainEnds, ChunksCover DEF Ends
  <1>3. \A i \in Piece : PlainEnd(i) \in Nat
    BY PlainEnds
  <1>4. ASSUME NEW a \in Nat, NEW b \in Nat PROVE CipherLen(a) <= CipherLen(b) <=> a <= b
    BY CipherLenGrows, <1>1
  <1> QED BY <1>1, <1>2, <1>3, <1>4 DEF End

(***************************************************************************)
(* Files on disk                                                           *)
(***************************************************************************)

FileType == [len : Int, fresh : SUBSET Piece, bad : SUBSET Piece]

\* A file has no piece beyond its length.
FileOK(f) == f \in FileType /\ \A i \in f.fresh \cup f.bad : End(i) <= f.len

\* What record r names of file f, and f still holds, is flushed and right.
Kept(f, r) ==
    \A i \in Piece : r > 0 /\ PlainEnd(i) <= r /\ End(i) <= f.len
                       => i \notin f.fresh \cup f.bad

\* File f is no longer than the whole, and, if it is there, as long as what
\* record r names.
Covers(f, r) ==
    f = Absent \/ (f.len <= CipherLen(Size) /\ (r > 0 => CipherLen(r) <= f.len))

Whole == [len |-> CipherLen(Size), fresh |-> {}, bad |-> {}]

\* No file, and a whole one, hold what any record names; a record of nothing names nothing.
LEMMA PlainFiles ==
    /\ FileOK(Absent) /\ FileOK(Whole) /\ Absent # Whole
    /\ \A r \in Int : Kept(Absent, r) /\ Covers(Absent, r)
    /\ \A f : Kept(f, 0)
  <1>1. CipherLen(Size) \in Nat /\ \A i \in Piece : End(i) \in Nat
    BY EndsGrow
  <1>2. FileOK(Absent) /\ FileOK(Whole) /\ Absent # Whole
    BY <1>1 DEF FileOK, FileType, Absent, Whole
  <1>3. \A r \in Int : Kept(Absent, r) /\ Covers(Absent, r)
    BY <1>1 DEF Kept, Covers, Absent
  <1>4. \A f : Kept(f, 0)
    BY DEF Kept
  <1> QED BY <1>2, <1>3, <1>4

\* A lower record names less.
LEMMA LowerRecord ==
    ASSUME NEW f, NEW r \in Int, NEW s \in Int, s <= r, Kept(f, r)
    PROVE  Kept(f, s)
  <1>1. \A i \in Piece : PlainEnd(i) \in Int
    BY PlainEnds
  <1> QED BY <1>1 DEF Kept

\* A file that ends where plaintext s does is as long as any record up to s.
LEMMA EndCovers ==
    ASSUME NEW f, NEW s \in Ends, f.len = CipherLen(s), NEW r \in Ends, r <= s
    PROVE  Covers(f, r)
  <1>1. r \in Nat /\ s \in Nat /\ s <= Size /\ Size \in Nat
    BY EndsGrow, Sizes
  <1>2. CipherLen(r) <= CipherLen(s) /\ CipherLen(s) <= CipherLen(Size)
    BY <1>1, CipherLenOrder
  <1> QED BY <1>2 DEF Covers

\* Received, of file f and record r.
HeldIn(f, r) ==
    IF f.len < HeaderSize \/ 0 \in f.bad THEN 0 ELSE durable(r, plainLen(f.len))

\* A part that is as long as its record says, and right that far, holds what
\* the record names: no less and no more (durable).
LEMMA HeldIsRecorded ==
    ASSUME NEW f, FileOK(f), NEW r \in Ends, Kept(f, r), Covers(f, r)
    PROVE  HeldIn(f, r) = IF f = Absent THEN 0 ELSE r
  <1> DEFINE h == plainLen(f.len)
  <1>1. f.len \in Int /\ r \in Nat /\ r <= Size /\ CipherLen(r) \in Nat
        /\ CipherLen(Size) \in Nat
    BY EndsGrow, Sizes DEF FileOK, FileType
  <1>2. CASE f = Absent
    BY <1>2, Sizes DEF HeldIn, Absent
  <1>3. h \in Nat /\ \A n \in Nat \ {0} : n <= h => CipherLen(n) <= f.len
    BY <1>1, PlainLenFits
  <1>4. CASE f # Absent /\ r = 0
    <2> HIDE DEF h
    <2>1. Min({r, h}) = 0
      BY <1>3, <1>4, OrderedTwo
    <2>2. 0 * ChunkSize = 0
      BY Sizes
    <2>3. (0 \div ChunkSize) * ChunkSize = 0
      <3>1. (0 * ChunkSize + 0) \div ChunkSize = 0
        BY Sizes, Quotient
      <3> QED BY <2>2, <3>1
    <2>4. durable(r, h) = 0
      BY <1>4, <2>1, <2>3 DEF durable
    <2> QED BY <1>4, <2>4 DEF HeldIn, h
  <1>5. CASE f # Absent /\ r > 0
    <2>1. CipherLen(r) <= f.len /\ f.len <= CipherLen(Size)
      BY <1>5 DEF Covers
    <2>2. r <= h
      BY <1>1, <2>1, PlainLenHolds
    <2>3. HeaderSize <= f.len
      BY <1>1, <2>1, EndsGrow, Sizes
    <2>4. 0 \notin f.bad
      BY <1>1, <1>5, <2>3, ChunksCover, PlainEnds, CipherLenOfNothing DEF Kept, End
    <2>5. PICK k \in Piece : r = PlainEnd(k)
      BY DEF Ends
    <2> HIDE DEF h
    <2>6. CASE r = Size
      <3>1. ~(Size < h)
        <4>1. ASSUME Size < h PROVE FALSE
          <5>1. CipherLen(Size) < CipherLen(h) /\ CipherLen(h) \in Nat
            BY <1>3, <4>1, CipherLenGrows, Sizes
          <5>2. CipherLen(h) <= f.len
            BY <1>3, <4>1, Sizes
          <5> QED BY <1>1, <2>1, <5>1, <5>2
        <4> QED BY <4>1
      <3>2. h = Size
        BY <1>3, <2>2, <2>6, <3>1, Sizes
      <3> QED BY <1>5, <2>3, <2>4, <2>6, <3>2, <1>1, Sizes DEF HeldIn, durable, h
    <2>7. CASE r < Size
      <3>1. r \div ChunkSize = k /\ r = k * ChunkSize
        <4>1. r \div ChunkSize = k
          BY <2>5, <2>7, NextChunk
        <4>2. k < Chunks
          BY <2>5, <2>7, ChunksCover, PlainEnds DEF Piece
        <4> QED BY <2>5, <4>1, <4>2, PlainEnds
      <3>2. Min({r, h}) = r
        <4>1. r \in Int /\ h \in Int
          BY <1>1, <1>3
        <4> QED BY <2>2, <4>1, OrderedTwo
      <3>3. durable(r, h) = r
        BY <3>1, <3>2 DEF durable
      <3> QED BY <1>1, <1>5, <2>3, <2>4, <3>3, Sizes DEF HeldIn, h
    <2> QED BY <1>1, <2>6, <2>7, Sizes
  <1> QED BY <1>1, <1>2, <1>4, <1>5

\* What is told is no more than the record says, and the part is long enough
\* for it (Received).
LEMMA ReceivedFits ==
    ASSUME rec \in Nat, part.len \in Int
    PROVE  /\ Received \in Nat /\ Received <= rec
           /\ Received > 0 => HeaderSize <= part.len
           /\ \A p \in Nat \ {0} : p <= Received => CipherLen(p) <= part.len
  <1> DEFINE held == plainLen(part.len)
             low == Min({rec, held})
             q == low \div ChunkSize
             r == low % ChunkSize
  <1>1. held \in Nat /\ \A p \in Nat \ {0} : p <= held => CipherLen(p) <= part.len
    BY PlainLenFits
  <1> HIDE DEF held
  <1>2. low \in Nat /\ low <= rec /\ low <= held
    BY <1>1, MinOfTwo
  <1> HIDE DEF low
  <1>3. q \in Nat /\ r \in 0 .. ChunkSize - 1 /\ low = q * ChunkSize + r
    BY <1>2, Division, Sizes
  <1>4. durable(rec, held) = IF rec = held THEN held ELSE q * ChunkSize
    BY DEF durable, low
  <1> HIDE DEF q, r
  <1>5. q * ChunkSize \in Nat
    BY <1>3, Sizes
  <1>6. durable(rec, held) \in Nat /\ durable(rec, held) <= rec /\ durable(rec, held) <= held
    BY <1>1, <1>2, <1>3, <1>4, <1>5, Sizes
  <1>7. \/ Received = 0
        \/ Received = durable(rec, held) /\ HeaderSize <= part.len
    BY Sizes DEF Received, held
  <1>8. Received \in Nat /\ Received <= rec /\ Received <= held
    BY <1>1, <1>6, <1>7
  <1> QED BY <1>1, <1>7, <1>8

\* Cutting a file loses pieces and makes none (Truncate).
LEMMA CutFile ==
    ASSUME NEW f, FileOK(f), NEW n \in Nat, n <= f.len, NEW r \in Int, Kept(f, r)
    PROVE  /\ FileOK(Truncate(f, n)) /\ Kept(Truncate(f, n), r)
           /\ Truncate(f, n).len = n /\ Truncate(f, n).bad = {i \in f.bad : End(i) <= n}
  <1> DEFINE g == Truncate(f, n)
  <1>1. \A i \in Piece : End(i) \in Int
    BY EndsGrow
  <1>2. f.fresh \subseteq Piece /\ f.bad \subseteq Piece /\ f.len \in Int
    BY DEF FileOK, FileType
  <1>3. g.len = n /\ g.fresh = {i \in f.fresh : End(i) <= n}
        /\ g.bad = {i \in f.bad : End(i) <= n}
    BY <1>1, <1>2 DEF Truncate
  <1>4. g \in FileType
    BY <1>2 DEF Truncate, FileType
  <1> HIDE DEF g
  <1>5. FileOK(g)
    BY <1>3, <1>4 DEF FileOK
  <1>6. Kept(g, r)
    BY <1>1, <1>2, <1>3 DEF Kept
  <1> QED BY <1>3, <1>5, <1>6 DEF g

\* A cut at the record leaves only what the record names, all of it right.
LEMMA CutAtRecord ==
    ASSUME NEW f, FileOK(f), NEW r \in Ends, r > 0, CipherLen(r) <= f.len, Kept(f, r)
    PROVE  Truncate(f, CipherLen(r)).bad = {}
  <1>1. CipherLen(r) \in Nat /\ \A i \in Piece : End(i) <= CipherLen(r) <=> PlainEnd(i) <= r
    BY EndsGrow
  <1>2. r \in Int /\ \A i \in Piece : PlainEnd(i) \in Int /\ End(i) \in Int
    BY EndsGrow, PlainEnds
  <1>3. Truncate(f, CipherLen(r)).bad = {i \in f.bad : End(i) <= CipherLen(r)}
    BY <1>1, <1>2, CutFile
  <1>4. f.bad \subseteq Piece /\ f.len \in Int
    BY DEF FileOK, FileType
  <1>5. ASSUME NEW i \in f.bad, End(i) <= CipherLen(r) PROVE FALSE
    BY <1>1, <1>2, <1>4, <1>5 DEF Kept
  <1> QED BY <1>3, <1>5

\* A new part is its header (ResumeCuts at offset 0).
LEMMA NewPart ==
    LET f == WritePiece(Truncate(Absent, 0), 0) IN
    FileOK(f) /\ f.len = CipherLen(0) /\ f.bad = {}
  <1> DEFINE e == Truncate(Absent, 0)
             f == WritePiece(e, 0)
  <1>1. 0 \in Piece /\ End(0) = CipherLen(0) /\ End(0) \in Nat
        /\ \A i \in Piece : End(i) \in Nat /\ End(i) > 0
    BY EndsGrow, PlainEnds, ChunksCover, Sizes DEF End
  <1>2. e = [len |-> 0, fresh |-> {}, bad |-> {}]
    BY <1>1 DEF Truncate, Absent
  <1> HIDE DEF e
  <1>3. f.len = End(0) /\ f.fresh = {0} /\ f.bad = {}
    <2>1. Max({0, End(0)}) = End(0)
      BY <1>1, OrderedTwo
    <2>2. {j \in 0 .. 0 - 1 : End(j) > e.len} = {}
      OBVIOUS
    <2> QED BY <1>2, <2>1, <2>2 DEF WritePiece
  <1>4. f \in FileType
    BY <1>1, <1>3 DEF WritePiece, FileType
  <1> HIDE DEF f
  <1>5. FileOK(f)
    BY <1>1, <1>3, <1>4 DEF FileOK
  <1> QED BY <1>1, <1>3, <1>5 DEF f, e

\* The next chunk written where the part ends, past what the record names (receive).
LEMMA WriteNext ==
    ASSUME NEW f, FileOK(f), f.bad = {}, NEW k \in Piece, PlainEnd(k) < Size, f.len = End(k),
           NEW r \in Int, r <= PlainEnd(k), Kept(f, r)
    PROVE  /\ k + 1 \in Piece /\ PlainEnd(k) < PlainEnd(k + 1)
           /\ FileOK(WritePiece(f, k + 1)) /\ Kept(WritePiece(f, k + 1), r)
           /\ WritePiece(f, k + 1).len = End(k + 1) /\ WritePiece(f, k + 1).bad = {}
  <1> DEFINE i == k + 1
             g == WritePiece(f, i)
  <1>1. i \in Piece /\ k \in Nat /\ k < i
    BY NextChunk, ChunksCover DEF Piece
  <1>2. \A j \in Piece : End(j) \in Nat /\ PlainEnd(j) \in Nat
    BY EndsGrow, PlainEnds
  <1>3. \A j, l \in Piece : j < l => PlainEnd(j) < PlainEnd(l) /\ End(j) < End(l)
    BY <1>2, PlainEnds, CipherLenGrows DEF End
  <1>4. \A j \in 0 .. i - 1 : j \in Piece /\ End(j) <= End(k)
    <2>1. \A j \in 0 .. i - 1 : j \in Piece /\ (j = k \/ j < k)
      BY <1>1, ChunksCover DEF Piece
    <2> QED BY <1>2, <1>3, <2>1
  <1> HIDE DEF i
  <1>5. Max({f.len, End(i)}) = End(i)
    BY <1>1, <1>2, <1>3, MinOfTwo
  <1>6. {j \in 0 .. i - 1 : End(j) > f.len} = {}
    <2>1. ASSUME NEW j \in 0 .. i - 1, End(j) > f.len PROVE FALSE
      BY <1>2, <1>4, <2>1
    <2> QED BY <2>1
  <1>7. g.len = End(i) /\ g.fresh = f.fresh \cup {i} /\ g.bad = {}
    BY <1>5, <1>6 DEF WritePiece
  <1>8. f.fresh \subseteq Piece /\ f.len \in Int
    BY DEF FileOK, FileType
  <1>9. g \in FileType
    BY <1>1, <1>2, <1>5, <1>7, <1>8 DEF WritePiece, FileType
  <1> HIDE DEF g
  <1>10. FileOK(g)
    <2>1. \A j \in f.fresh : End(j) <= f.len
      BY DEF FileOK
    <2>2. f.len < End(i)
      BY <1>1, <1>3
    <2>3. ASSUME NEW j \in g.fresh \cup g.bad PROVE End(j) <= g.len
      <3>1. j \in f.fresh \/ j = i
        BY <1>7, <2>3
      <3>2. j \in f.fresh => End(j) <= f.len /\ End(j) \in Nat
        BY <1>2, <1>8, <2>1
      <3>3. End(i) \in Nat /\ f.len \in Int /\ g.len = End(i) /\ f.len < End(i)
        BY <1>1, <1>2, <1>7, <1>8, <2>2
      <3>4. CASE j = i
        BY <3>3, <3>4
      <3>5. CASE j \in f.fresh
        BY <3>2, <3>3, <3>5
      <3> QED BY <3>1, <3>4, <3>5
    <2> QED BY <1>9, <2>3 DEF FileOK
  <1>11. Kept(g, r)
    <2>1. ASSUME NEW j \in Piece, r > 0, PlainEnd(j) <= r, j \in g.fresh \cup g.bad
          PROVE  FALSE
      <3>1. PlainEnd(j) < PlainEnd(i)
        BY <1>1, <1>2, <1>3, <2>1
      <3>2. j \in f.fresh /\ End(j) <= f.len
        BY <1>2, <1>7, <2>1, <3>1 DEF FileOK
      <3> QED BY <2>1, <3>2 DEF Kept
    <2> QED BY <2>1 DEF Kept
  <1> QED BY <1>1, <1>3, <1>7, <1>10, <1>11 DEF i, g

\* A flush changes no length and leaves nothing to lose (Sync).
LEMMA FlushFile ==
    ASSUME NEW f, FileOK(f), NEW r \in Int, Kept(f, r)
    PROVE  /\ FileOK(Flush(f)) /\ Kept(Flush(f), r)
           /\ Flush(f).len = f.len /\ Flush(f).fresh = {} /\ Flush(f).bad = f.bad
  <1>1. Flush(f).len = f.len /\ Flush(f).fresh = {} /\ Flush(f).bad = f.bad
        /\ Flush(f) \in FileType
    BY DEF Flush, FileOK, FileType
  <1> QED BY <1>1 DEF FileOK, Kept

\* Whatever a power loss leaves of a file, what the record names of it is right,
\* and what was flushed is left as it is (Crash).
LEMMA SurvivorsKeep ==
    ASSUME NEW f, FileOK(f), NEW r \in Ends, Kept(f, r), Covers(f, r), NEW g \in Survivors(f)
    PROVE  /\ FileOK(g) /\ Kept(g, r) /\ Covers(g, r)
           /\ f.fresh = {} => g = f
           /\ g = Absent <=> f = Absent
  <1>1. CASE f.fresh = {}
    BY <1>1 DEF Survivors
  <1>2. CASE f.fresh # {}
    <2>1. PICK n \in SafeLen(f) .. f.len, lost \in SUBSET f.fresh :
            g = [len |-> n, fresh |-> {}, bad |-> {i \in f.bad \cup lost : End(i) <= n}]
      BY <1>2 DEF Survivors
    <2>2. n \in Int /\ n <= f.len
      OBVIOUS
    <2>3. f.fresh \subseteq Piece /\ f.bad \subseteq Piece /\ f.len \in Int
          /\ r \in Nat /\ \A i \in Piece : End(i) \in Int
      BY EndsGrow, Sizes DEF FileOK, FileType
    <2>4. FileOK(g)
      BY <2>1, <2>2, <2>3 DEF FileOK, FileType
    <2>5. Kept(g, r)
      BY <2>1, <2>2, <2>3 DEF Kept
    <2>6. f # Absent /\ f.len <= CipherLen(Size) /\ (r > 0 => CipherLen(r) <= f.len)
      BY <1>2 DEF Covers, Absent
    <2>7. SafeLen(f) \in Nat /\ (r > 0 => CipherLen(r) <= SafeLen(f))
      <3> DEFINE W == {j \in Piece : End(j) <= f.len /\ j \notin f.fresh}
                 T == {0} \cup {End(i) : i \in W}
      <3>1. T \in SUBSET 0 .. CipherLen(Size) /\ T # {} /\ CipherLen(Size) \in Nat
        <4>1. CipherLen(Size) \in Nat /\ \A i \in W : End(i) \in Nat
          BY EndsGrow
        <4>2. \A i \in W : End(i) <= CipherLen(Size)
          BY <2>3, <2>6, <4>1
        <4> QED BY <4>1, <4>2
      <3>2. SafeLen(f) = Max(T)
        BY DEF SafeLen
      <3>3. r > 0 => CipherLen(r) \in T
        <4>1. PICK k \in Piece : r = PlainEnd(k)
          BY DEF Ends
        <4>2. r > 0 => k \in W
          BY <2>3, <2>6, <4>1 DEF Kept, End
        <4>3. CipherLen(r) = End(k)
          BY <4>1 DEF End
        <4> QED BY <4>2, <4>3
      <3>4. \A m \in T : m \in Nat
        BY <3>1
      <3> HIDE DEF T, W
      <3>5. Max(T) \in T /\ \A m \in T : m <= Max(T)
        BY <3>1, LargestOfBounded
      <3> QED BY <3>2, <3>3, <3>4, <3>5
    <2>8. CipherLen(r) \in Nat /\ CipherLen(Size) \in Nat
      BY EndsGrow
    <2>9. SafeLen(f) <= n /\ g.len = n
      BY <2>1, <2>7
    <2>10. Covers(g, r)
      BY <2>2, <2>3, <2>6, <2>7, <2>8, <2>9 DEF Covers
    <2>11. g # Absent
      BY <2>2, <2>7, <2>9 DEF Absent
    <2> QED BY <1>2, <2>4, <2>5, <2>6, <2>10, <2>11
  <1> QED BY <1>1, <1>2

(***************************************************************************)
(* The inductive invariant                                                 *)
(***************************************************************************)

\* The rows that stand for bytes.
Alive == {"declared", "uploaded", "bound"}

Stages ==
    {"idle", "sent", "taking", "held", "cutting", "receiving", "sync", "recording",
     "renaming", "dropping", "committing", "leaving", "thanked"}

PutType ==
    [stage : Stages, off : Nat, live : BOOLEAN, sealed : Nat, synced : Nat, since : Nat,
     stop : {"no", "asked", "heard"}, then : {"none", "receiving", "leaving", "renaming"}]

ClientType ==
    [st : {"rest", "asking", "ticket", "sending", "done"}, off : Nat, live : BOOLEAN]

UploadTypeOK ==
    /\ row \in Alive \cup {"none", "gone", "lost"} /\ old \in BOOLEAN
    /\ past \subseteq {"declared", "uploaded", "lost"}
    /\ srv \in {"down", "sweeping", "up"} /\ todo \subseteq {"file", "part", "record"}
    /\ put \in [Put -> PutType]
    /\ active \in Put \cup {None} /\ asked \in {"no", "waiting"}
    /\ client \in ClientType

\* What the record names is whole and flushed, or no longer there at all.
PartInv == FileOK(part) /\ rec \in Ends /\ Kept(part, rec) /\ Covers(part, rec)

\* The stages of a request that fills the part.
Filling == {"cutting", "receiving", "sync", "recording", "renaming"}

\* A request that has redeemed its token has a row, and thanks nobody for less
\* than an uploaded file.
RowOf(t, r) ==
    /\ t.stage \notin {"idle", "sent"} => r \in Alive
    /\ t.stage \in Filling => r = "declared"
    /\ t.stage = "thanked" => r \in {"uploaded", "bound"}

\* What a writer holds in memory of part f and record r is what is on disk.
DiskOf(t, f, r) ==
    /\ t.stage = "cutting" =>
         /\ t.off \in Ends /\ r = t.off /\ t.sealed = t.off /\ t.synced = t.off
         /\ t.off > 0 => CipherLen(t.off) <= f.len
    /\ t.stage \in {"receiving", "sync", "recording", "renaming"} =>
         /\ t.sealed \in Ends /\ f.len = CipherLen(t.sealed) /\ f.bad = {}
         /\ t.synced = r /\ r <= t.sealed /\ t.off \in Ends /\ t.off <= t.sealed
    /\ t.stage \in {"sync", "recording"} => t.then # "none"
    /\ t.stage = "recording" => t.then # "renaming"
    /\ t.stage \in {"recording", "renaming"} => f.fresh = {}
    /\ t.stage = "renaming" \/ (t.stage = "sync" /\ t.then = "renaming") => t.sealed = Size
    /\ t.stage = "dropping" => f = Absent

\* Before the rename there is no file, and past it the whole one.
FileOf(t, g) ==
    /\ t.stage \in Filling => g = Absent
    /\ t.stage \in {"dropping", "committing"} => g = Whole

RequestOK(t, r, f, c, g) == RowOf(t, r) /\ DiskOf(t, f, c) /\ FileOf(t, g)

\* A request past take holds the part.
Writes(t) == t.stage \notin {"idle", "sent", "taking"}

WriterInv ==
    \A q \in Put : RequestOK(put[q], row, part, rec, file) /\ (Writes(put[q]) => active = q)

\* The finished bytes are the whole file or none, and go with the row - the one a
\* power loss may bring back too, of which only the sweep removes the bytes.
RowInv ==
    /\ file \in {Absent, Whole}
    /\ row \in {"none", "gone"} => part = Absent /\ file = Absent /\ rec = 0
    /\ row = "uploaded" => file = Whole \/ (old /\ srv # "up")
    /\ row = "bound" => file = Whole
    /\ "uploaded" \in past \/ client.st = "done" => file = Whole \/ old

\* Nobody writes or asks while the endpoints are closed, and the sweep is as far
\* with the bytes as it says.
ServerInv ==
    /\ srv # "up" => /\ \A q \in Put : put[q].stage = "idle"
                     /\ active = None /\ asked = "no" /\ client.st \in {"rest", "done"}
    /\ srv = "sweeping" => /\ Orphan
                           /\ "file" \in todo \/ file = Absent
                           /\ "part" \in todo \/ part = Absent
                           /\ "record" \in todo \/ rec = 0

UploadInv == UploadTypeOK /\ PartInv /\ WriterInv /\ RowInv /\ ServerInv

(***************************************************************************)
(* Requests                                                                *)
(***************************************************************************)

\* The numbers and types a step reads.
LEMMA UploadTypes ==
    ASSUME UploadInv
    PROVE  /\ rec \in Nat /\ rec \in Ends /\ part.len \in Int /\ None \notin Put
           /\ \A q \in Put : put[q] \in PutType
           /\ \A e \in Ends : e \in Nat /\ e <= Size /\ CipherLen(e) \in Nat
           /\ finished => file = Whole
  <1>1. \A e \in Ends : e \in Nat /\ e <= Size /\ CipherLen(e) \in Nat
    BY EndsGrow, Sizes
  <1>2. finished => file = Whole
    <2>1. CipherLen(Size) \in Nat
      BY EndsGrow
    <2> QED BY <2>1 DEF UploadInv, RowInv, finished, Absent
  <1> QED BY <1>1, <1>2, UploadAssumption DEF UploadInv, UploadTypeOK, PartInv, FileOK, FileType

\* A request that writes nothing asks nothing of the disk.
LEMMA QuietRequest ==
    ASSUME NEW t, t.stage \in {"idle", "sent", "taking", "held", "leaving", "thanked"},
           NEW f, NEW c, NEW g
    PROVE  DiskOf(t, f, c) /\ FileOf(t, g) /\ t.stage \notin Filling
  BY DEF DiskOf, FileOf, Filling

\* What is asked of a request depends on its stage and its numbers only, not on
\* its token or on who told it to stop.
LEMMA LikeRequest ==
    ASSUME NEW t, NEW u, u.stage = t.stage, u.off = t.off, u.sealed = t.sealed,
           u.synced = t.synced, u.then = t.then,
           NEW r, NEW f, NEW c, NEW g, RequestOK(t, r, f, c, g)
    PROVE  RequestOK(u, r, f, c, g) /\ (Writes(u) <=> Writes(t))
  BY DEF RequestOK, RowOf, DiskOf, FileOf, Writes

\* A step of one request keeps what is asked of every other: only the writer
\* touches the disk.
LEMMA OneRequest ==
    ASSUME UploadInv, NEW p \in Put, NEW t \in PutType,
           put' = [put EXCEPT ![p] = t],
           RequestOK(t, row', part', rec', file'), Writes(t) => active' = p,
           \A q \in Put : q # p /\ Writes(put[q]) => active' = q,
           row \in Alive => row' \in Alive,
           UNCHANGED <<row, diskVars>> \/ Writes(put[p])
    PROVE  WriterInv' /\ put' \in [Put -> PutType]
  <1>1. put \in [Put -> PutType] /\ put' \in [Put -> PutType]
        /\ put'[p] = t /\ \A q \in Put : q # p => put'[q] = put[q]
    BY DEF UploadInv, UploadTypeOK
  <1>2. ASSUME NEW q \in Put, q # p
        PROVE  RequestOK(put[q], row', part', rec', file') /\ (Writes(put[q]) => active' = q)
    <2>1. RequestOK(put[q], row, part, rec, file) /\ (Writes(put[q]) => active = q)
          /\ (Writes(put[p]) => active = p)
      BY DEF UploadInv, WriterInv
    <2>2. CASE Writes(put[p])
      <3>1. ~Writes(put[q])
        BY <1>2, <2>1, <2>2
      <3>2. put[q].stage \in {"idle", "sent", "taking"}
        BY <3>1 DEF Writes
      <3>3. DiskOf(put[q], part', rec') /\ FileOf(put[q], file') /\ put[q].stage \notin Filling
        BY <3>2, QuietRequest
      <3>4. RowOf(put[q], row')
        BY <2>1, <3>2, <3>3 DEF RequestOK, RowOf
      <3> QED BY <3>1, <3>3, <3>4 DEF RequestOK
    <2>3. CASE UNCHANGED <<row, diskVars>>
      BY <1>2, <2>1, <2>3 DEF RequestOK, diskVars
    <2> QED BY <2>2, <2>3
  <1> QED BY <1>1, <1>2 DEF WriterInv

\* A step that leaves every request where it is, and the disk and the row alone.
LEMMA NoRequest ==
    ASSUME UploadInv, UNCHANGED <<row, diskVars, active>>, put' \in [Put -> PutType],
           \A q \in Put : /\ put'[q].stage = put[q].stage /\ put'[q].off = put[q].off
                          /\ put'[q].sealed = put[q].sealed /\ put'[q].synced = put[q].synced
                          /\ put'[q].then = put[q].then
    PROVE  WriterInv'
  <1>1. ASSUME NEW q \in Put
        PROVE  RequestOK(put'[q], row', part', rec', file') /\ (Writes(put'[q]) => active' = q)
    <2>1. RequestOK(put[q], row, part, rec, file) /\ (Writes(put[q]) => active = q)
      BY DEF UploadInv, WriterInv
    <2>2. RequestOK(put'[q], row, part, rec, file) /\ (Writes(put'[q]) <=> Writes(put[q]))
      BY <2>1, LikeRequest
    <2> QED BY <2>1, <2>2 DEF diskVars
  <1> QED BY <1>1 DEF WriterInv

\* A request under way means that the endpoints are open, and that it has a row.
LEMMA UnderWay ==
    ASSUME UploadInv, NEW p \in Put, put[p].stage # "idle"
    PROVE  /\ srv = "up"
           /\ put[p].stage # "sent" => row \in Alive
           /\ Writes(put[p]) => active = p
           /\ RequestOK(put[p], row, part, rec, file)
  BY DEF UploadInv, ServerInv, WriterInv, RequestOK, RowOf

\* A step of a request that leaves the disk and the row alone.
LEMMA RequestStep ==
    ASSUME UploadInv, NEW p \in Put, put[p].stage # "idle", NEW t \in PutType,
           put' = [put EXCEPT ![p] = t],
           UNCHANGED <<serverVars, diskVars, asked>>,
           RequestOK(t, row, part, rec, file), Writes(t) => active' = p,
           active' \in Put \cup {None},
           \A q \in Put : q # p /\ Writes(put[q]) => active' = q,
           client' = client \/ \E s \in {"rest", "done"} : client' = [client EXCEPT !.st = s],
           client'.st = "done" => client.st = "done" \/ row \in {"uploaded", "bound"}
    PROVE  UploadInv'
  <1>1. srv = "up" /\ UNCHANGED <<row, past, old, srv, todo, part, file, rec>>
    BY UnderWay DEF serverVars, diskVars
  <1>2. RequestOK(t, row', part', rec', file')
    BY <1>1
  <1>3. WriterInv' /\ put' \in [Put -> PutType]
    BY <1>1, <1>2, OneRequest
  <1>4. client' \in ClientType
    BY DEF UploadInv, UploadTypeOK, ClientType
  <1>5. UploadTypeOK'
    BY <1>1, <1>3, <1>4 DEF UploadInv, UploadTypeOK
  <1>6. PartInv' /\ ServerInv'
    BY <1>1 DEF UploadInv, PartInv, ServerInv
  <1>7. RowInv'
    BY <1>1 DEF UploadInv, RowInv
  <1> QED BY <1>3, <1>5, <1>6, <1>7 DEF UploadInv

\* A step of the writer on the disk or the row.
LEMMA WriterStep ==
    ASSUME UploadInv, NEW p \in Put, Writes(put[p]), NEW t \in PutType,
           put' = [put EXCEPT ![p] = t],
           UNCHANGED <<old, srv, todo, active, asked, client>>,
           FileOK(part'), rec' \in Ends, Kept(part', rec'), Covers(part', rec'),
           file' \in {Absent, Whole}, file = Whole => file' = Whole,
           past' = past \/ (row = "declared" /\ past' = past \cup {"declared"}),
           row' \in Alive, row \in {"uploaded", "bound"} => row' = row,
           row' \in {"uploaded", "bound"} => file' = Whole,
           RequestOK(t, row', part', rec', file')
    PROVE  UploadInv'
  <1>1. put[p].stage # "idle"
    BY DEF Writes
  <1>2. srv = "up" /\ row \in Alive /\ active = p
    BY <1>1, UnderWay DEF Writes
  <1>3. \A q \in Put : q # p /\ Writes(put[q]) => active' = q
    BY DEF UploadInv, WriterInv
  <1>4. WriterInv' /\ put' \in [Put -> PutType]
    BY <1>2, <1>3, OneRequest
  <1>5. UploadTypeOK'
    BY <1>4 DEF UploadInv, UploadTypeOK
  <1>6. PartInv' /\ ServerInv'
    BY <1>2 DEF UploadInv, PartInv, ServerInv
  <1>7. RowInv'
    BY <1>2 DEF UploadInv, RowInv, Alive
  <1> QED BY <1>4, <1>5, <1>6, <1>7 DEF UploadInv

(***************************************************************************)
(* Steps that write nothing                                                *)
(***************************************************************************)

\* A request that is over.
LEMMA IdleRequest ==
    /\ Idle \in PutType /\ ~Writes(Idle)
    /\ \A r, f, c, g : RequestOK(Idle, r, f, c, g)
  BY QuietRequest DEF Idle, PutType, Stages, Writes, RequestOK, RowOf

\* Nor does any other that rests.
LEMMA RestingRequest ==
    ASSUME NEW t, t.stage = "idle", NEW r, NEW f, NEW c, NEW g
    PROVE  RequestOK(t, r, f, c, g) /\ ~Writes(t)
  <1>1. DiskOf(t, f, c) /\ FileOf(t, g) /\ t.stage \notin Filling
    BY QuietRequest
  <1> QED BY <1>1 DEF RequestOK, RowOf, Writes

\* A stage is a field of its own.
LEMMA NextStage ==
    ASSUME UploadInv, NEW p \in Put, NEW s \in Stages, Goes(p, s)
    PROVE  \E t \in PutType :
             /\ put' = [put EXCEPT ![p] = t] /\ t = [put[p] EXCEPT !.stage = s]
             /\ t.stage = s /\ t.off = put[p].off /\ t.sealed = put[p].sealed
             /\ t.synced = put[p].synced /\ t.then = put[p].then
  <1> DEFINE t == [put[p] EXCEPT !.stage = s]
  <1>1. put[p] \in PutType
    BY UploadTypes
  <1>2. t \in PutType /\ t.stage = s /\ t.off = put[p].off /\ t.sealed = put[p].sealed
        /\ t.synced = put[p].synced /\ t.then = put[p].then
    BY <1>1 DEF PutType
  <1>3. put' = [put EXCEPT ![p] = t]
    BY DEF Goes
  <1> QED BY <1>2, <1>3

\* A request redeems its token, or is refused.
LEMMA PutArrivesKeeps ==
    ASSUME UploadInv, NEW p \in Put, PutArrives(p)
    PROVE  UploadInv'
  <1>1. put[p] \in PutType /\ put[p].stage = "sent" /\ active \in Put \cup {None}
        /\ \A q \in Put : Writes(put[q]) => active = q
    BY UploadTypes DEF PutArrives, UploadInv, UploadTypeOK, WriterInv
  <1>2. UNCHANGED <<serverVars, diskVars, active, asked>>
    BY DEF PutArrives
  <1>3. CASE row \in Alive /\ put' = [put EXCEPT ![p].stage = "taking", ![p].live = FALSE]
             /\ client' = client
    <2> DEFINE t == [put[p] EXCEPT !.stage = "taking", !.live = FALSE]
    <2>1. t \in PutType /\ t.stage = "taking" /\ put' = [put EXCEPT ![p] = t]
      BY <1>1, <1>3 DEF PutType, Stages
    <2> HIDE DEF t
    <2>2. RequestOK(t, row, part, rec, file) /\ ~Writes(t)
      BY <1>3, <2>1, QuietRequest DEF RequestOK, RowOf, Writes
    <2> QED BY <1>1, <1>2, <1>3, <2>1, <2>2, RequestStep
  <1>4. CASE put' = [put EXCEPT ![p] = Idle] /\ Answered(p, FALSE)
    <2>1. client' = client \/ client' = [client EXCEPT !.st = "rest"]
      BY <1>4 DEF Answered
    <2>2. client'.st = "done" => client.st = "done"
      BY <2>1 DEF UploadInv, UploadTypeOK, ClientType
    <2> QED BY <1>1, <1>2, <1>4, <2>1, <2>2, RequestStep, IdleRequest
  <1> QED BY <1>3, <1>4 DEF PutArrives, Alive

\* A request takes the part that nobody holds.
LEMMA TakeKeeps ==
    ASSUME UploadInv, NEW p \in Put, Take(p)
    PROVE  UploadInv'
  <1>1. put[p].stage = "taking" /\ active = None /\ active' = p /\ Goes(p, "held")
        /\ UNCHANGED <<serverVars, diskVars, asked, client>>
    BY DEF Take
  <1>2. PICK t \in PutType : put' = [put EXCEPT ![p] = t] /\ t.stage = "held"
    BY <1>1, NextStage DEF Stages
  <1>3. RequestOK(t, row, part, rec, file)
    <2>1. RowOf(t, row)
      BY <1>1, <1>2, UnderWay DEF RowOf, Filling
    <2>2. DiskOf(t, part, rec) /\ FileOf(t, file)
      BY <1>2, QuietRequest
    <2> QED BY <2>1, <2>2 DEF RequestOK
  <1>4. \A q \in Put : ~Writes(put[q])
    BY <1>1, UploadTypes DEF UploadInv, WriterInv
  <1> QED BY <1>1, <1>2, <1>3, <1>4, RequestStep

\* A request gives up waiting for the part.
LEMMA TakeGivesUpKeeps ==
    ASSUME UploadInv, NEW p \in Put, TakeGivesUp(p)
    PROVE  UploadInv'
  <1>1. put[p].stage = "taking" /\ put' = [put EXCEPT ![p] = Idle] /\ Answered(p, FALSE)
        /\ UNCHANGED <<serverVars, diskVars, active, asked>>
    BY DEF TakeGivesUp
  <1>2. client' = client \/ client' = [client EXCEPT !.st = "rest"]
    BY <1>1 DEF Answered
  <1>3. client'.st = "done" => client.st = "done"
    BY <1>2 DEF UploadInv, UploadTypeOK, ClientType
  <1>4. active \in Put \cup {None} /\ \A q \in Put : Writes(put[q]) => active = q
    BY DEF UploadInv, UploadTypeOK, WriterInv
  <1> QED BY <1>1, <1>2, <1>3, <1>4, RequestStep, IdleRequest

\* The handler returns and lets go of the part.
LEMMA ReleaseKeeps ==
    ASSUME UploadInv, NEW p \in Put, Release(p)
    PROVE  UploadInv'
  <1>1. put[p].stage \in {"leaving", "thanked"} /\ put' = [put EXCEPT ![p] = Idle]
        /\ Answered(p, put[p].stage = "thanked")
        /\ active' = (IF active = p THEN None ELSE active)
        /\ UNCHANGED <<serverVars, diskVars, asked>>
    BY DEF Release
  <1>2. Writes(put[p]) /\ put[p].stage # "idle"
    BY <1>1 DEF Writes
  <1>3. active = p /\ active' = None
    BY <1>1, <1>2, UnderWay
  <1>4. put[p].stage = "thanked" => row \in {"uploaded", "bound"}
    BY <1>2, UnderWay DEF RequestOK, RowOf
  <1>5. \/ client' = client
        \/ client' = [client EXCEPT !.st = IF put[p].stage = "thanked" THEN "done" ELSE "rest"]
    BY <1>1 DEF Answered
  <1>6. /\ client' = client \/ \E s \in {"rest", "done"} : client' = [client EXCEPT !.st = s]
        /\ client'.st = "done" => client.st = "done" \/ row \in {"uploaded", "bound"}
    BY <1>4, <1>5 DEF UploadInv, UploadTypeOK, ClientType
  <1>7. \A q \in Put : q # p => ~Writes(put[q])
    BY <1>3 DEF UploadInv, WriterInv
  <1> QED BY <1>1, <1>2, <1>3, <1>6, <1>7, RequestStep, IdleRequest

\* The stages a writer reaches without touching the disk: every byte is here
\* already, the offset does not fit, the disk refuses at an end.
LEMMA StagesKeep ==
    ASSUME UploadInv, NEW p \in Put,
           putFinished(p) \/ ResumeRefuses(p) \/ EndRefused(p)
    PROVE  UploadInv'
  <1> DEFINE s == IF putFinished(p)
                  THEN IF put[p].off < Size THEN "leaving"
                       ELSE IF row = "declared" THEN "committing" ELSE "thanked"
                  ELSE "leaving"
  <1>1. /\ put[p].stage \in Stages \ {"idle", "sent", "taking"}
        /\ Goes(p, s) /\ UNCHANGED <<serverVars, diskVars, active, asked, client>>
    BY DEF putFinished, ResumeRefuses, EndRefused, Stages
  <1>2. s \in {"leaving", "committing", "thanked"}
        /\ (s = "committing" => finished \/ row \in {"uploaded", "bound"})
        /\ (s = "committing" => row = "declared") /\ (s = "thanked" => row # "declared")
    BY DEF putFinished
  <1> HIDE DEF s
  <1>3. Writes(put[p]) /\ row \in Alive /\ active = p
    BY <1>1, UnderWay DEF Writes
  <1>4. PICK t \in PutType : put' = [put EXCEPT ![p] = t] /\ t.stage = s
    BY <1>1, <1>2, NextStage DEF Stages
  <1>5. RowOf(t, row) /\ DiskOf(t, part, rec)
    BY <1>2, <1>3, <1>4 DEF RowOf, DiskOf, Alive, Filling
  <1>6. FileOf(t, file)
    BY <1>2, <1>4, UploadTypes DEF FileOf, Filling
  <1>7. active \in Put \cup {None} /\ \A q \in Put : Writes(put[q]) => active = q
    BY DEF UploadInv, UploadTypeOK, WriterInv
  <1> QED BY <1>1, <1>3, <1>4, <1>5, <1>6, <1>7, RequestStep DEF RequestOK

\* The body ends or breaks off: what is sealed is to be flushed, if it is not.
LEMMA BodyKeeps ==
    ASSUME UploadInv, NEW p \in Put, BodyEnds(p) \/ Suspends(p)
    PROVE  UploadInv'
  <1>1. put[p] \in PutType /\ put[p].stage = "receiving"
        /\ UNCHANGED <<serverVars, diskVars, active, asked, client>>
    BY UploadTypes DEF BodyEnds, Suspends
  <1>2. Writes(put[p]) /\ row \in Alive /\ active = p /\ RequestOK(put[p], row, part, rec, file)
    BY <1>1, UnderWay DEF Writes
  <1>3. \E t \in PutType :
          /\ put' = [put EXCEPT ![p] = t]
          /\ t.off = put[p].off /\ t.sealed = put[p].sealed /\ t.synced = put[p].synced
          /\ \/ t.stage = "leaving"
             \/ t.stage = "sync" /\ t.then = "leaving"
             \/ t.stage = "sync" /\ t.then = "renaming" /\ put[p].sealed = Size
    <2>1. CASE BodyEnds(p)
      <3> DEFINE t == [put[p] EXCEPT !.stage = "sync", !.then = "renaming"]
      <3>1. t \in PutType /\ t.stage = "sync" /\ t.then = "renaming"
            /\ t.off = put[p].off /\ t.sealed = put[p].sealed /\ t.synced = put[p].synced
        BY <1>1 DEF PutType, Stages
      <3>2. put' = [put EXCEPT ![p] = t] /\ put[p].sealed = Size
        BY <2>1 DEF BodyEnds
      <3> QED BY <3>1, <3>2
    <2>2. CASE Suspends(p)
      <3>1. Checkpoint(p, "leaving") \in PutType
            /\ Checkpoint(p, "leaving").off = put[p].off
            /\ Checkpoint(p, "leaving").sealed = put[p].sealed
            /\ Checkpoint(p, "leaving").synced = put[p].synced
            /\ \/ Checkpoint(p, "leaving").stage = "leaving"
               \/ Checkpoint(p, "leaving").stage = "sync"
                  /\ Checkpoint(p, "leaving").then = "leaving"
        BY <1>1 DEF Checkpoint, PutType, Stages
      <3>2. put' = [put EXCEPT ![p] = Checkpoint(p, "leaving")]
        BY <2>2 DEF Suspends
      <3> QED BY <3>1, <3>2
    <2> QED BY <2>1, <2>2
  <1>4. PICK t \in PutType :
          /\ put' = [put EXCEPT ![p] = t]
          /\ t.off = put[p].off /\ t.sealed = put[p].sealed /\ t.synced = put[p].synced
          /\ \/ t.stage = "leaving"
             \/ t.stage = "sync" /\ t.then = "leaving"
             \/ t.stage = "sync" /\ t.then = "renaming" /\ put[p].sealed = Size
    BY <1>3
  <1>5. RowOf(t, row) /\ FileOf(t, file)
    BY <1>1, <1>2, <1>4 DEF RequestOK, RowOf, FileOf, Filling
  <1>6. DiskOf(t, part, rec)
    BY <1>1, <1>2, <1>4 DEF RequestOK, DiskOf
  <1>7. active \in Put \cup {None} /\ \A q \in Put : Writes(put[q]) => active = q
    BY DEF UploadInv, UploadTypeOK, WriterInv
  <1> QED BY <1>1, <1>2, <1>4, <1>5, <1>6, <1>7, RequestStep DEF RequestOK

(***************************************************************************)
(* Steps on the disk                                                       *)
(***************************************************************************)

\* Resume lowers the record: the offset is one the disk can serve.
LEMMA ResumeLowersKeeps ==
    ASSUME UploadInv, NEW p \in Put, ResumeLowers(p)
    PROVE  UploadInv'
  <1> DEFINE off == put[p].off
             t == [put[p] EXCEPT !.stage = "cutting", !.synced = rec', !.sealed = off]
  <1>1. put[p] \in PutType /\ put[p].stage = "held" /\ row = "declared"
        /\ OffsetFits(off) /\ off <= Received /\ rec' = Min({rec, off})
        /\ put' = [put EXCEPT ![p] = t]
        /\ UNCHANGED <<serverVars, part, file, active, asked, client>>
    BY UploadTypes DEF ResumeLowers, CanResume
  <1>2. off \in Nat /\ rec \in Nat /\ rec \in Ends /\ rec <= Size /\ part.len \in Int
    BY <1>1, UploadTypes DEF PutType
  <1> HIDE DEF off
  <1>3. Received \in Nat /\ Received <= rec
        /\ \A n \in Nat \ {0} : n <= Received => CipherLen(n) <= part.len
    BY <1>2, ReceivedFits
  <1>4. off <= rec /\ (off > 0 => CipherLen(off) <= part.len)
    BY <1>1, <1>2, <1>3
  <1>5. off \in Ends
    <2>1. off <= Size
      BY <1>2, <1>4, Sizes
    <2> QED BY <1>1, <1>2, <2>1, OffsetsEndPieces
  <1>6. rec' = off
    BY <1>1, <1>2, <1>4, OrderedTwo
  <1>7. t \in PutType /\ t.stage = "cutting" /\ t.off = off /\ t.synced = off /\ t.sealed = off
    BY <1>1, <1>2, <1>6 DEF PutType, Stages, off
  <1> HIDE DEF t
  <1>8. Kept(part, off) /\ FileOK(part) /\ Covers(part, off)
    BY <1>2, <1>4, LowerRecord DEF UploadInv, PartInv, Covers
  <1>9. RowOf(t, row) /\ DiskOf(t, part, off)
    BY <1>1, <1>4, <1>5, <1>7 DEF RowOf, DiskOf, Alive
  <1>13. FileOf(t, file)
    <2>1. file = Absent
      BY <1>1 DEF ResumeLowers, UploadInv, RowInv, finished, Whole
    <2> QED BY <1>7, <2>1 DEF FileOf
  <1>10. RequestOK(t, row', part', rec', file')
    BY <1>1, <1>6, <1>9, <1>13 DEF RequestOK, serverVars
  <1>11. file \in {Absent, Whole} /\ Writes(put[p])
    BY <1>1 DEF UploadInv, RowInv, Writes
  <1> QED BY <1>1, <1>5, <1>6, <1>7, <1>8, <1>10, <1>11, WriterStep DEF serverVars, Alive

\* What WriterStep asks of a step that leaves the row and the finished file alone.
LEMMA PartStep ==
    ASSUME UploadInv, NEW p \in Put, Writes(put[p]), NEW t \in PutType,
           put' = [put EXCEPT ![p] = t],
           UNCHANGED <<serverVars, file, active, asked, client>>,
           FileOK(part'), rec' \in Ends, Kept(part', rec'), DiskOf(t, part', rec'),
           \/ t.stage = "leaving" /\ Covers(part', rec')
           \/ t.stage \in Filling \ {"cutting"} /\ put[p].stage \in Filling
    PROVE  UploadInv'
  <1>1. srv = "up" /\ row \in Alive /\ RequestOK(put[p], row, part, rec, file)
    BY UnderWay DEF Writes
  <1>2. file \in {Absent, Whole} /\ (row \in {"uploaded", "bound"} => file = Whole)
    BY <1>1 DEF UploadInv, RowInv
  <1>3. RequestOK(t, row', part', rec', file')
    <2>1. CASE t.stage = "leaving"
      BY <1>1, <2>1, QuietRequest DEF RequestOK, RowOf, serverVars
    <2>2. CASE t.stage \in Filling /\ put[p].stage \in Filling
      BY <1>1, <2>2 DEF RequestOK, RowOf, FileOf, Filling, serverVars
    <2> QED BY <2>1, <2>2
  <1>4. Covers(part', rec')
    <2>1. CASE t.stage \in Filling \ {"cutting"}
      <3>1. t.sealed \in Ends /\ part'.len = CipherLen(t.sealed) /\ rec' <= t.sealed
        BY <2>1 DEF DiskOf, Filling
      <3> QED BY <3>1, EndCovers
    <2> QED BY <2>1
  <1> QED BY <1>1, <1>2, <1>3, <1>4, WriterStep DEF serverVars

\* The part is cut to the offset, or begun: what stays is what the record names.
LEMMA ResumeCutsKeeps ==
    ASSUME UploadInv, NEW p \in Put, ResumeCuts(p)
    PROVE  UploadInv'
  <1> DEFINE off == put[p].off
  <1>1. put[p].stage = "cutting" /\ Goes(p, "receiving") /\ rec' = rec
        /\ UNCHANGED <<serverVars, file, active, asked, client>>
        /\ part' = IF off = 0 THEN WritePiece(Truncate(Absent, 0), 0)
                   ELSE Truncate(part, CipherLen(off))
    BY DEF ResumeCuts
  <1>2. Writes(put[p]) /\ RequestOK(put[p], row, part, rec, file)
    BY <1>1, UnderWay DEF Writes
  <1>3. off \in Ends /\ rec = off /\ put[p].sealed = off /\ put[p].synced = off
        /\ (off > 0 => CipherLen(off) <= part.len)
    BY <1>1, <1>2 DEF RequestOK, DiskOf
  <1>4. off \in Nat /\ CipherLen(off) \in Nat /\ FileOK(part) /\ Kept(part, off)
    BY <1>3, UploadTypes DEF UploadInv, PartInv
  <1>5. PICK t \in PutType : put' = [put EXCEPT ![p] = t] /\ t.stage = "receiving"
          /\ t.off = off /\ t.sealed = off /\ t.synced = off
    BY <1>1, <1>3, NextStage DEF Stages
  <1> HIDE DEF off
  <1>6. FileOK(part') /\ Kept(part', off) /\ part'.len = CipherLen(off) /\ part'.bad = {}
    <2>1. CASE off = 0
      BY <1>1, <2>1, NewPart, PlainFiles
    <2>2. CASE off > 0
      BY <1>1, <1>3, <1>4, <2>2, CutFile, CutAtRecord
    <2> QED BY <1>4, <2>1, <2>2
  <1>7. DiskOf(t, part', rec')
    BY <1>1, <1>3, <1>4, <1>5, <1>6 DEF DiskOf
  <1> QED BY <1>1, <1>2, <1>3, <1>5, <1>6, <1>7, PartStep DEF Filling

\* One more chunk is sealed, past what the record names.
LEMMA ReceiveChunkKeeps ==
    ASSUME UploadInv, NEW p \in Put, ReceiveChunk(p)
    PROVE  UploadInv'
  <1> DEFINE i == put[p].sealed \div ChunkSize + 1
             u == [put[p] EXCEPT !.sealed = PlainEnd(i), !.since = @ + 1,
                                 !.stop = IF @ = "asked" THEN "heard" ELSE @]
             t == IF u.since >= Every
                  THEN [u EXCEPT !.stage = "sync", !.then = "receiving", !.since = 0]
                  ELSE u
  <1>1. put[p] \in PutType /\ put[p].stage = "receiving" /\ put[p].sealed < Size
        /\ part' = WritePiece(part, i) /\ put' = [put EXCEPT ![p] = t] /\ rec' = rec
        /\ UNCHANGED <<serverVars, file, active, asked, client>>
    BY UploadTypes DEF ReceiveChunk
  <1>2. Writes(put[p]) /\ RequestOK(put[p], row, part, rec, file)
    BY <1>1, UnderWay DEF Writes
  <1>3. put[p].sealed \in Ends /\ part.len = CipherLen(put[p].sealed) /\ part.bad = {}
        /\ put[p].synced = rec /\ rec <= put[p].sealed /\ put[p].off \in Ends
        /\ put[p].off <= put[p].sealed
    BY <1>1, <1>2 DEF RequestOK, DiskOf
  <1>4. PICK k \in Piece : put[p].sealed = PlainEnd(k)
    BY <1>3 DEF Ends
  <1>5. i = k + 1
    BY <1>1, <1>4, NextChunk
  <1>6. rec \in Nat /\ rec \in Ends /\ FileOK(part) /\ Kept(part, rec)
    BY UploadTypes DEF UploadInv, PartInv
  <1> HIDE DEF i
  <1>7. /\ i \in Piece /\ PlainEnd(k) < PlainEnd(i)
        /\ FileOK(part') /\ Kept(part', rec)
        /\ part'.len = End(i) /\ part'.bad = {}
    BY <1>1, <1>3, <1>4, <1>5, <1>6, WriteNext DEF End
  <1>8. PlainEnd(i) \in Nat /\ PlainEnd(i) \in Ends /\ put[p].off \in Nat
    BY <1>3, <1>7, PlainEnds, UploadTypes DEF Ends
  <1>9. u \in PutType /\ u.stage = "receiving" /\ u.sealed = PlainEnd(i)
        /\ u.synced = put[p].synced /\ u.off = put[p].off
    <2>1. DOMAIN put[p] = DOMAIN u /\ put[p].since + 1 \in Nat
      BY <1>1 DEF PutType
    <2>2. u.stage = "receiving" /\ u.sealed = PlainEnd(i)
          /\ u.synced = put[p].synced /\ u.off = put[p].off
      BY <1>1 DEF PutType
    <2>3. u.since = put[p].since + 1 /\ u.live = put[p].live /\ u.then = put[p].then
          /\ u.stop \in {"no", "asked", "heard"}
      BY <1>1 DEF PutType
    <2> QED BY <1>1, <1>8, <2>1, <2>2, <2>3 DEF PutType
  <1> HIDE DEF u
  <1>10. /\ t \in PutType /\ t.sealed = PlainEnd(i) /\ t.synced = rec /\ t.off = put[p].off
         /\ t.stage = "receiving" \/ (t.stage = "sync" /\ t.then = "receiving")
    BY <1>3, <1>9 DEF PutType, Stages
  <1> HIDE DEF t
  <1>11. rec <= PlainEnd(i) /\ put[p].off <= PlainEnd(i)
    BY <1>3, <1>4, <1>6, <1>7, <1>8, PlainEnds
  <1>12. DiskOf(t, part', rec')
    BY <1>1, <1>3, <1>7, <1>8, <1>10, <1>11 DEF DiskOf, End
  <1> QED BY <1>1, <1>2, <1>6, <1>7, <1>10, <1>12, PartStep DEF Filling

\* The part is flushed ...
LEMMA SyncKeeps ==
    ASSUME UploadInv, NEW p \in Put, Sync(p)
    PROVE  UploadInv'
  <1> DEFINE s == IF put[p].then = "renaming" THEN "renaming" ELSE "recording"
  <1>1. put[p].stage = "sync" /\ part' = Flush(part) /\ Goes(p, s) /\ rec' = rec
        /\ UNCHANGED <<serverVars, file, active, asked, client>>
    BY DEF Sync, Goes
  <1>2. Writes(put[p]) /\ RequestOK(put[p], row, part, rec, file)
    BY <1>1, UnderWay DEF Writes
  <1>3. PICK t \in PutType : put' = [put EXCEPT ![p] = t] /\ t.stage = s
          /\ t.off = put[p].off /\ t.sealed = put[p].sealed /\ t.synced = put[p].synced
          /\ t.then = put[p].then
    BY <1>1, NextStage DEF Stages
  <1>4. rec \in Nat /\ rec \in Ends /\ FileOK(part) /\ Kept(part, rec)
    BY UploadTypes DEF UploadInv, PartInv
  <1>5. FileOK(part') /\ Kept(part', rec) /\ part'.len = part.len /\ part'.fresh = {}
        /\ part'.bad = part.bad
    BY <1>1, <1>4, FlushFile
  <1>6. DiskOf(t, part', rec')
    BY <1>1, <1>2, <1>3, <1>5 DEF RequestOK, DiskOf
  <1> QED BY <1>1, <1>2, <1>3, <1>4, <1>5, <1>6, PartStep DEF Filling

\* ... and then the record says so: what it comes to name is flushed.
LEMMA RecordKeeps ==
    ASSUME UploadInv, NEW p \in Put, Record(p)
    PROVE  UploadInv'
  <1> DEFINE t == [put[p] EXCEPT !.synced = put[p].sealed, !.stage = put[p].then]
  <1>1. put[p] \in PutType /\ put[p].stage = "recording" /\ rec' = put[p].sealed
        /\ part' = part /\ put' = [put EXCEPT ![p] = t]
        /\ UNCHANGED <<serverVars, file, active, asked, client>>
    BY UploadTypes DEF Record
  <1>2. Writes(put[p]) /\ RequestOK(put[p], row, part, rec, file)
    BY <1>1, UnderWay DEF Writes
  <1>3. put[p].sealed \in Ends /\ part.len = CipherLen(put[p].sealed) /\ part.bad = {}
        /\ put[p].off \in Ends /\ put[p].off <= put[p].sealed /\ part.fresh = {}
        /\ put[p].then \notin {"none", "renaming"}
    BY <1>1, <1>2 DEF RequestOK, DiskOf
  <1>4. t \in PutType /\ t.stage \in {"receiving", "leaving"} /\ t.sealed = put[p].sealed
        /\ t.synced = put[p].sealed /\ t.off = put[p].off
    BY <1>1, <1>3 DEF PutType, Stages
  <1> HIDE DEF t
  <1>5. FileOK(part) /\ Kept(part, rec') /\ put[p].sealed \in Nat
    BY <1>3, UploadTypes DEF UploadInv, PartInv, Kept
  <1>7. Covers(part', rec')
    BY <1>1, <1>3, <1>5, EndCovers
  <1>6. DiskOf(t, part', rec')
    BY <1>1, <1>3, <1>4, <1>5 DEF DiskOf
  <1> QED BY <1>1, <1>2, <1>3, <1>4, <1>5, <1>6, <1>7, PartStep DEF Filling

\* What a request that is turned away leaves: less than there was, and a record of no more.
LEMMA CutsBack ==
    ASSUME UploadInv, NEW p \in Put,
           put[p].stage \in {"receiving", "sync", "recording"},
           NEW e \in {put[p].off, put[p].synced}, part' = Truncate(part, CipherLen(e)),
           rec' = Min({rec, e}) \/ (rec' = rec /\ e = put[p].synced)
    PROVE  FileOK(part') /\ rec' \in Ends /\ Kept(part', rec') /\ Covers(part', rec')
  <1>1. RequestOK(put[p], row, part, rec, file)
    BY UnderWay
  <1>2. put[p].sealed \in Ends /\ part.len = CipherLen(put[p].sealed) /\ put[p].synced = rec
        /\ rec <= put[p].sealed /\ put[p].off \in Ends /\ put[p].off <= put[p].sealed
    BY <1>1 DEF RequestOK, DiskOf
  <1>3. rec \in Nat /\ rec \in Ends /\ FileOK(part) /\ Kept(part, rec)
    BY UploadTypes DEF UploadInv, PartInv
  <1>4. e \in Ends /\ e <= put[p].sealed
    BY <1>2, <1>3
  <1>5. e \in Nat /\ put[p].sealed \in Nat
    BY <1>2, <1>4, UploadTypes
  <1>6. CipherLen(e) \in Nat /\ CipherLen(e) <= part.len
    BY <1>2, <1>4, <1>5, CipherLenGrows, EndsGrow
  <1>7. rec' \in Ends /\ rec' <= rec /\ rec' <= e /\ rec' \in Nat
    <2>1. CASE rec <= e
      <3>1. Min({rec, e}) = rec
        BY <1>3, <1>5, <2>1, OrderedTwo
      <3> QED BY <1>3, <2>1, <3>1
    <2>2. CASE e <= rec
      <3>1. {rec, e} = {e, rec}
        OBVIOUS
      <3>2. Min({e, rec}) = e
        BY <1>3, <1>5, <2>2, OrderedTwo
      <3> QED BY <1>2, <1>3, <1>4, <1>5, <2>2, <3>1, <3>2
    <2> QED BY <1>3, <1>5, <2>1, <2>2
  <1>8. FileOK(part') /\ Kept(part', rec) /\ part'.len = CipherLen(e)
    BY <1>3, <1>6, CutFile
  <1>9. Covers(part', rec')
    BY <1>4, <1>7, <1>8, EndCovers
  <1> QED BY <1>3, <1>7, <1>8, <1>9, LowerRecord

\* More bytes than the file has: what the request sent is cut off.
LEMMA TooBigKeeps ==
    ASSUME UploadInv, NEW p \in Put, TooBig(p)
    PROVE  UploadInv'
  <1>1. put[p].stage = "receiving" /\ rec' = Min({rec, put[p].off})
        /\ part' = Truncate(part, CipherLen(put[p].off)) /\ Goes(p, "leaving")
        /\ UNCHANGED <<serverVars, file, active, asked, client>>
    BY DEF TooBig
  <1>2. Writes(put[p])
    BY <1>1 DEF Writes
  <1>3. FileOK(part') /\ rec' \in Ends /\ Kept(part', rec') /\ Covers(part', rec')
    BY <1>1, CutsBack
  <1>4. PICK t \in PutType : put' = [put EXCEPT ![p] = t] /\ t.stage = "leaving"
    BY <1>1, NextStage DEF Stages
  <1>5. DiskOf(t, part', rec')
    BY <1>4, QuietRequest
  <1> QED BY <1>1, <1>2, <1>3, <1>4, <1>5, PartStep

\* The disk refuses while bytes arrive: what is not recorded is cut off, or all of it.
LEMMA WriteRefusedKeeps ==
    ASSUME UploadInv, NEW p \in Put, WriteRefused(p)
    PROVE  UploadInv'
  <1>1. put[p].stage \in {"receiving", "sync", "recording"} /\ Goes(p, "leaving")
        /\ UNCHANGED <<serverVars, file, active, asked, client>>
    BY DEF WriteRefused, Receiving
  <1>2. Writes(put[p])
    BY <1>1 DEF Writes
  <1>3. FileOK(part') /\ rec' \in Ends /\ Kept(part', rec') /\ Covers(part', rec')
    <2>1. CASE part' = Truncate(part, CipherLen(put[p].synced)) /\ rec' = rec
      BY <1>1, <2>1, CutsBack
    <2>2. CASE part' = Absent /\ rec' = 0
      BY <2>2, PlainFiles, EndsGrow
    <2> QED BY <2>1, <2>2 DEF WriteRefused
  <1>4. PICK t \in PutType : put' = [put EXCEPT ![p] = t] /\ t.stage = "leaving"
    BY <1>1, NextStage DEF Stages
  <1>5. DiskOf(t, part', rec')
    BY <1>4, QuietRequest
  <1> QED BY <1>1, <1>2, <1>3, <1>4, <1>5, PartStep

\* The renamed part is the whole file.
LEMMA FinalizeRenamesKeeps ==
    ASSUME UploadInv, NEW p \in Put, FinalizeRenames(p)
    PROVE  UploadInv'
  <1>1. put[p].stage = "renaming" /\ file' = part /\ part' = Absent /\ rec' = rec
        /\ Goes(p, "dropping") /\ UNCHANGED <<serverVars, active, asked, client>>
    BY DEF FinalizeRenames
  <1>2. Writes(put[p]) /\ RequestOK(put[p], row, part, rec, file) /\ srv = "up" /\ row \in Alive
    BY <1>1, UnderWay DEF Writes
  <1>3. part = Whole
    BY <1>1, <1>2 DEF RequestOK, DiskOf, Whole, UploadInv, PartInv, FileOK, FileType
  <1>4. PICK t \in PutType : put' = [put EXCEPT ![p] = t] /\ t.stage = "dropping"
    BY <1>1, NextStage DEF Stages
  <1>5. RowOf(t, row) /\ DiskOf(t, part', rec') /\ FileOf(t, file')
    BY <1>1, <1>2, <1>3, <1>4 DEF RequestOK, RowOf, DiskOf, FileOf, Filling
  <1>6. FileOK(part') /\ rec' \in Ends /\ Kept(part', rec') /\ Covers(part', rec')
    BY <1>1, UploadTypes, PlainFiles
  <1>7. RequestOK(t, row', part', rec', file')
    BY <1>1, <1>5 DEF RequestOK, serverVars
  <1> QED BY <1>1, <1>2, <1>3, <1>4, <1>6, <1>7, WriterStep DEF serverVars

\* Its record is dropped.
LEMMA FinalizeDropsKeeps ==
    ASSUME UploadInv, NEW p \in Put, FinalizeDrops(p)
    PROVE  UploadInv'
  <1>1. put[p].stage = "dropping" /\ rec' = 0 /\ Goes(p, "committing")
        /\ UNCHANGED <<serverVars, part, file, active, asked, client>>
    BY DEF FinalizeDrops
  <1>2. Writes(put[p]) /\ RequestOK(put[p], row, part, rec, file) /\ row \in Alive
    BY <1>1, UnderWay DEF Writes
  <1>3. file = Whole
    BY <1>1, <1>2 DEF RequestOK, FileOf
  <1>4. PICK t \in PutType : put' = [put EXCEPT ![p] = t] /\ t.stage = "committing"
    BY <1>1, NextStage DEF Stages
  <1>5. RowOf(t, row) /\ DiskOf(t, part', rec') /\ FileOf(t, file)
    BY <1>1, <1>2, <1>3, <1>4 DEF RequestOK, RowOf, DiskOf, FileOf, Filling
  <1>6. FileOK(part') /\ rec' \in Ends /\ Kept(part', rec') /\ Covers(part', rec')
    BY <1>1, PlainFiles, EndsGrow DEF UploadInv, PartInv, Covers
  <1>7. RequestOK(t, row', part', rec', file')
    BY <1>1, <1>5 DEF RequestOK, serverVars
  <1> QED BY <1>1, <1>2, <1>3, <1>4, <1>6, <1>7, WriterStep DEF serverVars

\* The row is marked once the whole file is in place.
LEMMA commitUploadKeeps ==
    ASSUME UploadInv, NEW p \in Put, commitUpload(p)
    PROVE  UploadInv'
  <1>1. put[p].stage = "committing" /\ row = "declared" /\ row' = "uploaded"
        /\ Goes(p, "thanked")
        /\ past' = past \cup {"declared"}
        /\ UNCHANGED <<old, srv, todo, part, file, rec, active, asked, client>>
    BY DEF commitUpload, MarkUploaded, Transact, diskVars
  <1>2. Writes(put[p]) /\ RequestOK(put[p], row, part, rec, file)
    BY <1>1, UnderWay DEF Writes
  <1>3. file = Whole
    BY <1>1, <1>2 DEF RequestOK, FileOf
  <1>4. PICK t \in PutType : put' = [put EXCEPT ![p] = t] /\ t.stage = "thanked"
    BY <1>1, NextStage DEF Stages
  <1>5. RowOf(t, row') /\ DiskOf(t, part', rec') /\ FileOf(t, file')
    BY <1>1, <1>4, QuietRequest DEF RowOf, Alive
  <1>6. FileOK(part') /\ rec' \in Ends /\ Kept(part', rec') /\ Covers(part', rec')
    BY <1>1 DEF UploadInv, PartInv
  <1>7. RequestOK(t, row', part', rec', file')
    BY <1>5 DEF RequestOK
  <1> QED BY <1>1, <1>2, <1>3, <1>4, <1>6, <1>7, WriterStep DEF Alive

(***************************************************************************)
(* The device, the row, the machine and the sweep                          *)
(***************************************************************************)

\* A step that leaves the server, the disk and who holds the part alone.
LEMMA DeviceStep ==
    ASSUME UploadInv, UNCHANGED <<serverVars, diskVars, active>>,
           put' \in [Put -> PutType],
           \A q \in Put : /\ put'[q].stage = put[q].stage /\ put'[q].off = put[q].off
                          /\ put'[q].sealed = put[q].sealed /\ put'[q].synced = put[q].synced
                          /\ put'[q].then = put[q].then,
           asked' \in {"no", "waiting"}, asked' = "no" \/ srv = "up",
           client' \in ClientType,
           client'.st = client.st \/ client'.st = "rest" \/ (srv = "up" /\ client'.st # "done")
    PROVE  UploadInv'
  <1>1. WriterInv'
    BY NoRequest DEF serverVars
  <1>2. UploadTypeOK' /\ PartInv' /\ RowInv'
    BY DEF UploadInv, UploadTypeOK, PartInv, RowInv, serverVars, diskVars
  <1>3. ServerInv'
    BY DEF UploadInv, ServerInv, Orphan, serverVars, diskVars
  <1> QED BY <1>1, <1>2, <1>3 DEF UploadInv

\* A new ticket, a token revoked.
LEMMA Tickets ==
    /\ \A n \in Nat : [st |-> "ticket", off |-> n, live |-> TRUE] \in ClientType
    /\ \A c \in ClientType : [c EXCEPT !.live = FALSE] \in ClientType
                             /\ [c EXCEPT !.live = FALSE].st = c.st
  <1>1. \A n \in Nat : [st |-> "ticket", off |-> n, live |-> TRUE] \in ClientType
    BY DEF ClientType
  <1> QED BY <1>1 DEF ClientType

\* A request told to stop goes on as it was until it hears.
LEMMA InterruptLike ==
    ASSUME UploadInv, NEW a \in Put, put' = Interrupt(a) \/ put' = put
    PROVE  /\ put' \in [Put -> PutType]
           /\ \A q \in Put : /\ put'[q].stage = put[q].stage /\ put'[q].off = put[q].off
                             /\ put'[q].sealed = put[q].sealed
                             /\ put'[q].synced = put[q].synced
                             /\ put'[q].then = put[q].then
  <1>1. put \in [Put -> PutType] /\ put[a] \in PutType
    BY DEF UploadInv, UploadTypeOK
  <1> DEFINE t == [put[a] EXCEPT !.stop = "asked"]
  <1>2. t \in PutType /\ t.stage = put[a].stage /\ t.off = put[a].off
        /\ t.sealed = put[a].sealed /\ t.synced = put[a].synced /\ t.then = put[a].then
    BY <1>1 DEF PutType
  <1>3. put' = put \/ put' = [put EXCEPT ![a] = t]
    BY DEF Interrupt
  <1> HIDE DEF t
  <1> QED BY <1>1, <1>2, <1>3

\* Tokens come and go without moving a request.
LEMMA TokensLike ==
    ASSUME UploadInv, NEW S \in SUBSET Put,
           put' = [q \in Put |-> IF q \in S THEN [put[q] EXCEPT !.live = FALSE] ELSE put[q]]
    PROVE  /\ put' \in [Put -> PutType]
           /\ \A q \in Put : /\ put'[q].stage = put[q].stage /\ put'[q].off = put[q].off
                             /\ put'[q].sealed = put[q].sealed
                             /\ put'[q].synced = put[q].synced
                             /\ put'[q].then = put[q].then
  <1>1. \A q \in Put : put[q] \in PutType
    BY UploadTypes
  <1>2. ASSUME NEW q \in Put
        PROVE  /\ put'[q] \in PutType
               /\ put'[q].stage = put[q].stage /\ put'[q].off = put[q].off
               /\ put'[q].sealed = put[q].sealed /\ put'[q].synced = put[q].synced
               /\ put'[q].then = put[q].then
    BY <1>1 DEF PutType
  <1> QED BY <1>2

\* The device asks how much is held, and a writer is told to stop.
LEMMA continueUploadKeeps ==
    ASSUME UploadInv, continueUpload
    PROVE  UploadInv'
  <1>1. srv = "up" /\ asked' = "waiting" /\ client' = [client EXCEPT !.st = "asking"]
        /\ UNCHANGED <<serverVars, diskVars, active>>
        /\ (put' = put \/ (active # None /\ put' = Interrupt(active)))
    BY DEF continueUpload
  <1>2. put \in [Put -> PutType] /\ active \in Put \cup {None}
        /\ client'.st = "asking"
        /\ client' \in ClientType
    BY <1>1 DEF UploadInv, UploadTypeOK, ClientType
  <1>3. CASE put' = put
    BY <1>1, <1>2, <1>3, DeviceStep
  <1>4. CASE active # None /\ put' = Interrupt(active)
    <2>1. active \in Put
      BY <1>2, <1>4
    <2> QED BY <1>1, <1>2, <1>4, <2>1, InterruptLike, DeviceStep
  <1> QED BY <1>1, <1>3, <1>4

\* What a writer that is told to stop does not change.
LEMMA TakeInterruptsKeeps ==
    ASSUME UploadInv, NEW p \in Put, TakeInterrupts(p)
    PROVE  UploadInv'
  <1>1. active \in Put /\ put' = Interrupt(active)
        /\ UNCHANGED <<serverVars, diskVars, active, asked, client>>
    BY DEF TakeInterrupts, UploadInv, UploadTypeOK
  <1>2. asked \in {"no", "waiting"} /\ (asked = "no" \/ srv = "up")
        /\ client \in ClientType
    BY DEF UploadInv, UploadTypeOK, ServerInv
  <1> QED BY <1>1, <1>2, InterruptLike, DeviceStep

\* The device is told how much, with a new token, or that there is nothing.
LEMMA continuationAnswersKeeps ==
    ASSUME UploadInv, continuationAnswers
    PROVE  UploadInv'
  <1>1. srv = "up" /\ asked' = "no" /\ UNCHANGED <<serverVars, diskVars, active>>
    BY DEF continuationAnswers, UploadInv, ServerInv
  <1>2. put \in [Put -> PutType]
        /\ client \in ClientType
    BY DEF UploadInv, UploadTypeOK
  <1>3. CASE \E n \in Nat : issue(n)
    <2>1. put' = [q \in Put |-> IF q \in Put THEN [put[q] EXCEPT !.live = FALSE] ELSE put[q]]
      BY <1>3 DEF issue
    <2>2. /\ client' \in ClientType
          /\ client'.st = client.st \/ client'.st = "ticket"
      <3>1. PICK n \in Nat : \/ client' = [st |-> "ticket", off |-> n, live |-> TRUE]
                             \/ client' = [client EXCEPT !.live = FALSE]
        BY <1>3 DEF issue
      <3> QED BY <1>2, <3>1, Tickets
    <2> QED BY <1>1, <2>1, <2>2, TokensLike, DeviceStep
  <1>4. CASE put' = put /\ client' = [client EXCEPT !.st = IF @ = "asking" THEN "rest" ELSE @]
    <2>1. /\ client' \in ClientType
          /\ client'.st = client.st \/ client'.st = "rest"
      BY <1>2, <1>4 DEF ClientType
    <2> QED BY <1>1, <1>2, <1>4, <2>1, DeviceStep
  <1>5. CASE issue(IF row = "uploaded" \/ finished THEN Size ELSE Min({Received, Size}))
    <2> DEFINE n == IF row = "uploaded" \/ finished THEN Size ELSE Min({Received, Size})
    <2>1. Received \in Nat /\ Size \in Nat
      BY UploadTypes, ReceivedFits, Sizes
    <2>2. Min({Received, Size}) \in {Received, Size}
      BY <2>1, MinOfTwo
    <2>3. n \in Nat
      BY <2>1, <2>2
    <2> QED BY <1>3, <1>5, <2>3
  <1> QED BY <1>4, <1>5 DEF continuationAnswers

\* A token runs out.
LEMMA TokenExpiresKeeps ==
    ASSUME UploadInv, TokenExpires
    PROVE  UploadInv'
  <1>1. UNCHANGED <<serverVars, diskVars, active, asked>>
    BY DEF TokenExpires
  <1>2. put \in [Put -> PutType] /\ asked \in {"no", "waiting"} /\ (asked = "no" \/ srv = "up")
        /\ client \in ClientType
    BY DEF UploadInv, UploadTypeOK, ServerInv
  <1>3. CASE put' = put /\ client' = [client EXCEPT !.live = FALSE]
    BY <1>1, <1>2, <1>3, Tickets, DeviceStep
  <1>4. CASE \E p \in Put : put' = [put EXCEPT ![p].live = FALSE] /\ client' = client
    <2>1. PICK p \in Put : put' = [put EXCEPT ![p].live = FALSE]
      BY <1>4
    <2>2. put' = [q \in Put |-> IF q \in {p} THEN [put[q] EXCEPT !.live = FALSE] ELSE put[q]]
      BY <1>2, <2>1
    <2>3. {p} \in SUBSET Put
      OBVIOUS
    <2> QED BY <1>1, <1>2, <1>4, <2>2, <2>3, TokensLike, DeviceStep
  <1> QED BY <1>3, <1>4 DEF TokenExpires

\* The device stops waiting; what it sent goes on.
LEMMA GiveUpKeeps ==
    ASSUME UploadInv, GiveUp
    PROVE  UploadInv'
  <1>1. client' = [st |-> "rest", off |-> 0, live |-> FALSE]
        /\ UNCHANGED <<serverVars, diskVars, put, active, asked>>
    BY DEF GiveUp
  <1>2. put \in [Put -> PutType] /\ asked \in {"no", "waiting"} /\ (asked = "no" \/ srv = "up")
    BY DEF UploadInv, UploadTypeOK, ServerInv
  <1> QED BY <1>1, <1>2, DeviceStep DEF ClientType

\* A request sets out with the device's token.
LEMMA PutLeavesKeeps ==
    ASSUME UploadInv, NEW p \in Put, PutLeaves(p)
    PROVE  UploadInv'
  <1> DEFINE t == [Idle EXCEPT !.stage = "sent", !.off = client.off, !.live = client.live]
  <1>1. client.st = "ticket" /\ put' = [put EXCEPT ![p] = t]
        /\ client' = [st |-> "sending", off |-> 0, live |-> FALSE]
        /\ UNCHANGED <<row, past, old, srv, todo, part, file, rec, active, asked>>
    BY DEF PutLeaves, serverVars, diskVars
  <1>2. t \in PutType /\ t.stage = "sent"
    BY DEF UploadInv, UploadTypeOK, ClientType, Idle, PutType, Stages
  <1> HIDE DEF t
  <1>3. RequestOK(t, row', part', rec', file') /\ ~Writes(t)
    BY <1>2, QuietRequest DEF RequestOK, RowOf, Writes
  <1>4. srv = "up" /\ \A q \in Put : Writes(put[q]) => active' = q
    BY <1>1 DEF UploadInv, ServerInv, WriterInv
  <1>5. WriterInv' /\ put' \in [Put -> PutType]
    BY <1>1, <1>2, <1>3, <1>4, OneRequest DEF diskVars
  <1>6. UploadTypeOK' /\ PartInv' /\ RowInv' /\ ServerInv'
    BY <1>1, <1>4, <1>5 DEF UploadInv, UploadTypeOK, ClientType, PartInv, RowInv, ServerInv
  <1> QED BY <1>5, <1>6 DEF UploadInv

\* The row is made, bound, or grows old while nothing else happens.
LEMMA RowStep ==
    ASSUME UploadInv,
           UNCHANGED <<srv, todo, part, file, rec, put, active, asked>>,
           \/ handleFileUploadBegin
           \/ SendMessage /\ client' = client
           \/ DayPasses /\ client' = client
    PROVE  UploadInv'
  <1>1. \/ srv = "up" /\ row = "none" /\ row' = "declared" /\ old' = old
           /\ past' = past \cup {"lost"} /\ client' = [st |-> "ticket", off |-> 0, live |-> TRUE]
        \/ srv = "up" /\ row = "uploaded" /\ row' = "bound" /\ old' = old /\ client' = client
           /\ past' = past \cup {"uploaded"}
        \/ row' = row /\ past' = past /\ row \in Alive /\ old' = TRUE /\ client' = client
    BY DEF handleFileUploadBegin, CreateUpload, Transact, SendMessage, DayPasses, Alive
  <1>2. UploadTypeOK' /\ PartInv'
    <2>1. client' \in ClientType
      BY <1>1, Tickets DEF UploadInv, UploadTypeOK
    <2>2. UploadTypeOK'
      BY <1>1, <2>1 DEF UploadInv, UploadTypeOK, Alive
    <2> QED BY <2>2 DEF UploadInv, PartInv
  <1>3. RowInv'
    BY <1>1 DEF UploadInv, RowInv, Alive
  <1>4. ServerInv'
    BY <1>1 DEF UploadInv, ServerInv, Orphan
  <1>5. WriterInv'
    <2>1. ASSUME NEW q \in Put
          PROVE  RequestOK(put[q], row', part, rec, file) /\ (Writes(put[q]) => active = q)
      <3>1. RequestOK(put[q], row, part, rec, file) /\ (Writes(put[q]) => active = q)
        BY DEF UploadInv, WriterInv
      <3>2. RowOf(put[q], row')
        BY <1>1, <3>1 DEF RequestOK, RowOf, Alive
      <3> QED BY <3>1, <3>2 DEF RequestOK
    <2> QED BY <2>1 DEF WriterInv
  <1> QED BY <1>2, <1>3, <1>4, <1>5 DEF UploadInv

\* When every request is gone, only the disk, the row and the sweep are left to look at.
LEMMA NoneLeft ==
    ASSUME UploadTypeOK, \A q \in Put : put[q].stage = "idle"
    PROVE  WriterInv
  <1>1. \A q \in Put : RequestOK(put[q], row, part, rec, file) /\ ~Writes(put[q])
    BY QuietRequest DEF RequestOK, RowOf, Writes
  <1> QED BY <1>1 DEF WriterInv

\* The process is killed or the power fails: what the record names survives, nothing
\* is asked any more, and the row is the last or one of late.
LEMMA CrashKeeps ==
    ASSUME UploadInv, Kill \/ Crash
    PROVE  UploadInv'
  <1>1. /\ srv' = "down" /\ todo' = {}
        /\ put' = [q \in Put |-> Idle] /\ active' = None /\ asked' = "no"
        /\ client' = [client EXCEPT !.st = IF @ = "done" THEN @ ELSE "rest", !.live = FALSE]
        /\ row' \in {row} \cup past /\ past' \subseteq past /\ UNCHANGED <<old, rec>>
        /\ (UNCHANGED <<part, file>> \/ (part' \in Survivors(part) /\ file' \in Survivors(file)))
    BY DEF Kill, Crash, Halt, diskVars
  <1>2. rec \in Nat /\ rec \in Ends /\ FileOK(part) /\ Kept(part, rec) /\ Covers(part, rec)
    BY UploadTypes DEF UploadInv, PartInv
  <1>3. FileOK(part') /\ Kept(part', rec) /\ Covers(part', rec)
        /\ (part = Absent => part' = Absent)
    BY <1>1, <1>2, SurvivorsKeep
  <1>4. file' = file
    BY <1>1 DEF UploadInv, RowInv, Survivors, Absent, Whole
  <1>5. /\ client' \in ClientType
        /\ client'.st \in {"rest", "done"} /\ (client'.st = "done" => client.st = "done")
    BY <1>1 DEF UploadInv, UploadTypeOK, ClientType
  <1>6. put' \in [Put -> PutType] /\ \A q \in Put : put'[q].stage = "idle"
    BY <1>1, IdleRequest DEF Idle
  <1>7. UploadTypeOK'
    <2>1. row' \in Alive \cup {"none", "gone", "lost"}
      BY <1>1 DEF UploadInv, UploadTypeOK, Alive
    <2>2. past' \subseteq {"declared", "uploaded", "lost"}
      BY <1>1 DEF UploadInv, UploadTypeOK
    <2> QED BY <1>1, <1>5, <1>6, <2>1, <2>2 DEF UploadInv, UploadTypeOK
  <1>8. WriterInv'
    <2>1. ASSUME NEW q \in Put
          PROVE  RequestOK(put'[q], row', part', rec', file') /\ ~Writes(put'[q])
      BY <1>1, IdleRequest
    <2> QED BY <2>1 DEF WriterInv
  <1>9. PartInv' /\ ServerInv'
    BY <1>1, <1>2, <1>3, <1>5, <1>6 DEF PartInv, ServerInv
  <1>10. RowInv'
    <2>1. /\ RowInv
          /\ past \subseteq {"declared", "uploaded", "lost"}
      BY DEF UploadInv, UploadTypeOK
    <2>2. row' \in {"none", "gone", "bound"} => row' = row
      BY <1>1, <2>1
    <2>3. row' = "uploaded" => file' = Whole \/ old'
      BY <1>1, <1>4, <2>1 DEF RowInv
    <2> QED BY <1>1, <1>3, <1>4, <1>5, <2>1, <2>2, <2>3 DEF RowInv
  <1> QED BY <1>7, <1>8, <1>9, <1>10 DEF UploadInv

\* The machine comes back, and what was never bound within a day is swept, the
\* bytes before the row.
LEMMA SweepKeeps ==
    ASSUME UploadInv, Start \/ SweepRemoves \/ SweepDeletes
    PROVE  UploadInv'
  <1>1. srv # "up" /\ UNCHANGED <<put, active, asked, client>>
    BY DEF Start, SweepRemoves, SweepDeletes
  <1>2. (\A q \in Put : put[q].stage = "idle") /\ active = None /\ asked = "no"
        /\ client.st \in {"rest", "done"}
    BY <1>1 DEF UploadInv, ServerInv
  <1>3. CASE Start
    <2>1. srv = "down" /\ srv' = (IF Orphan THEN "sweeping" ELSE "up")
          /\ todo' = (IF Orphan THEN {"file", "part", "record"} ELSE {})
          /\ UNCHANGED <<row, past, old, part, file, rec>>
      BY <1>3 DEF Start, diskVars
    <2>2. UploadTypeOK' /\ PartInv'
      BY <1>1, <2>1 DEF UploadInv, UploadTypeOK, PartInv
    <2>3. RowInv' /\ ServerInv'
      BY <1>1, <1>2, <2>1 DEF UploadInv, RowInv, ServerInv, Orphan
    <2>4. WriterInv'
      BY <1>1, <2>1 DEF UploadInv, WriterInv
    <2> QED BY <2>2, <2>3, <2>4 DEF UploadInv
  <1>4. CASE SweepRemoves
    <2>1. /\ srv = "sweeping" /\ UNCHANGED <<row, past, old, srv>>
          /\ \E name \in {"file", "part", "record"} :
               /\ todo' = todo \ {name}
               /\ file' = IF name = "file" THEN Absent ELSE file
               /\ part' = IF name = "part" THEN Absent ELSE part
               /\ rec' = IF name = "record" THEN 0 ELSE rec
      BY <1>4 DEF SweepRemoves
    <2>2. UploadTypeOK'
      BY <1>1, <2>1 DEF UploadInv, UploadTypeOK
    <2>3. PartInv'
      BY <2>1, PlainFiles, EndsGrow, UploadTypes DEF UploadInv, PartInv, Covers
    <2>4. RowInv' /\ ServerInv'
      BY <1>1, <1>2, <2>1 DEF UploadInv, RowInv, ServerInv, Orphan
    <2>5. WriterInv'
      <3>1. ASSUME NEW q \in Put
            PROVE  RequestOK(put'[q], row', part', rec', file') /\ ~Writes(put'[q])
        <4>1. put'[q].stage = "idle"
          BY <1>1, <1>2
        <4> QED BY <4>1, RestingRequest
      <3> QED BY <3>1 DEF WriterInv
    <2> QED BY <2>2, <2>3, <2>4, <2>5 DEF UploadInv
  <1>5. CASE SweepDeletes
    <2>1. srv = "sweeping" /\ todo = {} /\ row' = "gone" /\ srv' = "up"
          /\ UNCHANGED <<old, todo, part, file, rec>> /\ row \in {"declared", "uploaded"} /\ old
          /\ past' = past \cup {row}
      BY <1>5 DEF SweepDeletes, DeleteFiles, Transact, diskVars, UploadInv, ServerInv, Orphan
    <2>2. UploadTypeOK' /\ PartInv'
      BY <1>1, <2>1 DEF UploadInv, UploadTypeOK, PartInv
    <2>3. RowInv' /\ ServerInv'
      BY <1>1, <2>1 DEF UploadInv, RowInv, ServerInv
    <2>4. WriterInv'
      <3>1. ASSUME NEW q \in Put
            PROVE  RequestOK(put'[q], row', part', rec', file') /\ ~Writes(put'[q])
        <4>1. put'[q].stage = "idle"
          BY <1>1, <1>2
        <4> QED BY <4>1, RestingRequest
      <3> QED BY <3>1 DEF WriterInv
    <2> QED BY <2>2, <2>3, <2>4 DEF UploadInv
  <1> QED BY <1>3, <1>4, <1>5

\* The WAL is folded in: no row is left to go back to.
LEMMA FoldKeeps ==
    ASSUME UploadInv, FoldWAL
    PROVE  UploadInv'
  <1>1. past' = {} /\ UNCHANGED <<row, old, srv, todo, part, file, rec, put, active, asked, client>>
    BY DEF FoldWAL, diskVars
  <1>2. UploadTypeOK' /\ PartInv' /\ RowInv'
    BY <1>1 DEF UploadInv, UploadTypeOK, PartInv, RowInv
  <1>3. WriterInv' /\ ServerInv'
    BY <1>1 DEF UploadInv, WriterInv, ServerInv, Orphan
  <1> QED BY <1>2, <1>3 DEF UploadInv

(***************************************************************************)
(* The theorems                                                            *)
(***************************************************************************)

\* A machine that never held the file.
LEMMA UploadStarts == UploadInit => UploadInv
  <1> SUFFICES ASSUME UploadInit PROVE UploadInv
    OBVIOUS
  <1>1. put \in [Put -> PutType] /\ \A q \in Put : put[q] = Idle
    BY IdleRequest DEF UploadInit
  <1>2. UploadTypeOK
    BY <1>1 DEF UploadInit, UploadTypeOK, ClientType, Alive
  <1>3. PartInv
    BY PlainFiles, EndsGrow DEF UploadInit, PartInv
  <1>4. RowInv /\ ServerInv
    BY DEF UploadInit, RowInv, ServerInv
  <1>5. WriterInv
    BY <1>1, IdleRequest DEF WriterInv
  <1> QED BY <1>2, <1>3, <1>4, <1>5 DEF UploadInv

\* Every step - of the device, a request, the disk, the machine or the sweep -
\* keeps the record, the writer and the row in line.
LEMMA UploadSteps == UploadInv /\ [UploadNext]_uploadVars => UploadInv'
  <1> SUFFICES ASSUME UploadInv, [UploadNext]_uploadVars PROVE UploadInv'
    OBVIOUS
  <1>1. ASSUME NEW p \in Put, Carries(p) PROVE UploadInv'
    BY <1>1, PutArrivesKeeps, TakeInterruptsKeeps, StagesKeep, ResumeLowersKeeps,
       ResumeCutsKeeps, BodyKeeps, SyncKeeps, RecordKeeps, FinalizeRenamesKeeps,
       FinalizeDropsKeeps, commitUploadKeeps, ReleaseKeeps
       DEF Carries, BodyStalls, Superseded
  <1>2. ASSUME NEW p \in Put, Suffers(p) PROVE UploadInv'
    BY <1>2, BodyKeeps, TooBigKeeps, WriteRefusedKeeps, StagesKeep DEF Suffers, BodyBreaks
  <1>3. ASSUME NEW p \in Put, PutLeaves(p) \/ Take(p) \/ TakeGivesUp(p) \/ ReceiveChunk(p)
        PROVE  UploadInv'
    BY <1>3, PutLeavesKeeps, TakeKeeps, TakeGivesUpKeeps, ReceiveChunkKeeps
  <1>4. CASE handleFileUploadBegin \/ SendMessage \/ DayPasses
    BY <1>4, RowStep DEF handleFileUploadBegin, SendMessage, DayPasses, diskVars
  <1>5. CASE continueUpload \/ continuationAnswers \/ TokenExpires \/ GiveUp
    BY <1>5, continueUploadKeeps, continuationAnswersKeeps, TokenExpiresKeeps, GiveUpKeeps
  <1>6. CASE FoldWAL \/ Kill \/ Crash \/ Start \/ SweepRemoves \/ SweepDeletes
    BY <1>6, FoldKeeps, CrashKeeps, SweepKeeps
  <1>7. CASE UNCHANGED uploadVars
    BY <1>7 DEF uploadVars, serverVars, diskVars, UploadInv, UploadTypeOK, PartInv, WriterInv,
       RowInv, ServerInv, Orphan
  <1> QED BY <1>1, <1>2, <1>3, <1>4, <1>5, <1>6, <1>7 DEF UploadNext

\* The record, the writer and the row stay in line through every run of requests,
\* crashes, refused writes and sweeps.
THEOREM UploadInductive == UploadSpec => []UploadInv
  BY UploadStarts, UploadSteps, PTL DEF UploadSpec

\* The bytes a device is told the server holds are whole chunks, flushed, behind
\* a header that is (Received): whatever is asked again, refused or lost.
THEOREM ReceivedIsSafeAlways == UploadSpec => []ReceivedIsSafe
  <1>1. UploadInv => ReceivedIsSafe
    <2> SUFFICES ASSUME UploadInv, NEW i \in Piece, i > 0, PlainEnd(i) <= Received
                 PROVE  {0, i} \cap (part.fresh \cup part.bad) = {}
      BY DEF ReceivedIsSafe
    <2>1. rec \in Nat /\ part.len \in Int /\ Kept(part, rec)
      BY UploadTypes DEF UploadInv, PartInv
    <2>2. Received \in Nat /\ Received <= rec
          /\ (Received > 0 => HeaderSize <= part.len)
          /\ \A n \in Nat \ {0} : n <= Received => CipherLen(n) <= part.len
      BY <2>1, ReceivedFits
    <2>3. 0 \in Piece /\ PlainEnd(0) = 0 /\ End(0) = HeaderSize
      BY ChunksCover, PlainEnds, CipherLenOfNothing DEF End
    <2>4. PlainEnd(i) \in Nat \ {0}
      BY <2>3, PlainEnds
    <2>5. PlainEnd(i) <= rec /\ rec > 0 /\ Received > 0 /\ End(i) <= part.len
      BY <2>1, <2>2, <2>4 DEF End
    <2> QED BY <2>1, <2>2, <2>3, <2>5 DEF Kept
  <1> QED BY <1>1, UploadInductive, PTL

\* A file the database calls uploaded is served whole, and so is one bound to a
\* message, or one whose device was told so while the sweep leaves it, whatever
\* requests, crashes and disks did before and whichever commits were taken back.
THEOREM UploadedIsWholeAlways == UploadSpec => []UploadedIsWhole
  <1>1. UploadInv => UploadedIsWhole
    BY DEF UploadInv, RowInv, UploadedIsWhole, Opens, finished, Whole
  <1> QED BY <1>1, UploadInductive, PTL

\* Nothing is on disk that no row names, but for a row a power loss took back.
BytesHaveRow == onDisk => row \in Alive \cup {"lost"}

\* No bytes outlive the row the sweep deletes: a crash at any point of it leaves a
\* row the next one retries (sweepOrphans).
THEOREM BytesHaveRowAlways == UploadSpec => []BytesHaveRow
  <1>1. UploadInv => BytesHaveRow
    BY DEF UploadInv, UploadTypeOK, RowInv, BytesHaveRow, onDisk
  <1> QED BY <1>1, UploadInductive, PTL

(***************************************************************************)
(* The refinement                                                          *)
(***************************************************************************)

HeldOf(f, r) == IF f = Absent THEN 0 ELSE r

\* What a device is told, and whether the file is there, before a step and after it.
LEMMA Mapping ==
    ASSUME UploadInv
    PROVE  /\ Received = HeldOf(part, rec) /\ Received \in 0 .. Size
           /\ finished = (file # Absent) /\ (file = Absent \/ file = Whole)
  <1>1. Received = HeldIn(part, rec)
    BY DEF Received, HeldIn
  <1>2. HeldIn(part, rec) = HeldOf(part, rec)
    BY HeldIsRecorded DEF UploadInv, PartInv, HeldOf
  <1>3. rec \in Nat /\ rec <= Size /\ Size \in Nat /\ (finished => file = Whole)
    BY UploadTypes, Sizes
  <1>4. file \in {Absent, Whole} /\ Absent # Whole
    BY PlainFiles DEF UploadInv, RowInv
  <1>5. finished = (file # Absent)
    BY <1>3, <1>4 DEF finished, Whole
  <1> QED BY <1>1, <1>2, <1>3, <1>4, <1>5 DEF HeldOf

\* The same of the states a step ends in.
LEMMA MappingNext ==
    ASSUME UploadInv'
    PROVE  /\ Received' = HeldOf(part', rec') /\ Received' \in 0 .. Size
           /\ finished' = (file' # Absent)
  <1>1. Received' = HeldIn(part', rec')
    BY DEF Received, HeldIn
  <1>2. HeldIn(part', rec') = HeldOf(part', rec')
    BY HeldIsRecorded DEF UploadInv, PartInv, HeldOf
  <1>3. rec' \in Nat /\ rec' <= Size /\ Size \in Nat /\ CipherLen(Size) \in Nat
    BY EndsGrow, Sizes DEF UploadInv, PartInv
  <1>4. file' \in {Absent, Whole} /\ Absent # Whole
    BY PlainFiles DEF UploadInv, RowInv
  <1>5. finished' = (file' # Absent)
    BY <1>3, <1>4 DEF finished, Whole, Absent
  <1> QED BY <1>1, <1>2, <1>3, <1>5 DEF HeldOf

\* A step that leaves row, disk and the doors alone is nothing to the owner.
LEMMA SameFile ==
    ASSUME UploadInv, UploadInv', UNCHANGED <<row, past, old, srv, diskVars>>
    PROVE  UNCHANGED Keep!keptVars
  <1>1. Received' = Received /\ finished' = finished /\ onDisk' = onDisk
    BY Mapping, MappingNext DEF diskVars, onDisk
  <1> QED BY <1>1 DEF Keep!keptVars, diskVars

\* Whatever a writer does to part and record is a Write: the row is declared, the
\* file not there yet, the endpoints open.
LEMMA PartWrites ==
    ASSUME UploadInv, UploadInv', NEW p \in Put,
           \/ ResumeLowers(p) \/ ResumeCuts(p) \/ ReceiveChunk(p) \/ Sync(p) \/ Record(p)
           \/ TooBig(p) \/ WriteRefused(p)
    PROVE  Keep!Write
  <1>1. UNCHANGED <<row, past, old, srv, file>>
    BY DEF ResumeLowers, ResumeCuts, ReceiveChunk, Sync, Record, TooBig, WriteRefused, serverVars
  <1>2. srv = "up" /\ row = "declared" /\ file = Absent
    <2>1. CASE ResumeLowers(p)
      BY <2>1, UnderWay, Mapping DEF ResumeLowers
    <2>2. CASE ~ResumeLowers(p)
      <3>1. put[p].stage \in Filling
        BY <2>2 DEF ResumeCuts, ReceiveChunk, Sync, Record, TooBig, WriteRefused, Receiving,
           Filling
      <3>2. put[p].stage # "idle"
        BY <3>1 DEF Filling
      <3> QED BY <3>1, <3>2, UnderWay DEF RequestOK, RowOf, FileOf
    <2> QED BY <2>1, <2>2
  <1>3. ~finished /\ finished' = finished /\ Received' \in 0 .. Size
    BY <1>1, <1>2, Mapping, MappingNext
  <1>4. onDisk' \in BOOLEAN
    BY DEF onDisk
  <1> QED BY <1>1, <1>2, <1>3, <1>4 DEF Keep!Write

\* The end of a file: the rename, the record dropped, the row.
LEMMA FileEnds ==
    ASSUME UploadInv, UploadInv', NEW p \in Put,
           FinalizeRenames(p) \/ FinalizeDrops(p) \/ commitUpload(p)
    PROVE  Keep!Finish \/ UNCHANGED Keep!keptVars \/ Keep!Commit
  <1>1. put[p].stage \in {"renaming", "dropping", "committing"}
    BY DEF FinalizeRenames, FinalizeDrops, commitUpload
  <1>2. srv = "up" /\ RequestOK(put[p], row, part, rec, file)
    BY <1>1, UnderWay
  <1>3. CASE FinalizeRenames(p)
    <2>1. put[p].stage = "renaming" /\ file' = part /\ part' = Absent
          /\ UNCHANGED <<row, past, old, srv, rec>>
      BY <1>3 DEF FinalizeRenames, serverVars
    <2>2. row = "declared" /\ file = Absent /\ part.len = CipherLen(put[p].sealed)
          /\ put[p].sealed \in Ends
      BY <1>2, <2>1 DEF RequestOK, RowOf, FileOf, DiskOf, Filling
    <2>3. file' # Absent
      <3>1. CipherLen(put[p].sealed) \in Nat
        BY <2>2, EndsGrow
      <3> QED BY <2>1, <2>2, <3>1 DEF Absent
    <2>4. ~finished /\ finished' = TRUE /\ Received' = 0
      BY <2>1, <2>2, <2>3, Mapping, MappingNext DEF HeldOf
    <2>5. onDisk' = TRUE
      BY <2>3 DEF onDisk, Absent
    <2> QED BY <1>2, <2>1, <2>2, <2>4, <2>5 DEF Keep!Finish
  <1>4. CASE FinalizeDrops(p)
    <2>1. put[p].stage = "dropping" /\ UNCHANGED <<row, past, old, srv, part, file>>
      BY <1>4 DEF FinalizeDrops, serverVars
    <2>2. part = Absent /\ file # Absent
      BY <1>2, <2>1, PlainFiles DEF RequestOK, DiskOf, FileOf
    <2>3. Received' = Received /\ finished' = finished /\ onDisk' = onDisk
      BY <2>1, <2>2, Mapping, MappingNext DEF HeldOf, onDisk, Absent
    <2> QED BY <2>1, <2>3 DEF Keep!keptVars
  <1>5. CASE commitUpload(p)
    <2>1. put[p].stage = "committing" /\ row = "declared" /\ row' = "uploaded"
          /\ UNCHANGED <<old, srv, part, file, rec>> /\ past' = past \cup {"declared"}
      BY <1>5 DEF commitUpload, MarkUploaded, Transact, diskVars
    <2>2. file = Whole
      BY <1>2, <2>1 DEF RequestOK, FileOf
    <2>3. finished /\ finished' = finished /\ Received' = Received
      BY <2>1, <2>2, Mapping, MappingNext, PlainFiles
    <2>4. onDisk' = onDisk
      BY <2>1 DEF onDisk
    <2> QED BY <1>2, <2>1, <2>3, <2>4 DEF Keep!Commit, Keep!Becomes
  <1> QED BY <1>3, <1>4, <1>5

\* A power loss takes nothing of what was held, and nothing of a finished file.
LEMMA CrashCloses ==
    ASSUME UploadInv, UploadInv', Kill \/ Crash
    PROVE  Keep!Close
  <1>1. /\ srv' = "down" /\ UNCHANGED <<old, rec>>
        /\ (UNCHANGED <<part, file>> \/ (part' \in Survivors(part) /\ file' \in Survivors(file)))
        /\ (UNCHANGED <<row, past>> \/ (row' \in {row} \cup past /\ past' = {}))
    BY DEF Kill, Crash, Halt, diskVars
  <1>2. part' = Absent <=> part = Absent
    BY <1>1, SurvivorsKeep DEF UploadInv, PartInv
  <1>3. file' = file
    BY <1>1 DEF UploadInv, RowInv, Survivors, Absent, Whole
  <1>4. Received' = Received /\ finished' = finished
    BY <1>1, <1>2, <1>3, Mapping, MappingNext DEF HeldOf
  <1>5. onDisk' = onDisk
    BY <1>1, <1>2, <1>3 DEF onDisk, Absent
  <1> QED BY <1>1, <1>4, <1>5 DEF Keep!Close

\* What was not claimed is forgotten and then deleted, before the doors open.
LEMMA SweepForgets ==
    ASSUME UploadInv, UploadInv', Start \/ SweepRemoves \/ SweepDeletes
    PROVE  Keep!Forget \/ Keep!Delete \/ Keep!Open \/ UNCHANGED Keep!keptVars
  <1>1. CASE Start
    <2>1. srv = "down" /\ srv' = (IF Orphan THEN "sweeping" ELSE "up")
          /\ UNCHANGED <<row, past, old, diskVars>>
      BY <1>1 DEF Start
    <2>2. Received' = Received /\ finished' = finished /\ onDisk' = onDisk
      BY <2>1, Mapping, MappingNext DEF diskVars, onDisk
    <2> QED BY <2>1, <2>2 DEF Orphan, Keep!Unclaimed, Keep!Open, Keep!keptVars
  <1>2. CASE SweepRemoves
    <2>1. srv = "sweeping" /\ srv' = srv /\ UNCHANGED <<row, past, old>>
          /\ part' \in {part, Absent} /\ file' \in {file, Absent} /\ rec' \in {rec, 0}
      BY <1>2 DEF SweepRemoves
    <2>2. Received' \in {Received, 0} /\ finished' \in {finished, FALSE}
      BY <2>1, Mapping, MappingNext DEF HeldOf
    <2>3. Orphan
      BY <2>1 DEF UploadInv, ServerInv
    <2>4. onDisk' \in {onDisk, FALSE}
      <3>1. part' # Absent => part # Absent
        BY <2>1
      <3>2. file' # Absent => file # Absent
        BY <2>1
      <3>3. rec' > 0 => rec > 0
        BY <2>1
      <3>4. onDisk' => onDisk
        BY <3>1, <3>2, <3>3 DEF onDisk, Absent
      <3>5. onDisk \in BOOLEAN /\ onDisk' \in BOOLEAN
        BY DEF onDisk
      <3> QED BY <3>4, <3>5
    <2> QED BY <2>1, <2>2, <2>3, <2>4 DEF Orphan, Keep!Unclaimed, Keep!Forget
  <1>3. CASE SweepDeletes
    <2>1. srv = "sweeping" /\ todo = {} /\ row' = "gone" /\ srv' = "up" /\ old' = old
          /\ UNCHANGED diskVars /\ past' = past \cup {IF row = "none" THEN "lost" ELSE row}
      BY <1>3 DEF SweepDeletes, DeleteFiles, Transact
    <2>2. Orphan /\ part = Absent /\ file = Absent /\ rec = 0
      BY <2>1 DEF UploadInv, ServerInv
    <2>3. Received = 0 /\ ~finished /\ Received' = Received /\ finished' = finished
      BY <2>1, <2>2, Mapping, MappingNext DEF HeldOf, diskVars
    <2>4. ~onDisk /\ onDisk' = onDisk
      BY <2>1, <2>2 DEF onDisk, diskVars
    <2> QED BY <2>1, <2>2, <2>3, <2>4 DEF Orphan, Keep!Unclaimed, Keep!Delete, Keep!Becomes
  <1> QED BY <1>1, <1>2, <1>3

\* The row is made, claimed by a message, or grows old.
LEMMA RowChanges ==
    ASSUME UploadInv, UploadInv', handleFileUploadBegin \/ SendMessage \/ DayPasses
    PROVE  Keep!Declare \/ Keep!Bind \/ Keep!Age
  <1>1. UNCHANGED <<srv, diskVars>>
    BY DEF handleFileUploadBegin, SendMessage, DayPasses
  <1>2. Received' = Received /\ finished' = finished /\ onDisk' = onDisk
    BY <1>1, Mapping, MappingNext DEF diskVars, onDisk
  <1>3. CASE handleFileUploadBegin
    BY <1>1, <1>2, <1>3 DEF handleFileUploadBegin, CreateUpload, Transact, Keep!Declare, Keep!Becomes
  <1>4. CASE SendMessage
    <2>1. srv = "up" /\ row = "uploaded" /\ Transact("bound") /\ old' = old
      BY <1>4 DEF SendMessage
    <2>3. file = Whole
      BY <2>1 DEF UploadInv, RowInv
    <2>2. finished
      BY <2>3, Mapping, PlainFiles
    <2> QED BY <1>1, <1>2, <2>1, <2>2 DEF Keep!Bind, Keep!Becomes, Transact
  <1>5. CASE DayPasses
    BY <1>1, <1>2, <1>5 DEF DayPasses, Keep!Age
  <1> QED BY <1>3, <1>4, <1>5

\* Every step of requests, disk, machine and sweep is a step of the kept file, or
\* nothing to its owner.
LEMMA UploadStepKeeps ==
    UploadInv /\ UploadInv' /\ [UploadNext]_uploadVars => [Keep!KeptNext]_(Keep!keptVars)
  <1> SUFFICES ASSUME UploadInv, UploadInv', [UploadNext]_uploadVars
               PROVE  Keep!KeptNext \/ UNCHANGED Keep!keptVars
    OBVIOUS
  <1>1. ASSUME NEW p \in Put, Carries(p) PROVE Keep!KeptNext \/ UNCHANGED Keep!keptVars
    <2>1. CASE PutArrives(p) \/ TakeInterrupts(p) \/ putFinished(p) \/ ResumeRefuses(p)
               \/ BodyEnds(p) \/ BodyStalls(p) \/ Superseded(p) \/ Release(p)
      BY <2>1, SameFile DEF PutArrives, TakeInterrupts, putFinished, ResumeRefuses, BodyEnds,
         BodyStalls, Superseded, Suspends, Release, serverVars
    <2>2. CASE ResumeLowers(p) \/ ResumeCuts(p) \/ Sync(p) \/ Record(p)
      BY <2>2, PartWrites DEF Keep!KeptNext
    <2>3. CASE FinalizeRenames(p) \/ FinalizeDrops(p) \/ commitUpload(p)
      BY <2>3, FileEnds DEF Keep!KeptNext
    <2> QED BY <1>1, <2>1, <2>2, <2>3 DEF Carries
  <1>2. ASSUME NEW p \in Put, Suffers(p) PROVE Keep!KeptNext \/ UNCHANGED Keep!keptVars
    <2>1. CASE BodyBreaks(p) \/ EndRefused(p)
      BY <2>1, SameFile DEF BodyBreaks, EndRefused, Suspends, serverVars
    <2>2. CASE TooBig(p) \/ WriteRefused(p)
      BY <2>2, PartWrites DEF Keep!KeptNext
    <2> QED BY <1>2, <2>1, <2>2 DEF Suffers
  <1>3. ASSUME NEW p \in Put, PutLeaves(p) \/ Take(p) \/ TakeGivesUp(p) \/ ReceiveChunk(p)
        PROVE  Keep!KeptNext \/ UNCHANGED Keep!keptVars
    <2>1. CASE PutLeaves(p) \/ Take(p) \/ TakeGivesUp(p)
      BY <2>1, SameFile DEF PutLeaves, Take, TakeGivesUp, serverVars
    <2>2. CASE ReceiveChunk(p)
      BY <2>2, PartWrites DEF Keep!KeptNext
    <2> QED BY <1>3, <2>1, <2>2
  <1>4. CASE handleFileUploadBegin \/ SendMessage \/ DayPasses
    BY <1>4, RowChanges DEF Keep!KeptNext
  <1>5. CASE continueUpload \/ continuationAnswers \/ TokenExpires \/ GiveUp
    BY <1>5, SameFile DEF continueUpload, continuationAnswers, TokenExpires, GiveUp, serverVars
  <1>6. CASE Kill \/ Crash
    BY <1>6, CrashCloses DEF Keep!KeptNext
  <1>9. CASE FoldWAL
    <2>1. past' = {} /\ UNCHANGED <<row, old, srv, diskVars>>
      BY <1>9 DEF FoldWAL
    <2>2. Received' = Received /\ finished' = finished /\ onDisk' = onDisk
      BY <2>1, Mapping, MappingNext DEF diskVars, onDisk
    <2> QED BY <2>1, <2>2 DEF Keep!Settle, Keep!KeptNext
  <1>7. CASE Start \/ SweepRemoves \/ SweepDeletes
    BY <1>7, SweepForgets DEF Keep!KeptNext
  <1>8. CASE UNCHANGED uploadVars
    BY <1>8, SameFile DEF uploadVars, serverVars
  <1> QED BY <1>1, <1>2, <1>3, <1>4, <1>5, <1>6, <1>7, <1>8, <1>9 DEF UploadNext

\* The server keeps a file as its owner is promised: only a request that writes
\* changes what is held, no power loss does, the row follows the bytes, is taken back
\* by nothing but a power loss and outlives them, and what a message claimed is never
\* swept.
THEOREM UploadKeepsTheFile == UploadSpec => KeepsTheFile
  <1>1. UploadInit => Keep!KeptInit
    <2> SUFFICES ASSUME UploadInit PROVE Keep!KeptInit
      OBVIOUS
    <2>1. UploadInv
      BY UploadStarts
    <2>2. Received = 0 /\ ~finished
      BY <2>1, Mapping DEF UploadInit, HeldOf
    <2>3. ~onDisk
      BY DEF UploadInit, onDisk
    <2> QED BY <2>2, <2>3 DEF UploadInit, Keep!KeptInit
  <1> QED BY <1>1, UploadInductive, UploadStepKeeps, PTL
      DEF UploadSpec, KeepsTheFile, Keep!KeptSpec
=============================================================================
