------------------------------ MODULE WkdProofs -----------------------------
(***************************************************************************)
(* Theorems about the public side: zbase32_encode, for any input and word;  *)
(* addresses, slots and the domain of a lookup, for any alphabet and        *)
(* configuration; wkdmgr-query, for any number of lookups and faults.       *)
(***************************************************************************)
EXTENDS ZBase32, Address, Query, Integers, FiniteSetTheorems, SequenceTheorems,
        WellFoundedInduction, TLAPS

-----------------------------------------------------------------------------
(* Powers of two and the bits of a number. *)

\* Bit j of x, counted from the least significant one.
Bit(x, j) == (x \div 2^j) % 2

LEMMA Doubles == \A n \in 0..12 : 2^n \in Nat \ {0} /\ 2^(n + 1) = 2 * 2^n
<1>. TAKE n \in 0..12
<1>0. CASE n = 0 BY <1>0
<1>1. CASE n = 1 BY <1>1
<1>2. CASE n = 2 BY <1>2
<1>3. CASE n = 3 BY <1>3
<1>4. CASE n = 4 BY <1>4
<1>5. CASE n = 5 BY <1>5
<1>6. CASE n = 6 BY <1>6
<1>7. CASE n = 7 BY <1>7
<1>8. CASE n = 8 BY <1>8
<1>9. CASE n = 9 BY <1>9
<1>10. CASE n = 10 BY <1>10
<1>11. CASE n = 11 BY <1>11
<1>12. CASE n = 12 BY <1>12
<1>. QED
  BY <1>0, <1>1, <1>2, <1>3, <1>4, <1>5, <1>6, <1>7, <1>8, <1>9, <1>10, <1>11, <1>12

LEMMA PowersAdd == \A m \in 0..8, n \in 0..4 : 2^(m + n) = 2^m * 2^n
<1>. TAKE m \in 0..8, n \in 0..4
<1>1. m \in 0..12 /\ m + 1 \in 0..12 /\ m + 2 \in 0..12 /\ m + 3 \in 0..12
  OBVIOUS
<1>2. 2^m \in Nat /\ 2^(m + 1) = 2 * 2^m
  BY <1>1, Doubles
<1>3. 2^((m + 1) + 1) = 2 * 2^(m + 1)
  BY <1>1, Doubles
<1>4. 2^((m + 2) + 1) = 2 * 2^(m + 2)
  BY <1>1, Doubles, Zenon
<1>5. 2^((m + 3) + 1) = 2 * 2^(m + 3)
  BY <1>1, Doubles, Zenon
<1>6. CASE n = 0 BY <1>2, <1>6
<1>7. CASE n = 1 BY <1>2, <1>7
<1>8. CASE n = 2 BY <1>2, <1>3, <1>8
<1>9. CASE n = 3 BY <1>2, <1>3, <1>4, <1>9
<1>10. CASE n = 4 BY <1>2, <1>3, <1>4, <1>5, <1>10
<1>. QED
  BY <1>6, <1>7, <1>8, <1>9, <1>10

\* Division by p and then by q is division by their product.
LEMMA DivideTwice ==
  ASSUME NEW x \in Nat, NEW p \in Nat \ {0}, NEW q \in Nat \ {0}
  PROVE  (x \div p) \div q = x \div (p * q)
<1>. DEFINE d == x \div p  r == x % p  e == d \div q  f == d % q
<1>1. d \in Nat /\ r \in 0..(p - 1) /\ x = p * d + r
  BY SMT
<1>2. e \in Nat /\ f \in 0..(q - 1) /\ d = q * e + f
  BY <1>1, SMT
<1>. HIDE DEF d, r, e, f
<1>3. x = (p * q) * e + (p * f + r)
  BY <1>1, <1>2, SMT
<1>4. p * f + r \in 0..(p * q - 1)
  <2>1. f <= q - 1 /\ r <= p - 1
    BY <1>1, <1>2
  <2>2. p * f <= p * (q - 1)
    BY <1>2, <2>1, SMT
  <2>. QED
    BY <2>1, <2>2, <1>1, <1>2, SMT
<1>5. x \div (p * q) = e
  BY <1>1, <1>2, <1>3, <1>4, SMT
<1>. QED
  BY <1>5 DEF e, d

\* Shifting right moves the bits down.
LEMMA BitShifted ==
  ASSUME NEW x \in Nat, NEW m \in 0..8, NEW n \in 0..4
  PROVE  Bit(x \div 2^m, n) = Bit(x, m + n)
<1>0. m \in 0..12 /\ n \in 0..12
  OBVIOUS
<1>1. 2^m \in Nat \ {0} /\ 2^n \in Nat \ {0}
  BY <1>0, Doubles
<1>2. (x \div 2^m) \div 2^n = x \div (2^m * 2^n)
  BY <1>1, DivideTwice
<1>. QED
  BY <1>2, PowersAdd DEF Bit

\* Masking keeps the low bits.
LEMMA BitMasked ==
  ASSUME NEW x \in Nat, NEW n \in 0..4
  PROVE  Bit(x % 32, n) = Bit(x, n)
<1>0. CASE n = 0 BY <1>0 DEF Bit
<1>1. CASE n = 1 BY <1>1 DEF Bit
<1>2. CASE n = 2 BY <1>2 DEF Bit
<1>3. CASE n = 3 BY <1>3 DEF Bit
<1>4. CASE n = 4 BY <1>4 DEF Bit
<1>. QED
  BY <1>0, <1>1, <1>2, <1>3, <1>4

LEMMA BitLow ==
  ASSUME NEW x \in Nat, NEW y \in Nat, x % 16 = y % 16, NEW n \in 0..3
  PROVE  Bit(x, n) = Bit(y, n)
<1>0. CASE n = 0 BY <1>0 DEF Bit
<1>1. CASE n = 1 BY <1>1 DEF Bit
<1>2. CASE n = 2 BY <1>2 DEF Bit
<1>3. CASE n = 3 BY <1>3 DEF Bit
<1>. QED
  BY <1>0, <1>1, <1>2, <1>3

\* Shifting left moves the bits up and leaves zeros behind.
LEMMA BitLifted ==
  ASSUME NEW x \in Nat, NEW n \in 1..4, NEW k \in 0..4
  PROVE  Bit(x * 2^n, k) = IF k >= n THEN Bit(x, k - n) ELSE 0
<1>1. CASE k >= n
  <2>1. k - n \in 0..4 /\ n \in 0..8 /\ n \in 0..12 /\ n + (k - n) = k
    BY <1>1
  <2>2. 2^n \in Nat \ {0} /\ x * 2^n \in Nat
    <3>1. 2^n \in Nat \ {0}
      BY <2>1, Doubles
    <3>. QED
      BY <3>1
  <2>3. (x * 2^n) \div 2^n = x
    BY <2>2, SMT
  <2>4. Bit((x * 2^n) \div 2^n, k - n) = Bit(x * 2^n, n + (k - n))
    BY <2>1, <2>2, BitShifted
  <2>. QED
    BY <1>1, <2>1, <2>3, <2>4
<1>2. CASE k < n
  <2>1. CASE n = 1 /\ k = 0 BY <2>1 DEF Bit
  <2>2. CASE n = 2 /\ k = 0 BY <2>2 DEF Bit
  <2>3. CASE n = 2 /\ k = 1 BY <2>3 DEF Bit
  <2>4. CASE n = 3 /\ k = 0 BY <2>4 DEF Bit
  <2>5. CASE n = 3 /\ k = 1 BY <2>5 DEF Bit
  <2>6. CASE n = 3 /\ k = 2 BY <2>6 DEF Bit
  <2>7. CASE n = 4 /\ k = 0 BY <2>7 DEF Bit
  <2>8. CASE n = 4 /\ k = 1 BY <2>8 DEF Bit
  <2>9. CASE n = 4 /\ k = 2 BY <2>9 DEF Bit
  <2>10. CASE n = 4 /\ k = 3 BY <2>10 DEF Bit
  <2>. QED
    BY <1>2, <2>1, <2>2, <2>3, <2>4, <2>5, <2>6, <2>7, <2>8, <2>9, <2>10
<1>. QED
  BY <1>1, <1>2

\* A byte pushed into the buffer: its bits are the lowest, and at least the four
\* lowest bits the buffer had are above them, whatever fell off the word.
LEMMA BytePushed ==
  ASSUME NEW x \in Nat, NEW byte \in 0..255
  PROVE  LET y == ((x * 2^8) % Word) + byte
         IN /\ y \in Nat
            /\ \A j \in 0..7  : Bit(y, j) = Bit(byte, j)
            /\ \A j \in 8..11 : Bit(y, j) = Bit(x, j - 8)
<1>. DEFINE y == ((x * 2^8) % Word) + byte
<1>1. PICK c \in Nat : y = 256 * c + byte /\ c % 16 = x % 16
  <2>. DEFINE m == Word \div 4096  q == (x * 256) \div Word  r == (x * 256) % Word
  <2>1. m \in Nat /\ Word = 4096 * m
    BY WordType
  <2>2. q \in Nat /\ r \in Nat /\ x * 256 = Word * q + r
    BY WordType, SMT
  <2>. HIDE DEF m, q, r
  <2>3. PICK n \in Nat : n = m * q
    BY <2>1, <2>2
  <2>4. Word * q = 4096 * n
    BY <2>1, <2>2, <2>3, SMT
  <2>5. x * 256 = 4096 * n + r
    BY <2>2, <2>4
  <2>6. PICK c \in Nat : x = 16 * n + c /\ r = 256 * c
    <3>1. x - 16 * n \in Nat /\ r = 256 * (x - 16 * n)
      BY <2>2, <2>5
    <3>. QED
      BY <3>1
  <2>7. c % 16 = x % 16
    BY <2>6
  <2>8. y = r + byte
    BY DEF r
  <2>. QED
    BY <2>6, <2>7, <2>8
<1>. HIDE DEF y
<1>2. y \in Nat
  BY <1>1
<1>3. ASSUME NEW j \in 0..7 PROVE Bit(y, j) = Bit(byte, j)
  <2>0. CASE j = 0 BY <1>1, <2>0 DEF Bit
  <2>1. CASE j = 1 BY <1>1, <2>1 DEF Bit
  <2>2. CASE j = 2 BY <1>1, <2>2 DEF Bit
  <2>3. CASE j = 3 BY <1>1, <2>3 DEF Bit
  <2>4. CASE j = 4 BY <1>1, <2>4 DEF Bit
  <2>5. CASE j = 5 BY <1>1, <2>5 DEF Bit
  <2>6. CASE j = 6 BY <1>1, <2>6 DEF Bit
  <2>7. CASE j = 7 BY <1>1, <2>7 DEF Bit
  <2>. QED
    BY <2>0, <2>1, <2>2, <2>3, <2>4, <2>5, <2>6, <2>7
<1>4. ASSUME NEW j \in 8..11 PROVE Bit(y, j) = Bit(x, j - 8)
  <2>. DEFINE k == j - 8
  <2>1. k \in 0..3 /\ j = 8 + k
    OBVIOUS
  <2>2. y \div 256 = c
    BY <1>1
  <2>3. Bit(y \div 2^8, k) = Bit(y, 8 + k)
    BY <1>2, <2>1, BitShifted
  <2>4. Bit(c, k) = Bit(x, k)
    BY <1>1, <2>1, BitLow
  <2>. QED
    BY <2>1, <2>2, <2>3, <2>4
<1>. QED
  BY <1>2, <1>3, <1>4 DEF y

\* The last group: the remaining bits on the left, zeros to their right.
LEMMA RestLifted ==
  ASSUME NEW x \in Nat, NEW b \in 1..4
  PROVE  LET y == ((x * 2^(5 - b)) % Word) % 32
         IN /\ y \in 0..31
            /\ \A k \in 0..4 : Bit(y, k) = IF k >= 5 - b THEN Bit(x, k - (5 - b)) ELSE 0
<1>. DEFINE z == x * 2^(5 - b)  m == Word \div 4096  q == z \div Word  r == z % Word
<1>1. 5 - b \in 1..4 /\ 5 - b \in 0..12
  OBVIOUS
<1>2. z \in Nat
  <2>1. 2^(5 - b) \in Nat
    BY <1>1, Doubles
  <2>. QED
    BY <2>1
<1>3. r % 32 = z % 32
  <2>. HIDE DEF z
  <2>1. m \in Nat /\ Word = 4096 * m
    BY WordType
  <2>2. q \in Nat /\ r \in Nat /\ z = Word * q + r
    BY <1>2, WordType, SMT
  <2>. HIDE DEF m, q, r
  <2>3. PICK n \in Nat : n = m * q
    BY <2>1, <2>2
  <2>4. Word * q = 4096 * n
    BY <2>1, <2>2, <2>3, SMT
  <2>5. PICK k \in Nat : z = 32 * k + r
    <3>1. z = 32 * (128 * n) + r /\ 128 * n \in Nat
      BY <2>2, <2>4
    <3>. QED
      BY <3>1
  <2>. QED
    BY <2>2, <2>5
<1>4. \A k \in 0..4 : Bit(z % 32, k) = Bit(z, k)
  BY <1>2, BitMasked
<1>5. \A k \in 0..4 : Bit(z, k) = IF k >= 5 - b THEN Bit(x, k - (5 - b)) ELSE 0
  BY <1>1, BitLifted
<1>6. z % 32 \in 0..31
  BY <1>2
<1>. QED
  BY <1>3, <1>4, <1>5, <1>6

-----------------------------------------------------------------------------
(* The bits of a sequence. *)

\* The j-th bit from the right of the n-th number, and where it stands in BitsOf.
LEMMA BitsOfAt ==
  ASSUME NEW w \in {5, 8}, NEW s \in Seq(Nat), NEW n \in 1..Len(s), NEW j \in 0..(w - 1)
  PROVE  /\ w * n - j \in 1..(w * Len(s))
         /\ BitsOf(s, w)[w * n - j] = Bit(s[n], j)
<1>. DEFINE i == w * n - j
<1>1. /\ i \in 1..(w * Len(s))
      /\ (i - 1) \div w + 1 = n
      /\ w - 1 - ((i - 1) % w) = j
  <2>1. CASE w = 5
    BY <2>1
  <2>2. CASE w = 8
    BY <2>2
  <2>. QED
    BY <2>1, <2>2
<1>. HIDE DEF i
<1>2. BitsOf(s, w)[i] = (s[((i - 1) \div w) + 1] \div 2^(w - 1 - ((i - 1) % w))) % 2
  BY <1>1 DEF BitsOf
<1>. QED
  BY <1>1, <1>2 DEF Bit, i

\* Every position of BitsOf is such a bit.
LEMMA BitsOfSplit ==
  ASSUME NEW w \in {5, 8}, NEW len \in Nat, NEW i \in 1..(w * len)
  PROVE  \E n \in 1..len, j \in 0..(w - 1) : i = w * n - j
<1>1. CASE w = 5
  <2>. DEFINE n == (i + 4) \div 5  j == 5 * n - i
  <2>1. n \in 1..len /\ j \in 0..4 /\ i = 5 * n - j
    BY <1>1
  <2>. QED
    BY <1>1, <2>1
<1>2. CASE w = 8
  <2>. DEFINE n == (i + 7) \div 8  j == 8 * n - i
  <2>1. n \in 1..len /\ j \in 0..7 /\ i = 8 * n - j
    BY <1>2
  <2>. QED
    BY <1>2, <2>1
<1>. QED
  BY <1>1, <1>2

\* A number more adds its bits at the end and leaves the rest alone.
LEMMA BitsOfAppend ==
  ASSUME NEW w \in {5, 8}, NEW s \in Seq(Nat), NEW x \in Nat
  PROVE  /\ \A i \in 1..(w * Len(s)) : BitsOf(Append(s, x), w)[i] = BitsOf(s, w)[i]
         /\ \A j \in 0..(w - 1) : BitsOf(Append(s, x), w)[w * (Len(s) + 1) - j] = Bit(x, j)
<1>1. /\ Append(s, x) \in Seq(Nat) /\ Len(Append(s, x)) = Len(s) + 1
      /\ Append(s, x)[Len(s) + 1] = x
      /\ \A n \in 1..Len(s) : Append(s, x)[n] = s[n]
      /\ Len(s) \in Nat
  BY AppendProperties, LenProperties
<1>2. ASSUME NEW i \in 1..(w * Len(s)) PROVE BitsOf(Append(s, x), w)[i] = BitsOf(s, w)[i]
  <2>1. PICK n \in 1..Len(s), j \in 0..(w - 1) : i = w * n - j
    BY <1>1, BitsOfSplit
  <2>2. BitsOf(s, w)[w * n - j] = Bit(s[n], j)
    BY BitsOfAt
  <2>3. n \in 1..Len(Append(s, x))
    BY <1>1
  <2>4. BitsOf(Append(s, x), w)[w * n - j] = Bit(Append(s, x)[n], j)
    BY <1>1, <2>3, BitsOfAt
  <2>. QED
    BY <1>1, <2>1, <2>2, <2>4
<1>3. ASSUME NEW j \in 0..(w - 1)
      PROVE  BitsOf(Append(s, x), w)[w * (Len(s) + 1) - j] = Bit(x, j)
  <2>1. Len(s) + 1 \in 1..Len(Append(s, x))
    BY <1>1
  <2>. QED
    BY <1>1, <2>1, BitsOfAt
<1>. QED
  BY <1>2, <1>3

LEMMA ByteAppended ==
  ASSUME NEW s \in Seq(Nat), NEW x \in Nat
  PROVE  /\ Append(s, x) \in Seq(Nat) /\ Len(Append(s, x)) = Len(s) + 1
         /\ \A i \in 1..(8 * Len(s)) : BitsOf(Append(s, x), 8)[i] = BitsOf(s, 8)[i]
         /\ \A j \in 0..7 : BitsOf(Append(s, x), 8)[8 * (Len(s) + 1) - j] = Bit(x, j)
<1>1. 8 \in {5, 8} /\ 0..7 = 0..(8 - 1)
  OBVIOUS
<1>2. /\ \A i \in 1..(8 * Len(s)) : BitsOf(Append(s, x), 8)[i] = BitsOf(s, 8)[i]
      /\ \A j \in 0..(8 - 1) : BitsOf(Append(s, x), 8)[8 * (Len(s) + 1) - j] = Bit(x, j)
  BY <1>1, BitsOfAppend
<1>3. Append(s, x) \in Seq(Nat) /\ Len(Append(s, x)) = Len(s) + 1
  BY AppendProperties
<1>. QED
  BY <1>1, <1>2, <1>3

LEMMA GroupAppended ==
  ASSUME NEW s \in Seq(Nat), NEW x \in Nat
  PROVE  /\ Append(s, x) \in Seq(Nat) /\ Len(Append(s, x)) = Len(s) + 1
         /\ \A i \in 1..(5 * Len(s)) : BitsOf(Append(s, x), 5)[i] = BitsOf(s, 5)[i]
         /\ \A j \in 0..4 : BitsOf(Append(s, x), 5)[5 * (Len(s) + 1) - j] = Bit(x, j)
<1>1. 5 \in {5, 8} /\ 0..4 = 0..(5 - 1)
  OBVIOUS
<1>2. /\ \A i \in 1..(5 * Len(s)) : BitsOf(Append(s, x), 5)[i] = BitsOf(s, 5)[i]
      /\ \A j \in 0..(5 - 1) : BitsOf(Append(s, x), 5)[5 * (Len(s) + 1) - j] = Bit(x, j)
  BY <1>1, BitsOfAppend
<1>3. Append(s, x) \in Seq(Nat) /\ Len(Append(s, x)) = Len(s) + 1
  BY AppendProperties
<1>. QED
  BY <1>1, <1>2, <1>3

LEMMA BitsOfType ==
  ASSUME NEW w \in {5, 8}, NEW s \in Seq(Nat)
  PROVE  /\ BitsOf(s, w) \in Seq(0..1)
         /\ Len(BitsOf(s, w)) = w * Len(s)
         /\ DOMAIN BitsOf(s, w) = 1..(w * Len(s))
<1>1. Len(s) \in Nat /\ w * Len(s) \in Nat
  BY LenProperties
<1>2. \A i \in 1..(w * Len(s)) : BitsOf(s, w)[i] \in 0..1
  <2>. TAKE i \in 1..(w * Len(s))
  <2>1. PICK n \in 1..Len(s), j \in 0..(w - 1) : i = w * n - j
    BY <1>1, BitsOfSplit
  <2>2. 2^j \in Nat \ {0} /\ s[n] \in Nat
    <3>1. j \in 0..12
      OBVIOUS
    <3>. QED
      BY <3>1, Doubles, ElementOfSeq
  <2>3. Bit(s[n], j) \in 0..1
    BY <2>2, SMT DEF Bit
  <2>. QED
    BY <2>1, <2>3, BitsOfAt
<1>3. BitsOf(s, w) \in [1..(w * Len(s)) -> 0..1]
  BY <1>2 DEF BitsOf
<1>4. BitsOf(s, w) \in Seq(0..1)
  BY <1>1, <1>3, SeqDef
<1>. QED
  BY <1>1, <1>3, <1>4, LenProperties

-----------------------------------------------------------------------------
(* The encoder. *)

EncoderTyped ==
  /\ data \in Seq(Bytes) /\ out \in Seq(0..31)
  /\ buffer \in Nat
  /\ step \in {"byte", "emit", "done"}
  /\ bits_in_buffer \in IF step = "emit" THEN 0..12 ELSE 0..4

\* What is written is the input but for its last bits_in_buffer bits, and those are
\* the lowest of the buffer.
SplitInv ==
  step # "done" =>
    /\ 8 * Len(data) = 5 * Len(out) + bits_in_buffer
    /\ \A i \in 1..(5 * Len(out)) : BitsOf(out, 5)[i] = BitsOf(data, 8)[i]
    /\ \A j \in 0..(bits_in_buffer - 1) :
         Bit(buffer, j) = BitsOf(data, 8)[8 * Len(data) - j]

EncoderInv == EncoderTyped /\ SplitInv /\ EncodesTheBits

LEMMA EncoderStarts == EncoderInit => EncoderInv
<1>. SUFFICES ASSUME EncoderInit PROVE EncoderInv
  OBVIOUS
<1>1. data = <<>> /\ out = <<>> /\ Len(<<>>) = 0 /\ <<>> \in Seq(Bytes) /\ <<>> \in Seq(0..31)
  BY EmptySeq DEF EncoderInit
<1>. QED
  BY <1>1 DEF EncoderInit, EncoderInv, EncoderTyped, SplitInv, EncodesTheBits, Encodes

\* Sequences of bytes and of groups are sequences of numbers.
LEMMA NumbersOnly == EncoderTyped => data \in Seq(Nat) /\ out \in Seq(Nat)
<1>1. Bytes \subseteq Nat /\ 0..31 \subseteq Nat
  BY BytesType
<1>. QED
  BY <1>1, SeqMonotonic DEF EncoderTyped

LEMMA TakeByteKeeps == ASSUME EncoderInv, NEW byte \in Bytes, TakeByte(byte) PROVE EncoderInv'
<1>. USE DEF TakeByte, Shifted
<1>1. data \in Seq(Nat) /\ out \in Seq(Nat) /\ byte \in 0..255
  BY NumbersOnly, BytesType DEF EncoderInv
<1>2. /\ buffer' \in Nat
      /\ \A j \in 0..7  : Bit(buffer', j) = Bit(byte, j)
      /\ \A j \in 8..11 : Bit(buffer', j) = Bit(buffer, j - 8)
  BY <1>1, BytePushed DEF EncoderInv, EncoderTyped
<1>3. EncoderTyped'
  BY <1>2, AppendProperties DEF EncoderInv, EncoderTyped
<1>4. /\ Len(data) \in Nat /\ Len(out) \in Nat
      /\ Len(data') = Len(data) + 1
      /\ \A i \in 1..(8 * Len(data)) : BitsOf(data', 8)[i] = BitsOf(data, 8)[i]
      /\ \A j \in 0..7 : BitsOf(data', 8)[8 * (Len(data) + 1) - j] = Bit(byte, j)
  <2>1. byte \in Nat /\ data' = Append(data, byte)
    BY <1>1
  <2>. QED
    BY <1>1, <2>1, ByteAppended, LenProperties
<1>5. SplitInv'
  <2>1. 8 * Len(data) = 5 * Len(out) + bits_in_buffer /\ bits_in_buffer \in 0..4
    BY DEF EncoderInv, EncoderTyped, SplitInv
  <2>2. ASSUME NEW i \in 1..(5 * Len(out')) PROVE BitsOf(out', 5)[i] = BitsOf(data', 8)[i]
    <3>1. i \in 1..(8 * Len(data)) /\ i \in 1..(5 * Len(out))
      BY <1>4, <2>1
    <3>. QED
      BY <1>4, <3>1 DEF EncoderInv, SplitInv
  <2>3. ASSUME NEW j \in 0..(bits_in_buffer' - 1)
        PROVE  Bit(buffer', j) = BitsOf(data', 8)[8 * Len(data') - j]
    <3>1. CASE j \in 0..7
      BY <1>2, <1>4, <3>1
    <3>2. CASE j \in 8..11
      <4>1. j - 8 \in 0..(bits_in_buffer - 1)
        BY <2>1, <3>2
      <4>2. Bit(buffer, j - 8) = BitsOf(data, 8)[8 * Len(data) - (j - 8)]
        BY <4>1 DEF EncoderInv, SplitInv
      <4>3. 8 * Len(data) - (j - 8) \in 1..(8 * Len(data))
        BY <1>4, <2>1, <4>1
      <4>4. 8 * Len(data') - j = 8 * Len(data) - (j - 8)
        BY <1>4, <3>2
      <4>. QED
        BY <1>2, <1>4, <3>2, <4>2, <4>3, <4>4
    <3>. QED
      BY <2>1, <3>1, <3>2
  <2>4. 8 * Len(data') = 5 * Len(out') + bits_in_buffer'
    BY <1>4, <2>1
  <2>. QED
    BY <2>2, <2>3, <2>4 DEF SplitInv
<1>6. EncodesTheBits'
  BY DEF EncodesTheBits
<1>. QED
  BY <1>3, <1>5, <1>6 DEF EncoderInv

LEMMA EmitGroupKeeps == ASSUME EncoderInv, EmitGroup PROVE EncoderInv'
<1>1. data \in Seq(Nat) /\ out \in Seq(Nat)
  BY NumbersOnly DEF EncoderInv
<1>2. Len(data) \in Nat /\ Len(out) \in Nat
  BY <1>1, LenProperties
<1>3. /\ 8 * Len(data) = 5 * Len(out) + bits_in_buffer /\ bits_in_buffer \in 0..12
      /\ buffer \in Nat
  BY DEF EncoderInv, EncoderTyped, SplitInv, EmitGroup
<1>4. EncodesTheBits'
  BY DEF EmitGroup, EncodesTheBits
<1>5. CASE bits_in_buffer < 5
  <2>1. EncoderTyped'
    BY <1>3, <1>5 DEF EmitGroup, EncoderInv, EncoderTyped
  <2>2. SplitInv'
    BY <1>3, <1>5 DEF EmitGroup, EncoderInv, SplitInv
  <2>. QED
    BY <1>4, <2>1, <2>2 DEF EncoderInv
<1>6. CASE bits_in_buffer >= 5
  <2>. DEFINE b == bits_in_buffer - 5  group == (buffer \div 2^b) % 32
  <2>1. /\ bits_in_buffer' = b /\ out' = Append(out, group) /\ step' = "emit"
        /\ data' = data /\ buffer' = buffer /\ b \in 0..7
    BY <1>3, <1>6 DEF EmitGroup
  <2>2. buffer \div 2^b \in Nat
    <3>1. 2^b \in Nat \ {0}
      <4>1. b \in 0..12
        BY <2>1
      <4>. QED
        BY <4>1, Doubles
    <3>. QED
      BY <1>3, <3>1, SMT
  <2>3. group \in 0..31
    BY <2>2
  <2>4. ASSUME NEW k \in 0..4 PROVE Bit(group, k) = Bit(buffer, b + k)
    <3>1. Bit(group, k) = Bit(buffer \div 2^b, k)
      BY <2>2, BitMasked
    <3>2. b \in 0..8
      BY <2>1
    <3>. QED
      BY <1>3, <3>1, <3>2, BitShifted
  <2>. HIDE DEF group
  <2>5. EncoderTyped'
    BY <2>1, <2>3, AppendProperties DEF EmitGroup, EncoderInv, EncoderTyped
  <2>6. /\ out' \in Seq(Nat) /\ Len(out') = Len(out) + 1
        /\ \A i \in 1..(5 * Len(out)) : BitsOf(out', 5)[i] = BitsOf(out, 5)[i]
        /\ \A k \in 0..4 : BitsOf(out', 5)[5 * (Len(out) + 1) - k] = Bit(group, k)
    <3>1. group \in Nat
      BY <2>3
    <3>. QED
      BY <1>1, <2>1, <3>1, GroupAppended
  <2>7. Len(out') = Len(out) + 1
    BY <2>6
  <2>8. ASSUME NEW i \in 1..(5 * Len(out')) PROVE BitsOf(out', 5)[i] = BitsOf(data', 8)[i]
    <3>1. CASE i <= 5 * Len(out)
      BY <1>2, <2>1, <2>6, <3>1 DEF EncoderInv, SplitInv, EmitGroup
    <3>2. CASE i > 5 * Len(out)
      <4>. DEFINE k == 5 * (Len(out) + 1) - i
      <4>1. k \in 0..4 /\ i = 5 * (Len(out) + 1) - k
        BY <1>2, <2>7, <3>2
      <4>2. b + k \in 0..(bits_in_buffer - 1)
        BY <1>3, <1>6, <4>1
      <4>3. Bit(buffer, b + k) = BitsOf(data, 8)[8 * Len(data) - (b + k)]
        BY <4>2 DEF EncoderInv, SplitInv, EmitGroup
      <4>4. 8 * Len(data) - (b + k) = i
        BY <1>2, <1>3, <4>1
      <4>. QED
        BY <2>1, <2>4, <2>6, <4>1, <4>3, <4>4
    <3>. QED
      BY <1>2, <3>1, <3>2
  <2>9. ASSUME NEW j \in 0..(bits_in_buffer' - 1)
        PROVE  Bit(buffer', j) = BitsOf(data', 8)[8 * Len(data') - j]
    <3>1. j \in 0..(bits_in_buffer - 1)
      BY <1>3, <2>1
    <3>. QED
      BY <2>1, <3>1 DEF EncoderInv, SplitInv, EmitGroup
  <2>10. 8 * Len(data') = 5 * Len(out') + bits_in_buffer'
    BY <1>2, <1>3, <2>1, <2>7
  <2>. QED
    BY <1>4, <2>5, <2>8, <2>9, <2>10 DEF EncoderInv, SplitInv
<1>. QED
  BY <1>3, <1>5, <1>6

LEMMA EmitRestKeeps == ASSUME EncoderInv, EmitRest PROVE EncoderInv'
<1>. DEFINE b == bits_in_buffer  group == Shifted(5 - b) % 32
<1>1. data \in Seq(Nat) /\ out \in Seq(Nat)
  BY NumbersOnly DEF EncoderInv
<1>2. Len(data) \in Nat /\ Len(out) \in Nat
  BY <1>1, LenProperties
<1>3. 8 * Len(data) = 5 * Len(out) + b /\ b \in 0..4 /\ buffer \in Nat
  BY DEF EncoderInv, EncoderTyped, SplitInv, EmitRest
<1>4. data' = data /\ step' = "done" /\ buffer' = buffer /\ bits_in_buffer' = b
  BY DEF EmitRest
<1>5. SplitInv'
  BY <1>4 DEF SplitInv
<1>6. CASE b = 0
  <2>1. out' = out
    BY <1>6 DEF EmitRest
  <2>2. EncoderTyped'
    BY <1>4, <2>1 DEF EncoderInv, EncoderTyped, EmitRest
  <2>3. /\ Len(BitsOf(data', 8)) = 8 * Len(data) /\ DOMAIN BitsOf(data', 8) = 1..(8 * Len(data))
        /\ Len(BitsOf(out', 5)) = 5 * Len(out) /\ DOMAIN BitsOf(out', 5) = 1..(5 * Len(out))
    BY <1>1, <1>4, <2>1, BitsOfType
  <2>4. \A i \in 1..(5 * Len(out)) : BitsOf(out', 5)[i] = BitsOf(data', 8)[i]
    BY <1>4, <2>1 DEF EncoderInv, SplitInv, EmitRest
  <2>5. EncodesTheBits'
    BY <1>2, <1>3, <1>6, <2>3, <2>4 DEF EncodesTheBits, Encodes
  <2>. QED
    BY <1>5, <2>2, <2>5 DEF EncoderInv
<1>7. CASE b \in 1..4
  <2>1. out' = Append(out, group)
    BY <1>7 DEF EmitRest
  <2>2. /\ group \in 0..31
        /\ \A k \in 0..4 : Bit(group, k) = IF k >= 5 - b THEN Bit(buffer, k - (5 - b)) ELSE 0
    BY <1>3, <1>7, RestLifted DEF Shifted
  <2>. HIDE DEF group
  <2>3. EncoderTyped'
    BY <1>3, <1>4, <2>1, <2>2, AppendProperties DEF EncoderInv, EncoderTyped
  <2>4. /\ out' \in Seq(Nat) /\ Len(out') = Len(out) + 1
        /\ \A i \in 1..(5 * Len(out)) : BitsOf(out', 5)[i] = BitsOf(out, 5)[i]
        /\ \A k \in 0..4 : BitsOf(out', 5)[5 * (Len(out) + 1) - k] = Bit(group, k)
    <3>1. group \in Nat
      BY <2>2
    <3>. QED
      BY <1>1, <2>1, <3>1, GroupAppended
  <2>5. /\ Len(BitsOf(data', 8)) = 8 * Len(data) /\ DOMAIN BitsOf(data', 8) = 1..(8 * Len(data))
        /\ Len(BitsOf(out', 5)) = 5 * (Len(out) + 1)
        /\ DOMAIN BitsOf(out', 5) = 1..(5 * (Len(out) + 1))
    BY <1>1, <1>4, <2>4, BitsOfType
  <2>6. ASSUME NEW i \in 1..(5 * (Len(out) + 1))
        PROVE  BitsOf(out', 5)[i] = IF i \in 1..(8 * Len(data)) THEN BitsOf(data', 8)[i] ELSE 0
    <3>1. CASE i <= 5 * Len(out)
      <4>1. i \in 1..(5 * Len(out)) /\ i \in 1..(8 * Len(data))
        BY <1>2, <1>3, <3>1
      <4>. QED
        BY <1>4, <2>4, <4>1 DEF EncoderInv, SplitInv, EmitRest
    <3>2. CASE i > 5 * Len(out)
      <4>. DEFINE k == 5 * (Len(out) + 1) - i
      <4>1. k \in 0..4 /\ i = 5 * (Len(out) + 1) - k
        BY <1>2, <3>2
      <4>2. BitsOf(out', 5)[i] = Bit(group, k)
        BY <2>4, <4>1
      <4>3. CASE k >= 5 - b
        <5>1. k - (5 - b) \in 0..(b - 1)
          BY <1>7, <4>1, <4>3
        <5>2. Bit(buffer, k - (5 - b)) = BitsOf(data, 8)[8 * Len(data) - (k - (5 - b))]
          BY <5>1 DEF EncoderInv, SplitInv, EmitRest
        <5>3. 8 * Len(data) - (k - (5 - b)) = i /\ i \in 1..(8 * Len(data))
          BY <1>2, <1>3, <4>1, <4>3
        <5>. QED
          BY <1>4, <2>2, <4>1, <4>2, <4>3, <5>2, <5>3
      <4>4. CASE k < 5 - b
        <5>1. i > 8 * Len(data)
          BY <1>2, <1>3, <4>1, <4>4
        <5>. QED
          BY <1>2, <1>3, <2>2, <4>1, <4>2, <4>4, <5>1
      <4>. QED
        BY <1>3, <4>1, <4>3, <4>4
    <3>. QED
      BY <1>2, <3>1, <3>2
  <2>7. 5 * (Len(out) + 1) \in (8 * Len(data))..(8 * Len(data) + 4)
    BY <1>2, <1>3, <1>7
  <2>8. EncodesTheBits'
    BY <2>5, <2>6, <2>7 DEF EncodesTheBits, Encodes
  <2>. QED
    BY <1>5, <2>3, <2>8 DEF EncoderInv
<1>. QED
  BY <1>3, <1>6, <1>7

\* The encoder writes the bits of its input in fives, filled up with zeros to a whole
\* group and no further, for every input and although the buffer's word overflows:
\* twelve bits of word are enough.
THEOREM EncoderIsRight == EncoderSpec => []EncodesTheBits
<1>1. EncoderInv /\ [EncoderNext]_encoderVars => EncoderInv'
  <2>1. EncoderInv /\ UNCHANGED encoderVars => EncoderInv'
    BY DEF encoderVars, EncoderInv, EncoderTyped, SplitInv, EncodesTheBits, Encodes
  <2>. QED
    BY <2>1, TakeByteKeeps, EmitGroupKeeps, EmitRestKeeps DEF EncoderNext
<1>2. EncoderInv => EncodesTheBits
  BY DEF EncoderInv
<1>. QED
  BY <1>1, <1>2, EncoderStarts, PTL DEF EncoderSpec

LEMMA SubsetSeq == ASSUME NEW S, S \subseteq Nat, NEW s \in Seq(S) PROVE s \in Seq(Nat)
BY SeqMonotonic, Zenon

LEMMA ByteOfBits ==
  ASSUME NEW x \in 0..255
  PROVE  x = Bit(x, 0) + 2 * Bit(x, 1) + 4 * Bit(x, 2) + 8 * Bit(x, 3)
               + 16 * Bit(x, 4) + 32 * Bit(x, 5) + 64 * Bit(x, 6) + 128 * Bit(x, 7)
BY DEF Bit

\* An encoded digest can be read back: two digests of the same length that are encoded
\* the same are the same, so that two slots of a domain differ when their digests do.
THEOREM DigestsStayApart ==
  ASSUME NEW s \in Seq(0..255), NEW t \in Seq(0..255), NEW o \in Seq(0..31),
         Len(s) = Len(t), Encodes(s, o), Encodes(t, o)
  PROVE  s = t
<1>1. s \in Seq(Nat) /\ t \in Seq(Nat) /\ o \in Seq(Nat)
  <2>1. 0..255 \subseteq Nat /\ 0..31 \subseteq Nat
    OBVIOUS
  <2>2. s \in Seq(Nat) /\ t \in Seq(Nat)
    BY <2>1, SubsetSeq
  <2>3. o \in Seq(Nat)
    BY <2>1, SubsetSeq
  <2>. QED
    BY <2>2, <2>3
<1>2. /\ Len(BitsOf(s, 8)) = 8 * Len(s) /\ DOMAIN BitsOf(s, 8) = 1..(8 * Len(s))
      /\ Len(BitsOf(t, 8)) = 8 * Len(s) /\ DOMAIN BitsOf(t, 8) = 1..(8 * Len(s))
      /\ Len(BitsOf(o, 5)) = 5 * Len(o) /\ DOMAIN BitsOf(o, 5) = 1..(5 * Len(o))
      /\ Len(s) \in Nat /\ Len(o) \in Nat
  BY <1>1, BitsOfType, LenProperties
<1>3. \A i \in 1..(8 * Len(s)) : BitsOf(s, 8)[i] = BitsOf(t, 8)[i]
  <2>. TAKE i \in 1..(8 * Len(s))
  <2>1. i \in 1..(5 * Len(o))
    BY <1>2 DEF Encodes
  <2>. QED
    BY <1>2, <2>1 DEF Encodes
<1>4. ASSUME NEW n \in 1..Len(s) PROVE s[n] = t[n]
  <2>1. \A j \in 0..7 : Bit(s[n], j) = Bit(t[n], j)
    <3>. TAKE j \in 0..7
    <3>1. 8 \in {5, 8} /\ j \in 0..(8 - 1) /\ n \in 1..Len(t)
      OBVIOUS
    <3>2. 8 * n - j \in 1..(8 * Len(s)) /\ BitsOf(s, 8)[8 * n - j] = Bit(s[n], j)
      BY <1>1, <3>1, BitsOfAt
    <3>3. BitsOf(t, 8)[8 * n - j] = Bit(t[n], j)
      BY <1>1, <3>1, BitsOfAt
    <3>. QED
      BY <1>3, <3>2, <3>3
  <2>2. /\ Bit(s[n], 0) = Bit(t[n], 0) /\ Bit(s[n], 1) = Bit(t[n], 1)
        /\ Bit(s[n], 2) = Bit(t[n], 2) /\ Bit(s[n], 3) = Bit(t[n], 3)
        /\ Bit(s[n], 4) = Bit(t[n], 4) /\ Bit(s[n], 5) = Bit(t[n], 5)
        /\ Bit(s[n], 6) = Bit(t[n], 6) /\ Bit(s[n], 7) = Bit(t[n], 7)
    BY <2>1
  <2>3. s[n] \in 0..255 /\ t[n] \in 0..255
    BY ElementOfSeq
  <2>. QED
    BY <2>2, <2>3, ByteOfBits
<1>. QED
  BY <1>4, SeqEqual

-----------------------------------------------------------------------------
(* Addresses. *)

\* A nonempty set of numbers has a least one.
LEMMA LeastOf ==
  ASSUME NEW S, S \subseteq Nat, S # {}
  PROVE  \E x \in S : \A y \in S : x <= y
<1>1. PICK x \in S : \A y \in S : ~ (<<y, x>> \in OpToRel(<, Nat))
  BY NatLessThanWellFounded, WFMin
<1>2. \A y \in S : ~ (y < x)
  BY <1>1 DEF OpToRel
<1>3. x \in Nat /\ \A y \in S : y \in Nat
  OBVIOUS
<1>4. \A y \in S : x <= y
  BY <1>2, <1>3
<1>. QED
  BY <1>4

LEMMA IntervalLength ==
  ASSUME NEW m \in Nat, NEW n \in Nat, 1..m = 1..n
  PROVE  m = n
<1>1. ASSUME m < n PROVE FALSE
  <2>1. n \in 1..n /\ n \notin 1..m
    BY <1>1
  <2>. QED
    BY <2>1
<1>2. ASSUME n < m PROVE FALSE
  <2>1. m \in 1..m /\ m \notin 1..n
    BY <1>2
  <2>. QED
    BY <2>1
<1>. QED
  BY <1>1, <1>2

\* Lowering keeps the length, and a letter is no separator.
LEMMA LoweredType ==
  ASSUME NEW s \in Seq(Chars)
  PROVE  /\ Lowered(s) \in Seq(Chars) /\ Len(Lowered(s)) = Len(s)
         /\ \A i \in 1..Len(s) :
              Lowered(s)[i] = IF s[i] \in Capital THEN LowerOf[s[i]] ELSE s[i]
<1>1. /\ Len(s) \in Nat /\ DOMAIN s = 1..Len(s)
      /\ \A i \in 1..Len(s) : s[i] \in Chars
  BY LenProperties, ElementOfSeq
<1>2. Lowered(s) \in [1..Len(s) -> Chars]
  BY <1>1, LowerOfType DEF Lowered, Chars
<1>3. Lowered(s) \in Seq(Chars)
  BY <1>1, <1>2, SeqDef
<1>4. DOMAIN Lowered(s) = 1..Len(Lowered(s)) /\ DOMAIN Lowered(s) = 1..Len(s)
      /\ Len(Lowered(s)) \in Nat
  BY <1>2, <1>3, LenProperties
<1>5. Len(Lowered(s)) = Len(s)
  BY <1>1, <1>4, IntervalLength
<1>. QED
  BY <1>1, <1>3, <1>5 DEF Lowered

LEMMA LoweredKeepsAt ==
  ASSUME NEW s \in Seq(Chars), NEW i \in 1..Len(s)
  PROVE  Lowered(s)[i] = "@" <=> s[i] = "@"
<1>1. Lowered(s)[i] = IF s[i] \in Capital THEN LowerOf[s[i]] ELSE s[i]
  BY LoweredType
<1>2. "@" \notin Capital /\ \A c \in Capital : LowerOf[c] \in Small /\ LowerOf[c] # "@"
  BY LowerOfType, LettersOnly
<1>. QED
  BY <1>1, <1>2

\* The first @ is where there is none before it, and there is no other such place.
LEMMA FirstAtIs ==
  ASSUME NEW s \in Seq(Chars), Has(s, "@")
  PROVE  /\ FirstAt(s) \in 1..Len(s) /\ s[FirstAt(s)] = "@"
         /\ \A j \in 1..(FirstAt(s) - 1) : s[j] # "@"
<1>1. DOMAIN s = 1..Len(s) /\ Len(s) \in Nat
  BY LenProperties
<1>. DEFINE S == {i \in 1..Len(s) : s[i] = "@"}
<1>2. S \subseteq Nat /\ S # {}
  BY <1>1 DEF Has
<1>3. PICK x \in S : \A y \in S : x <= y
  BY <1>2, LeastOf
<1>4. x \in DOMAIN s /\ s[x] = "@" /\ \A j \in 1..(x - 1) : s[j] # "@"
  BY <1>1, <1>3
<1>5. /\ FirstAt(s) \in DOMAIN s /\ s[FirstAt(s)] = "@"
      /\ \A j \in 1..(FirstAt(s) - 1) : s[j] # "@"
  BY <1>4 DEF FirstAt
<1>. QED
  BY <1>1, <1>5

LEMMA PartsAre ==
  ASSUME NEW s \in Seq(Chars), Has(s, "@")
  PROVE  LET f == FirstAt(s)
         IN /\ LocalPart(s) \in Seq(Chars) /\ Len(LocalPart(s)) = f - 1
            /\ \A i \in 1..(f - 1) : LocalPart(s)[i] = s[i]
            /\ DomainPart(s) \in Seq(Chars) /\ Len(DomainPart(s)) = Len(s) - f
            /\ \A i \in 1..(Len(s) - f) : DomainPart(s)[i] = s[f + i]
<1>. DEFINE f == FirstAt(s)
<1>1. f \in 1..Len(s) /\ Len(s) \in Nat
  BY FirstAtIs, LenProperties
<1>. HIDE DEF f
<1>2. \A i \in 1..Len(s) : s[i] \in Chars
  BY ElementOfSeq
<1>3. /\ SubSeq(s, 1, f - 1) \in Seq(Chars)
      /\ Len(SubSeq(s, 1, f - 1)) = IF 1 <= f - 1 THEN f - 1 - 1 + 1 ELSE 0
      /\ \A i \in 1..(f - 1 - 1 + 1) : SubSeq(s, 1, f - 1)[i] = s[1 + i - 1]
  <2>1. \A i \in 1..(f - 1) : s[i] \in Chars
    BY <1>1, <1>2
  <2>2. 1 \in Int /\ f - 1 \in Int
    BY <1>1
  <2>. QED
    BY <2>1, <2>2, SubSeqProperties
<1>4. /\ SubSeq(s, f + 1, Len(s)) \in Seq(Chars)
      /\ Len(SubSeq(s, f + 1, Len(s))) = IF f + 1 <= Len(s) THEN Len(s) - (f + 1) + 1 ELSE 0
      /\ \A i \in 1..(Len(s) - (f + 1) + 1) : SubSeq(s, f + 1, Len(s))[i] = s[f + 1 + i - 1]
  <2>1. \A i \in (f + 1)..Len(s) : s[i] \in Chars
    BY <1>1, <1>2
  <2>2. f + 1 \in Int /\ Len(s) \in Int
    BY <1>1
  <2>. QED
    BY <2>1, <2>2, SubSeqProperties
<1>. QED
  BY <1>1, <1>3, <1>4 DEF LocalPart, DomainPart, f

\* What split_address accepts is an address with one @, and that inside.
LEMMA ValidShape ==
  ASSUME NEW s \in Seq(Chars)
  PROVE  /\ Valid(s) => /\ Has(s, "@") /\ FirstAt(s) \in 2..(Len(s) - 1)
                        /\ \A i \in 1..Len(s) : s[i] = "@" <=> i = FirstAt(s)
         /\ \A f \in 2..(Len(s) - 1) :
              (\A i \in 1..Len(s) : s[i] = "@" <=> i = f) => Valid(s)
<1>1. Len(s) \in Nat /\ DOMAIN s = 1..Len(s)
  BY LenProperties
<1>2. ASSUME Valid(s)
      PROVE  /\ Has(s, "@") /\ FirstAt(s) \in 2..(Len(s) - 1)
             /\ \A i \in 1..Len(s) : s[i] = "@" <=> i = FirstAt(s)
  <2>. DEFINE f == FirstAt(s)
  <2>1. Has(s, "@") /\ LocalPart(s) # <<>> /\ DomainPart(s) # <<>> /\ ~ Has(DomainPart(s), "@")
    BY <1>2 DEF Valid
  <2>2. f \in 1..Len(s) /\ s[f] = "@" /\ \A j \in 1..(f - 1) : s[j] # "@"
    BY <2>1, FirstAtIs
  <2>3. /\ Len(LocalPart(s)) = f - 1 /\ LocalPart(s) \in Seq(Chars)
        /\ Len(DomainPart(s)) = Len(s) - f /\ DomainPart(s) \in Seq(Chars)
        /\ \A i \in 1..(Len(s) - f) : DomainPart(s)[i] = s[f + i]
    BY <2>1, PartsAre
  <2>4. Len(LocalPart(s)) \in Nat \ {0} /\ Len(DomainPart(s)) \in Nat \ {0}
    BY <2>1, <2>3, EmptySeq
  <2>5. DOMAIN DomainPart(s) = 1..(Len(s) - f)
    BY <2>3, LenProperties
  <2>6. ASSUME NEW i \in 1..Len(s), i > f PROVE s[i] # "@"
    <3>1. i - f \in 1..(Len(s) - f) /\ f + (i - f) = i
      BY <1>1, <2>2, <2>6
    <3>2. DomainPart(s)[i - f] # "@"
      BY <2>1, <2>5, <3>1 DEF Has
    <3>. QED
      BY <2>3, <3>1, <3>2
  <2>7. f \in 2..(Len(s) - 1)
    BY <1>1, <2>2, <2>3, <2>4
  <2>8. \A i \in 1..Len(s) : s[i] = "@" <=> i = f
    BY <1>1, <2>2, <2>6
  <2>. QED
    BY <2>1, <2>7, <2>8
<1>3. ASSUME NEW f \in 2..(Len(s) - 1), \A i \in 1..Len(s) : s[i] = "@" <=> i = f
      PROVE  Valid(s)
  <2>1. f \in 1..Len(s) /\ s[f] = "@"
    BY <1>1, <1>3
  <2>2. Has(s, "@")
    BY <1>1, <2>1 DEF Has
  <2>3. FirstAt(s) = f
    BY <1>3, <2>2, FirstAtIs
  <2>4. /\ Len(LocalPart(s)) = f - 1 /\ LocalPart(s) \in Seq(Chars)
        /\ Len(DomainPart(s)) = Len(s) - f /\ DomainPart(s) \in Seq(Chars)
        /\ \A i \in 1..(Len(s) - f) : DomainPart(s)[i] = s[f + i]
    BY <2>2, <2>3, PartsAre
  <2>5. LocalPart(s) # <<>> /\ DomainPart(s) # <<>>
    BY <1>1, <2>4, EmptySeq
  <2>6. DOMAIN DomainPart(s) = 1..(Len(s) - f)
    BY <2>4, LenProperties
  <2>7. ASSUME NEW i \in 1..(Len(s) - f) PROVE DomainPart(s)[i] # "@"
    <3>1. f + i \in 1..Len(s) /\ f + i # f
      BY <1>1, <2>1
    <3>. QED
      BY <1>3, <2>4, <3>1
  <2>. QED
    BY <2>2, <2>5, <2>6, <2>7 DEF Valid, Has
<1>. QED
  BY <1>2, <1>3

AddressTypeOK == address \in Seq(Chars)

LEMMA AddressTyped == AddressSpec => []AddressTypeOK
<1>1. AddressInit => AddressTypeOK
  BY EmptySeq DEF AddressInit, AddressTypeOK
<1>2. AddressTypeOK /\ [AddressNext]_address => AddressTypeOK'
  BY AppendProperties DEF AddressNext, AddressTypeOK
<1>. QED
  BY <1>1, <1>2, PTL DEF AddressSpec

\* split_address accepts exactly the addresses with one @ and something on either side
\* of it, over any alphabet and at any length.
THEOREM AcceptsRight == AddressSpec => []AcceptsExactlyOneAt
<1>1. ASSUME AddressTypeOK PROVE AcceptsExactlyOneAt
  <2>. USE <1>1 DEF AddressTypeOK
  <2>. DEFINE S == {i \in DOMAIN address : address[i] = "@"}  n == Len(address)
  <2>1. n \in Nat /\ DOMAIN address = 1..n
    BY <1>1, LenProperties
  <2>2. IsFiniteSet(S)
    <3>1. IsFiniteSet(1..n)
      BY <2>1, FS_Interval
    <3>2. S \in SUBSET (1..n)
      BY <2>1
    <3>. QED
      BY <3>1, <3>2, FS_Subset
  <2>3. ASSUME Valid(address)
        PROVE  Cardinality(S) = 1 /\ address[1] # "@" /\ address[n] # "@"
    <3>. DEFINE f == FirstAt(address)
    <3>1. f \in 2..(n - 1) /\ \A i \in 1..n : address[i] = "@" <=> i = f
      BY <1>1, <2>3, ValidShape
    <3>2. S = {f}
      BY <2>1, <3>1
    <3>3. 1 \in 1..n /\ n \in 1..n /\ 1 # f /\ n # f
      BY <2>1, <3>1
    <3>. QED
      BY <3>1, <3>2, <3>3, FS_Singleton
  <2>4. ASSUME Cardinality(S) = 1, address[1] # "@", address[n] # "@"
        PROVE  Valid(address)
    <3>1. PICK x : S = {x}
      BY <2>2, <2>4, FS_Singleton
    <3>2. x \in 1..n /\ address[x] = "@"
      BY <2>1, <3>1
    <3>3. x \in 2..(n - 1)
      BY <2>1, <2>4, <3>2
    <3>4. \A i \in 1..n : address[i] = "@" <=> i = x
      BY <2>1, <3>1, <3>2
    <3>. QED
      BY <1>1, <3>3, <3>4, ValidShape
  <2>. QED
    BY <2>3, <2>4 DEF AcceptsExactlyOneAt
<1>. QED
  BY <1>1, AddressTyped, PTL

\* The parts of a lowered address are its lowered parts.
LEMMA LoweredParts ==
  ASSUME NEW s \in Seq(Chars), Valid(s)
  PROVE  LET f == FirstAt(s)
         IN /\ Lowered(LocalPart(s)) \in Seq(Chars) /\ Len(Lowered(LocalPart(s))) = f - 1
            /\ \A i \in 1..(f - 1) : Lowered(LocalPart(s))[i] = Lowered(s)[i]
            /\ Lowered(DomainPart(s)) \in Seq(Chars)
            /\ Len(Lowered(DomainPart(s))) = Len(s) - f
            /\ \A i \in 1..(Len(s) - f) : Lowered(DomainPart(s))[i] = Lowered(s)[f + i]
<1>. DEFINE f == FirstAt(s)
<1>1. /\ f \in 2..(Len(s) - 1) /\ Len(s) \in Nat
      /\ LocalPart(s) \in Seq(Chars) /\ Len(LocalPart(s)) = f - 1
      /\ \A i \in 1..(f - 1) : LocalPart(s)[i] = s[i]
      /\ DomainPart(s) \in Seq(Chars) /\ Len(DomainPart(s)) = Len(s) - f
      /\ \A i \in 1..(Len(s) - f) : DomainPart(s)[i] = s[f + i]
  BY ValidShape, PartsAre, LenProperties
<1>2. \A i \in 1..Len(s) : Lowered(s)[i] = IF s[i] \in Capital THEN LowerOf[s[i]] ELSE s[i]
  BY LoweredType
<1>3. /\ Lowered(LocalPart(s)) \in Seq(Chars) /\ Len(Lowered(LocalPart(s))) = f - 1
      /\ \A i \in 1..(f - 1) : Lowered(LocalPart(s))[i] =
           IF LocalPart(s)[i] \in Capital THEN LowerOf[LocalPart(s)[i]] ELSE LocalPart(s)[i]
  BY <1>1, LoweredType
<1>4. /\ Lowered(DomainPart(s)) \in Seq(Chars) /\ Len(Lowered(DomainPart(s))) = Len(s) - f
      /\ \A i \in 1..(Len(s) - f) : Lowered(DomainPart(s))[i] =
           IF DomainPart(s)[i] \in Capital THEN LowerOf[DomainPart(s)[i]] ELSE DomainPart(s)[i]
  BY <1>1, LoweredType
<1>. HIDE DEF f
<1>5. \A i \in 1..(f - 1) : i \in 1..Len(s)
  BY <1>1
<1>6. \A i \in 1..(Len(s) - f) : f + i \in 1..Len(s)
  BY <1>1
<1>7. \A i \in 1..(f - 1) : Lowered(LocalPart(s))[i] = Lowered(s)[i]
  BY <1>1, <1>2, <1>3, <1>5
<1>8. \A i \in 1..(Len(s) - f) : Lowered(DomainPart(s))[i] = Lowered(s)[f + i]
  BY <1>1, <1>2, <1>4, <1>6
<1>. QED
  BY <1>3, <1>4, <1>7, <1>8 DEF f

\* The ownership check and the table take the same two spellings for the same, over any
\* alphabet and for addresses of any length: an owner publishes for what is owned only.
THEOREM OwnedIsSlot == AddressSpec => []OwnedIsPublished
<1>1. ASSUME address \in Seq(Chars), NEW other \in [1..Len(address) -> Chars]
      PROVE  /\ EqIgnoreCase(address, other) => (Valid(address) <=> Valid(other))
             /\ Valid(address) /\ Valid(other) =>
                  (EqIgnoreCase(address, other) <=> Slot(address) = Slot(other))
  <2>. DEFINE n == Len(address)
  <2>1. n \in Nat /\ DOMAIN address = 1..n
    BY <1>1, LenProperties
  <2>2. other \in Seq(Chars) /\ Len(other) = n
    <3>1. other \in Seq(Chars)
      BY <1>1, <2>1, SeqDef
    <3>2. 1..Len(other) = 1..n /\ Len(other) \in Nat
      BY <1>1, <3>1, LenProperties
    <3>. QED
      BY <2>1, <3>1, <3>2, IntervalLength
  <2>3. ASSUME EqIgnoreCase(address, other) PROVE Valid(address) <=> Valid(other)
    <3>1. \A i \in 1..n : address[i] = "@" <=> other[i] = "@"
      BY <1>1, <2>2, <2>3, LoweredKeepsAt DEF EqIgnoreCase
    <3>2. ASSUME Valid(address) PROVE Valid(other)
      <4>1. /\ FirstAt(address) \in 2..(n - 1)
            /\ \A i \in 1..n : address[i] = "@" <=> i = FirstAt(address)
        BY <1>1, <3>2, ValidShape
      <4>2. PICK f \in 2..(Len(other) - 1) : \A i \in 1..Len(other) : other[i] = "@" <=> i = f
        <5>1. /\ FirstAt(address) \in 2..(Len(other) - 1)
              /\ \A i \in 1..Len(other) : other[i] = "@" <=> i = FirstAt(address)
          <6>1. \A i \in 1..n : other[i] = "@" <=> i = FirstAt(address)
            BY <3>1, <4>1
          <6>. QED
            BY <2>2, <4>1, <6>1
        <5>. QED
          BY <5>1
      <4>. QED
        BY <2>2, <4>2, ValidShape
    <3>3. ASSUME Valid(other) PROVE Valid(address)
      <4>1. /\ FirstAt(other) \in 2..(n - 1)
            /\ \A i \in 1..n : other[i] = "@" <=> i = FirstAt(other)
        BY <2>2, <3>3, ValidShape
      <4>. QED
        BY <1>1, <3>1, <4>1, ValidShape
    <3>. QED
      BY <3>2, <3>3
  <2>4. ASSUME Valid(address), Valid(other), EqIgnoreCase(address, other)
        PROVE  Slot(address) = Slot(other)
    <3>. DEFINE f == FirstAt(address)  g == FirstAt(other)
    <3>1. /\ f \in 2..(n - 1) /\ \A i \in 1..n : address[i] = "@" <=> i = f
          /\ g \in 2..(n - 1) /\ \A i \in 1..n : other[i] = "@" <=> i = g
      BY <1>1, <2>2, <2>4, ValidShape
    <3>2. \A i \in 1..n : address[i] = "@" <=> other[i] = "@"
      BY <1>1, <2>2, <2>4, LoweredKeepsAt DEF EqIgnoreCase
    <3>3. f = g
      BY <2>1, <3>1, <3>2
    <3>4. Lowered(LocalPart(address)) = Lowered(LocalPart(other))
      <4>1. /\ Lowered(LocalPart(address)) \in Seq(Chars)
            /\ Len(Lowered(LocalPart(address))) = f - 1
            /\ \A i \in 1..(f - 1) : Lowered(LocalPart(address))[i] = Lowered(address)[i]
        BY <1>1, <2>4, LoweredParts
      <4>2. /\ Lowered(LocalPart(other)) \in Seq(Chars)
            /\ Len(Lowered(LocalPart(other))) = g - 1
            /\ \A i \in 1..(g - 1) : Lowered(LocalPart(other))[i] = Lowered(other)[i]
        BY <2>2, <2>4, LoweredParts
      <4>. HIDE DEF f, g
      <4>. QED
        BY <2>4, <3>3, <4>1, <4>2, SeqEqual DEF EqIgnoreCase
    <3>5. Lowered(DomainPart(address)) = Lowered(DomainPart(other))
      <4>1. /\ Lowered(DomainPart(address)) \in Seq(Chars)
            /\ Len(Lowered(DomainPart(address))) = n - f
            /\ \A i \in 1..(n - f) : Lowered(DomainPart(address))[i] = Lowered(address)[f + i]
        BY <1>1, <2>4, LoweredParts
      <4>2. /\ Lowered(DomainPart(other)) \in Seq(Chars)
            /\ Len(Lowered(DomainPart(other))) = n - g
            /\ \A i \in 1..(n - g) : Lowered(DomainPart(other))[i] = Lowered(other)[g + i]
        BY <2>2, <2>4, LoweredParts
      <4>. HIDE DEF f, g
      <4>. QED
        BY <2>4, <3>3, <4>1, <4>2, SeqEqual DEF EqIgnoreCase
    <3>. QED
      BY <3>4, <3>5 DEF Slot
  <2>5. ASSUME Valid(address), Valid(other), Slot(address) = Slot(other)
        PROVE  EqIgnoreCase(address, other)
    <3>. DEFINE f == FirstAt(address)  g == FirstAt(other)
    <3>1. /\ f \in 2..(n - 1) /\ address[f] = "@"
          /\ g \in 2..(n - 1) /\ other[g] = "@"
      BY <1>1, <2>1, <2>2, <2>5, ValidShape
    <3>2. /\ Lowered(LocalPart(address)) = Lowered(LocalPart(other))
          /\ Lowered(DomainPart(address)) = Lowered(DomainPart(other))
      BY <2>5 DEF Slot
    <3>3. /\ Len(Lowered(LocalPart(address))) = f - 1
          /\ \A i \in 1..(f - 1) : Lowered(LocalPart(address))[i] = Lowered(address)[i]
          /\ \A i \in 1..(n - f) : Lowered(DomainPart(address))[i] = Lowered(address)[f + i]
      BY <1>1, <2>5, LoweredParts
    <3>4. /\ Len(Lowered(LocalPart(other))) = g - 1
          /\ \A i \in 1..(g - 1) : Lowered(LocalPart(other))[i] = Lowered(other)[i]
          /\ \A i \in 1..(n - g) : Lowered(DomainPart(other))[i] = Lowered(other)[g + i]
      BY <2>2, <2>5, LoweredParts
    <3>. HIDE DEF f, g
    <3>5. f = g
      BY <3>1, <3>2, <3>3, <3>4
    <3>6. /\ Lowered(address) \in Seq(Chars) /\ Len(Lowered(address)) = n
          /\ Lowered(other) \in Seq(Chars) /\ Len(Lowered(other)) = n
      BY <1>1, <2>2, LoweredType
    <3>7. ASSUME NEW i \in 1..n PROVE Lowered(address)[i] = Lowered(other)[i]
      <4>1. CASE i < f
        <5>1. i \in 1..(f - 1)
          BY <3>1, <4>1
        <5>. QED
          BY <3>2, <3>3, <3>4, <3>5, <5>1
      <4>2. CASE i = f
        <5>1. Lowered(address)[i] = "@"
          BY <1>1, <3>1, <4>2, LoweredKeepsAt
        <5>2. Lowered(other)[i] = "@"
          BY <2>2, <3>1, <3>5, <4>2, LoweredKeepsAt
        <5>. QED
          BY <5>1, <5>2
      <4>3. CASE i > f
        <5>1. i - f \in 1..(n - f) /\ f + (i - f) = i
          BY <2>1, <3>1, <4>3
        <5>. QED
          BY <3>2, <3>3, <3>4, <3>5, <5>1
      <4>. QED
        BY <3>1, <4>1, <4>2, <4>3
    <3>. QED
      BY <3>6, <3>7, SeqEqual DEF EqIgnoreCase
  <2>. QED
    BY <2>3, <2>4, <2>5
<1>2. AddressTypeOK => OwnedIsPublished
  BY <1>1 DEF OwnedIsPublished, AddressTypeOK
<1>. QED
  BY <1>2, AddressTyped, PTL

\* A lookup that comes with the domain of an address, in whatever case, by path or by
\* Host and with one port or without, asks for the domain an upload for the address
\* is kept under, and is turned away exactly if the upload is.
THEOREM LookupsFindSlots == AddressSpec => []LookupFindsSlot
<1>1. ASSUME AddressTypeOK, Valid(address),
             NEW spelt \in [DOMAIN DomainPart(address) -> Chars],
             EqIgnoreCase(spelt, DomainPart(address)),
             NEW host \in {spelt, spelt \o <<":", "443">>}
      PROVE  LookupDomain(DomainFromHost(host)) =
               IF IsDomainAllowed(Slot(address).domain) THEN Slot(address).domain ELSE NotServed
  <2>. DEFINE n == Len(DomainPart(address))
  <2>1. DomainPart(address) \in Seq(Chars) /\ n \in Nat /\ DOMAIN DomainPart(address) = 1..n
    BY <1>1, ValidShape, PartsAre, LenProperties DEF AddressTypeOK
  <2>2. spelt \in Seq(Chars) /\ Len(spelt) = n
    <3>1. spelt \in [1..n -> Chars]
      BY <2>1
    <3>2. spelt \in Seq(Chars)
      BY <2>1, <3>1, SeqDef
    <3>3. 1..Len(spelt) = 1..n /\ Len(spelt) \in Nat
      BY <3>1, <3>2, LenProperties
    <3>. QED
      BY <2>1, <3>2, <3>3, IntervalLength
  <2>3. \A i \in 1..n : spelt[i] # ":"
    BY <2>2, ElementOfSeq, LettersOnly, LowerOfType DEF Chars
  <2>4. DomainFromHost(host) = spelt
    <3>1. CASE host = spelt
      <4>1. ~ Has(spelt, ":")
        BY <2>1, <2>2, <2>3, LenProperties DEF Has
      <4>. QED
        BY <3>1, <4>1 DEF DomainFromHost
    <3>2. CASE host = spelt \o <<":", "443">>
      <4>. DEFINE S == Chars \cup {":", "443"}  last == CHOOSE i \in DOMAIN host :
                     host[i] = ":" /\ \A j \in (i + 1)..Len(host) : host[j] # ":"
      <4>1. spelt \in Seq(S) /\ <<":", "443">> \in Seq(S)
        <5>1. Chars \subseteq S
          OBVIOUS
        <5>2. spelt \in Seq(S)
          BY <2>2, <5>1, SeqMonotonic
        <5>. QED
          BY <5>2
      <4>2. /\ host \in Seq(S) /\ Len(host) = n + 2
            /\ \A i \in 1..n : host[i] = spelt[i]
            /\ host[n + 1] = ":" /\ host[n + 2] = "443"
        BY <2>1, <2>2, <3>2, <4>1, ConcatProperties
      <4>3. DOMAIN host = 1..(n + 2)
        BY <4>2, LenProperties
      <4>4. Has(host, ":")
        BY <2>1, <4>2, <4>3 DEF Has
      <4>5. last = n + 1
        <5>1. n + 1 \in DOMAIN host /\ host[n + 1] = ":"
              /\ \A j \in ((n + 1) + 1)..Len(host) : host[j] # ":"
          BY <2>1, <4>2, <4>3
        <5>2. ASSUME NEW i \in DOMAIN host, host[i] = ":" PROVE i = n + 1
          BY <2>1, <2>3, <4>2, <4>3, <5>2
        <5>. QED
          BY <5>1, <5>2
      <4>6. DomainFromHost(host) = SubSeq(host, 1, last - 1)
        BY <4>4 DEF DomainFromHost
      <4>7. SubSeq(host, 1, n) = spelt
        <5>1. \A i \in 1..n : host[i] \in Chars
          BY <2>2, <4>2, ElementOfSeq
        <5>2. /\ SubSeq(host, 1, n) \in Seq(Chars)
              /\ Len(SubSeq(host, 1, n)) = IF 1 <= n THEN n - 1 + 1 ELSE 0
              /\ \A i \in 1..(n - 1 + 1) : SubSeq(host, 1, n)[i] = host[1 + i - 1]
          BY <2>1, <5>1, SubSeqProperties
        <5>3. Len(SubSeq(host, 1, n)) = n /\ \A i \in 1..n : SubSeq(host, 1, n)[i] = spelt[i]
          BY <2>1, <4>2, <5>2
        <5>. QED
          BY <2>2, <5>2, <5>3, SeqEqual
      <4>. HIDE DEF last
      <4>8. last - 1 = n
        BY <2>1, <4>5
      <4>. QED
        BY <4>6, <4>7, <4>8 DEF last
    <3>. QED
      BY <1>1, <3>1, <3>2
  <2>5. Lowered(spelt) = Slot(address).domain
    BY <1>1 DEF EqIgnoreCase, Slot
  <2>. QED
    BY <2>4, <2>5 DEF LookupDomain
<1>2. AddressTypeOK => LookupFindsSlot
  BY <1>1 DEF LookupFindsSlot
<1>. QED
  BY <1>2, AddressTyped, PTL

-----------------------------------------------------------------------------
(* wkdmgr-query: lookups, one cached handle, and a file that changes underneath. *)

QueryTyped ==
  /\ path \in 0..(MaxRenames + 1) /\ writer \in 0..(MaxRenames + 1)
  /\ schema \subseteq Gens /\ answer \in [Gens -> Answers] /\ damaged \in BOOLEAN
  /\ handle \in [gen: 0..(MaxRenames + 1), reads: Reads]
  /\ mutex \in Lookups \cup {None}
  /\ pc \in [Lookups -> {"idle", "waiting", "select"}]
  /\ reply \in [Lookups -> Answers \cup {"none"}]
  /\ faults \in Nat

\* No handle is on generation 0, and none is ahead of what db_path has named.
HandleIsOnAFile == handle = NoHandle \/ handle.gen \in 1..path

\* The lookup that selects is the one that has the mutex, and no other has it.
MutexIsSelecting == \A q \in Lookups : pc[q] = "select" <=> mutex = q

\* While the mutex is taken a handle is cached.
HandleUnderMutex == mutex # None => handle # NoHandle

QueryInv == QueryTyped /\ HandleIsOnAFile /\ MutexIsSelecting /\ HandleUnderMutex

\* A handle is one when none is cached, and still one after an overwrite.
LEMMA Handles ==
  /\ NoHandle \in [gen: 0..(MaxRenames + 1), reads: Reads]
  /\ \A h \in [gen: 0..(MaxRenames + 1), reads: Reads] :
       \A r \in Reads : /\ [h EXCEPT !.reads = r] \in [gen: 0..(MaxRenames + 1), reads: Reads]
                         /\ [h EXCEPT !.reads = r].gen = h.gen
<1>1. NoHandle \in [gen: 0..(MaxRenames + 1), reads: Reads]
  BY QueryBounds DEF NoHandle, Reads
<1>2. ASSUME NEW r \in Reads, NEW h \in [gen: 0..(MaxRenames + 1), reads: Reads]
      PROVE  [h EXCEPT !.reads = r] \in [gen: 0..(MaxRenames + 1), reads: Reads]
  OBVIOUS
<1>3. ASSUME NEW r \in Reads, NEW h \in [gen: 0..(MaxRenames + 1), reads: Reads]
      PROVE  [h EXCEPT !.reads = r].gen = h.gen
  OBVIOUS
<1>. QED
  BY <1>1, <1>2, <1>3

LEMMA QueryInits == QueryInit => QueryInv
<1>. SUFFICES ASSUME QueryInit PROVE QueryInv OBVIOUS
<1>1. QueryTyped
  <2>1. path \in 0..(MaxRenames + 1) /\ writer \in 0..(MaxRenames + 1) /\ faults \in Nat
    BY QueryBounds DEF QueryInit
  <2>. QED
    BY <2>1, Handles DEF QueryInit, QueryTyped, Answers
<1>2. MutexIsSelecting
  BY NoneIsNoneOf DEF QueryInit, MutexIsSelecting
<1>. QED
  BY <1>1, <1>2 DEF QueryInit, QueryInv, HandleIsOnAFile, HandleUnderMutex

\* What open_read_only gives is nothing, or a handle on the file db_path names.
LEMMA Opened ==
  ASSUME QueryTyped, NEW h \in OpenResults
  PROVE  /\ h \in [gen: 0..(MaxRenames + 1), reads: Reads]
         /\ h = NoHandle => path = 0 \/ damaged
         /\ h # NoHandle => path # 0 /\ h.gen = path /\ h.reads = "file"
<1>1. CASE h = NoHandle /\ (path = 0 \/ damaged)
  BY <1>1, Handles
<1>2. CASE h = [gen |-> path, reads |-> "file"] /\ path # 0
  BY <1>2 DEF QueryTyped, NoHandle, Reads
<1>. QED
  BY <1>1, <1>2 DEF OpenResults

\* A lookup keeps the invariant: what it leaves cached, whether it has the mutex.
LEMMA LookupKeeps ==
  ASSUME QueryInv, NEW q \in Lookups, Ask(q) \/ Enter(q) \/ Select(q)
  PROVE  QueryInv'
<1>. USE DEF QueryInv
<1>0. None \in Answers /\ \A r \in Lookups : r # None
  BY NoneIsNoneOf DEF Answers
<1>1. CASE Ask(q)
  <2>1. QueryTyped'
    BY <1>1 DEF Ask, QueryTyped, fileVars, Answers, Gens
  <2>2. HandleIsOnAFile' /\ HandleUnderMutex'
    BY <1>1 DEF Ask, fileVars, HandleIsOnAFile, HandleUnderMutex, NoHandle
  <2>3. MutexIsSelecting'
    BY <1>1 DEF Ask, QueryTyped, MutexIsSelecting
  <2>. QED
    BY <2>1, <2>2, <2>3
<1>2. CASE Enter(q)
  <2>1. PICK h \in (IF handle = NoHandle THEN OpenResults ELSE {handle}) :
          /\ handle' = h
          /\ IF h = NoHandle
             THEN Respond(q, None)
             ELSE /\ mutex' = q
                  /\ pc' = [pc EXCEPT ![q] = "select"]
                  /\ UNCHANGED reply
    BY <1>2 DEF Enter
  <2>2. h \in [gen: 0..(MaxRenames + 1), reads: Reads] /\ (h = NoHandle \/ h.gen \in 1..path)
    BY <2>1, Opened DEF QueryTyped, HandleIsOnAFile
  <2>3. UNCHANGED <<fileVars, faults>> /\ mutex = None
    BY <1>2 DEF Enter
  <2>4. CASE h = NoHandle
    <3>1. QueryTyped'
      BY <1>0, <2>1, <2>2, <2>3, <2>4 DEF Respond, QueryTyped, fileVars, Gens
    <3>2. MutexIsSelecting'
      BY <1>0, <2>1, <2>3, <2>4 DEF Respond, QueryTyped, MutexIsSelecting
    <3>. QED
      BY <2>1, <2>4, <3>1, <3>2 DEF Respond, HandleIsOnAFile, HandleUnderMutex, NoHandle
  <2>5. CASE h # NoHandle
    <3>1. QueryTyped'
      BY <2>1, <2>2, <2>3, <2>5 DEF QueryTyped, fileVars, Gens, Answers
    <3>2. MutexIsSelecting'
      BY <1>0, <2>1, <2>3, <2>5 DEF QueryTyped, MutexIsSelecting
    <3>3. HandleIsOnAFile' /\ HandleUnderMutex'
      BY <2>1, <2>2, <2>3, <2>5 DEF HandleIsOnAFile, HandleUnderMutex, NoHandle, fileVars
    <3>. QED
      BY <3>1, <3>2, <3>3
  <2>. QED
    BY <2>4, <2>5
<1>3. CASE Select(q)
  <2>1. pc[q] = "select" /\ mutex = q /\ handle # NoHandle /\ handle.gen \in Gens
    BY <1>0, <1>3, QueryBounds
       DEF Select, MutexIsSelecting, HandleUnderMutex, HandleIsOnAFile, QueryTyped, Gens
  <2>2. PICK a \in Answers : Respond(q, a) /\ (handle' = handle \/ handle' = NoHandle)
    <3>1. Found(handle) \subseteq Answers
      BY <2>1, Handles DEF Found, Readable, QueryTyped
    <3>. QED
      BY <1>0, <1>3, <3>1 DEF Select, HandleAfterError
  <2>3. UNCHANGED <<fileVars, faults>>
    BY <1>3 DEF Select
  <2>4. QueryTyped'
    <3>1. handle' \in [gen: 0..(MaxRenames + 1), reads: Reads]
      BY <2>2, Handles DEF QueryTyped
    <3>. QED
      BY <2>2, <2>3, <3>1 DEF Respond, QueryTyped, fileVars, Gens
  <2>5. MutexIsSelecting'
    BY <1>0, <2>1, <2>2 DEF Respond, QueryTyped, MutexIsSelecting
  <2>. QED
    BY <2>2, <2>3, <2>4, <2>5 DEF Respond, HandleIsOnAFile, HandleUnderMutex, NoHandle, fileVars
<1>. QED
  BY <1>1, <1>2, <1>3

\* So does every step of wkdmgr-mgmt, of the operator and of a restart.
LEMMA WorldKeeps ==
  ASSUME QueryInv,
         \/ MgmtOpens \/ MgmtCreatesSchema \/ MgmtCommits \/ MgmtStops
         \/ Rename \/ Overwrite \/ Damage \/ Repair \/ QueryRestarts
  PROVE  QueryInv'
<1>. USE QueryBounds DEF QueryInv
<1>1. ASSUME QueryIdle, path' \in Nat, path' >= path
      PROVE  HandleIsOnAFile' /\ MutexIsSelecting' /\ HandleUnderMutex'
  BY <1>1, NoneIsNoneOf
     DEF QueryIdle, QueryTyped, HandleIsOnAFile, MutexIsSelecting, HandleUnderMutex, NoHandle
<1>2. CASE MgmtOpens
  BY <1>1, <1>2 DEF MgmtOpens, QueryIdle, QueryTyped, Gens, Answers
<1>3. CASE MgmtCreatesSchema
  BY <1>1, <1>3 DEF MgmtCreatesSchema, QueryIdle, QueryTyped, Gens, Answers
<1>4. CASE MgmtCommits
  BY <1>1, <1>4 DEF MgmtCommits, QueryIdle, QueryTyped, Gens
<1>5. CASE MgmtStops
  BY <1>1, <1>5 DEF MgmtStops, Fault, QueryIdle, QueryTyped, Gens, Answers
<1>6. CASE Rename
  <2>1. path' = path + 1 /\ path' \in Gens /\ path' \in Nat /\ path' >= path
    BY <1>6 DEF Rename, QueryTyped
  <2>2. damaged' \in BOOLEAN
    BY <1>6 DEF Rename
  <2>3. QueryTyped'
    BY <1>6, <2>1, <2>2 DEF QueryTyped, Rename, QueryIdle, Gens
  <2>. QED
    BY <1>1, <1>6, <2>1, <2>3 DEF Rename
<1>7. CASE Overwrite
  <2>0. /\ handle' \in [gen: 0..(MaxRenames + 1), reads: Reads]
        /\ handle'.gen = handle.gen
        /\ handle.gen # path => handle' = handle
    <3>1. PICK r \in {"anything", "nothing"} :
            handle' = IF handle.gen = path THEN [handle EXCEPT !.reads = r] ELSE handle
      BY <1>7 DEF Overwrite
    <3>2. r \in Reads
      BY DEF Reads
    <3>. QED
      BY <3>1, <3>2, Handles DEF QueryTyped
  <2>1. QueryTyped'
    BY <1>7, <2>0 DEF Overwrite, Fault, QueryTyped, Gens
  <2>2. handle' = NoHandle <=> handle = NoHandle
    <3>1. NoHandle.gen = 0 /\ path # 0
      BY <1>7 DEF Overwrite, NoHandle
    <3>. QED
      BY <2>0, <3>1
  <2>3. HandleIsOnAFile' /\ MutexIsSelecting' /\ HandleUnderMutex'
    BY <1>7, <2>2 DEF Overwrite, QueryTyped, HandleIsOnAFile, MutexIsSelecting, HandleUnderMutex
  <2>. QED
    BY <2>1, <2>3
<1>8. CASE Damage
  BY <1>1, <1>8 DEF Damage, Fault, QueryIdle, QueryTyped, Gens, Answers
<1>9. CASE Repair
  <2>1. damaged' \in BOOLEAN
    BY <1>9 DEF Repair
  <2>. QED
    BY <1>1, <1>9, <2>1 DEF Repair, QueryIdle, QueryTyped, Gens, Answers
<1>10. CASE QueryRestarts
  <2>1. /\ handle' \in [gen: 0..(MaxRenames + 1), reads: Reads]
        /\ handle' = NoHandle \/ handle'.gen \in 1..path
    BY <1>10, Opened DEF QueryRestarts, QueryTyped
  <2>2. QueryTyped'
    BY <1>10, <2>1 DEF QueryRestarts, Fault, fileVars, QueryTyped, Gens, Answers
  <2>3. MutexIsSelecting' /\ HandleUnderMutex'
    BY <1>10, NoneIsNoneOf DEF QueryRestarts, MutexIsSelecting, HandleUnderMutex
  <2>. QED
    BY <1>10, <2>1, <2>2, <2>3 DEF QueryRestarts, fileVars, HandleIsOnAFile, NoHandle
<1>. QED
  BY <1>2, <1>3, <1>4, <1>5, <1>6, <1>7, <1>8, <1>9, <1>10

LEMMA QueryHolds == QuerySpec => []QueryInv
<1>1. QueryInv /\ [QueryNext]_queryVars => QueryInv'
  <2>. SUFFICES ASSUME QueryInv, [QueryNext]_queryVars PROVE QueryInv' OBVIOUS
  <2>1. CASE QueryNext
    BY <2>1, LookupKeeps, WorldKeeps DEF QueryNext
  <2>2. CASE UNCHANGED queryVars
    BY <2>2 DEF queryVars, QueryInv, QueryTyped, HandleIsOnAFile, MutexIsSelecting,
                HandleUnderMutex, Gens, Answers, NoHandle
  <2>. QED
    BY <2>1, <2>2
<1>. QED
  BY QueryInits, <1>1, PTL DEF QuerySpec

\* HandleWhileSelecting: the closure's "just ensured Some above" never panics, so no
\* lookup poisons the mutex, with any number of lookups, renames, faults and restarts.
THEOREM NeverPoisoned == QuerySpec => []HandleWhileSelecting
<1>1. QueryInv => HandleWhileSelecting
  BY NoneIsNoneOf DEF QueryInv, MutexIsSelecting, HandleUnderMutex, HandleWhileSelecting
<1>. QED
  BY QueryHolds, <1>1, PTL

\* One step of AnswersAreTheFiles.
AnswerIsTheFiles ==
  \A q \in Lookups :
    reply'[q] # reply[q] /\ reply'[q] # "none" =>
      Says(reply'[q]) \/ Misled \/ (reply'[q] = None /\ MayFail)

LEMMA SelectAnswers ==
  ASSUME QueryInv, NEW q \in Lookups, Select(q)
  PROVE  Says(reply'[q]) \/ Misled \/ (reply'[q] = None /\ MayFail)
<1>1. handle # NoHandle
  BY NoneIsNoneOf DEF Select, QueryInv, MutexIsSelecting, HandleUnderMutex
<1>2. CASE handle.reads = "anything"
  BY <1>2 DEF Misled
<1>3. CASE handle.reads # "anything" /\ ~Readable(handle)
  <2>1. Found(handle) = {}
    BY <1>3 DEF Found
  <2>2. reply'[q] = None
    BY <2>1 DEF Select, Respond, QueryInv, QueryTyped
  <2>. QED
    BY <1>1, <1>3, <2>2 DEF Readable, MayFail, QueryInv, QueryTyped, Reads
<1>4. CASE Readable(handle)
  <2>1. CASE handle.gen # path
    BY <1>4, <2>1 DEF Misled, Readable
  <2>2. CASE handle.gen = path
    <3>1. Found(handle) = {answer[path]}
      BY <1>4, <2>2 DEF Found, Readable
    <3>2. reply'[q] = answer[path]
      BY <1>4, <3>1 DEF Select, Respond, QueryInv, QueryTyped
    <3>. QED
      BY <1>4, <2>2, <3>2 DEF Readable, Says
  <2>. QED
    BY <2>1, <2>2
<1>. QED
  BY <1>2, <1>3, <1>4

LEMMA EnterAnswers ==
  ASSUME QueryInv, NEW q \in Lookups, Enter(q), reply'[q] # reply[q]
  PROVE  reply'[q] = None /\ MayFail
<1>1. PICK h \in (IF handle = NoHandle THEN OpenResults ELSE {handle}) :
        IF h = NoHandle THEN Respond(q, None) ELSE UNCHANGED reply
  BY DEF Enter
<1>2. h = NoHandle
  BY <1>1
<1>3. reply'[q] = None
  BY <1>1, <1>2 DEF Respond, QueryInv, QueryTyped
<1>4. path = 0 \/ damaged
  BY <1>1, <1>2, Opened DEF QueryInv
<1>. QED
  BY <1>3, <1>4 DEF MayFail

\* AnswersAreTheFiles: every answer is what the file db_path names says at that moment,
\* a 404 has a reason, or the cached handle was misled by a rename or an overwrite in
\* place; whatever the number of lookups, of files and of faults.
THEOREM AnswersTrue == QuerySpec => AnswersAreTheFiles
<1>1. QueryInv /\ [QueryNext]_queryVars => [AnswerIsTheFiles]_queryVars
  <2>. SUFFICES ASSUME QueryInv, QueryNext,
                       NEW r \in Lookups, reply'[r] # reply[r], reply'[r] # "none"
                PROVE  Says(reply'[r]) \/ Misled \/ (reply'[r] = None /\ MayFail)
    BY DEF AnswerIsTheFiles
  <2>1. PICK q \in Lookups : Ask(q) \/ Enter(q) \/ Select(q)
    BY DEF QueryNext, MgmtOpens, MgmtCreatesSchema, MgmtCommits, MgmtStops, Rename, Overwrite,
           Damage, Repair, QueryIdle, QueryRestarts
  <2>2. ~Ask(q)
    BY DEF Ask, QueryInv, QueryTyped
  <2>3. r = q
    BY <2>1, <2>2 DEF Enter, Select, Respond, QueryInv, QueryTyped
  <2>. QED
    BY <2>1, <2>2, <2>3, SelectAnswers, EnterAnswers
<1>. QED
  BY QueryHolds, <1>1, PTL DEF QuerySpec, AnswersAreTheFiles, AnswerIsTheFiles

\* The file says a and no handle stands in the way: none is cached, or one that reads it.
Cured(a) == Says(a) /\ (handle = NoHandle \/ handle = [gen |-> path, reads |-> "file"])

\* One step of Recovers' cure: no select leaves a handle cached that fails on a settled
\* file, and once cured lookups answer a, and only a, until the next fault or change of the file.
CureHolds ==
  \A a \in Answers :
    /\ \A q \in Lookups : Says(a) /\ ~Misled /\ Select(q) => Cured(a)'
    /\ Cured(a) /\ Says(a)' /\ path' = path /\ faults' = faults =>
         Cured(a)' /\ \A q \in Lookups : reply'[q] \in {reply[q], "none", a}

\* The safety half of Recovers: unless the handle is misled, the first lookup that selects
\* on a settled file leaves no failing handle behind, and from then on every answer is what
\* the file says.
THEOREM CureStays == QuerySpec => [][CureHolds]_queryVars
<1>1. ASSUME QueryInv, NEW a \in Answers, NEW q \in Lookups, Says(a), ~Misled, Select(q)
      PROVE  Cured(a)'
  <2>1. UNCHANGED fileVars /\ (handle' = NoHandle \/ (handle' = handle /\ Found(handle) # {}))
    BY <1>1 DEF Select, HandleAfterError
  <2>2. Found(handle) # {} => Readable(handle) /\ handle.gen = path
    <3>1. handle.reads # "anything"
      BY <1>1 DEF Misled
    <3>2. Found(handle) # {} => Readable(handle)
      BY <3>1 DEF Found
    <3>. QED
      BY <1>1, <3>2 DEF Misled, Readable
  <2>3. Readable(handle) /\ handle.gen = path => handle = [gen |-> path, reads |-> "file"]
    BY <1>1 DEF Readable, QueryInv, QueryTyped
  <2>. QED
    <3>1. Says(a)'
      BY <1>1, <2>1 DEF Says, fileVars
    <3>2. handle' = NoHandle \/ handle' = [gen |-> path', reads |-> "file"]
      BY <2>1, <2>2, <2>3 DEF fileVars
    <3>. QED
      BY <3>1, <3>2 DEF Cured, NoHandle
<1>2. ASSUME QueryInv, QueryNext, NEW a \in Answers,
             Cured(a), Says(a)', path' = path, faults' = faults
      PROVE  Cured(a)' /\ \A q \in Lookups : reply'[q] \in {reply[q], "none", a}
  <2>1. ASSUME QueryIdle \/ \E q \in Lookups : Ask(q)
        PROVE  Cured(a)' /\ \A q \in Lookups : reply'[q] \in {reply[q], "none", a}
    BY <1>2, <2>1 DEF QueryIdle, Ask, Cured, NoHandle, QueryInv, QueryTyped
  <2>2. ASSUME NEW q \in Lookups, Enter(q)
        PROVE  Cured(a)' /\ \A r \in Lookups : reply'[r] \in {reply[r], "none", a}
    <3>1. PICK h \in (IF handle = NoHandle THEN OpenResults ELSE {handle}) :
            handle' = h /\ (h # NoHandle => UNCHANGED reply)
      BY <2>2 DEF Enter
    <3>2. h = [gen |-> path, reads |-> "file"]
      BY <1>2, <3>1 DEF Cured, Says, OpenResults, QueryInv, QueryTyped, Gens
    <3>. QED
      BY <1>2, <3>1, <3>2 DEF Cured, NoHandle, QueryInv, QueryTyped
  <2>3. ASSUME NEW q \in Lookups, Select(q)
        PROVE  Cured(a)' /\ \A r \in Lookups : reply'[r] \in {reply[r], "none", a}
    <3>1. handle = [gen |-> path, reads |-> "file"]
      BY <1>2, <2>3, NoneIsNoneOf
         DEF Cured, Select, QueryInv, MutexIsSelecting, HandleUnderMutex
    <3>2. Readable(handle)
      BY <1>2, <3>1 DEF Cured, Says, Readable
    <3>3. Found(handle) = {a}
      BY <1>2, <3>1, <3>2 DEF Found, Cured, Says
    <3>4. handle' = handle /\ reply' = [reply EXCEPT ![q] = a]
      BY <2>3, <3>2, <3>3 DEF Select, Respond
    <3>. QED
      BY <1>2, <3>1, <3>4 DEF Cured, QueryInv, QueryTyped
  <2>4. ~(MgmtStops \/ Overwrite \/ Damage \/ QueryRestarts)
    BY <1>2 DEF MgmtStops, Overwrite, Damage, QueryRestarts, Fault, QueryInv, QueryTyped
  <2>5. MgmtOpens \/ MgmtCreatesSchema \/ MgmtCommits \/ Rename \/ Repair => QueryIdle
    BY DEF MgmtOpens, MgmtCreatesSchema, MgmtCommits, Rename, Repair
  <2>. QED
    BY <1>2, <2>1, <2>2, <2>3, <2>4, <2>5 DEF QueryNext
<1>3. QueryInv /\ [QueryNext]_queryVars => [CureHolds]_queryVars
  BY <1>1, <1>2 DEF CureHolds
<1>. QED
  BY QueryHolds, <1>3, PTL DEF QuerySpec
=============================================================================
