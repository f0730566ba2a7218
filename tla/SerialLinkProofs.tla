------------------------- MODULE SerialLinkProofs --------------------------
(***************************************************************************)
(* Proofs about Hamming74 and SerialLink, for any packets, delimiters and  *)
(* configurations: one wrong bit in every codeword does no harm, without a *)
(* fault the serial line is lossless, and what is heard was sent.          *)
(***************************************************************************)
EXTENDS SerialLink, SequenceTheorems, NatSetInduction, TLAPS

-----------------------------------------------------------------------------
(* Bits *)

Binary == {0, 1}
Byte == 0..255

\* The powers of two that a byte needs.
LEMMA Powers ==
  2^0 = 1 /\ 2^1 = 2 /\ 2^2 = 4 /\ 2^3 = 8 /\ 2^4 = 16 /\ 2^5 = 32 /\ 2^6 = 64 /\ 2^7 = 128
BY SMT

\* A byte is the sum of its bits.
LEMMA ByteSum ==
  ASSUME NEW c \in Byte
  PROVE  /\ \A i \in 0..7 : Bit(c, i) \in Binary
         /\ c = Bit(c, 0) + 2 * Bit(c, 1) + 4 * Bit(c, 2) + 8 * Bit(c, 3) + 16 * Bit(c, 4)
                  + 32 * Bit(c, 5) + 64 * Bit(c, 6) + 128 * Bit(c, 7)
<1>1. ASSUME NEW i \in 0..7 PROVE Bit(c, i) \in Binary
  <2>1. \A q \in Nat : q % 2 \in Binary
    BY DEF Binary
  <2>2. c \in Nat
    BY DEF Byte
  <2>3. CASE i = 0
    BY <2>1, <2>2, <2>3, Powers DEF Bit
  <2>4. CASE i = 1
    BY <2>1, <2>2, <2>4, Powers DEF Bit
  <2>5. CASE i = 2
    BY <2>1, <2>2, <2>5, Powers DEF Bit
  <2>6. CASE i = 3
    BY <2>1, <2>2, <2>6, Powers DEF Bit
  <2>7. CASE i = 4
    BY <2>1, <2>2, <2>7, Powers DEF Bit
  <2>8. CASE i = 5
    BY <2>1, <2>2, <2>8, Powers DEF Bit
  <2>9. CASE i = 6
    BY <2>1, <2>2, <2>9, Powers DEF Bit
  <2>10. CASE i = 7
    BY <2>1, <2>2, <2>10, Powers DEF Bit
  <2> QED
    BY <2>3, <2>4, <2>5, <2>6, <2>7, <2>8, <2>9, <2>10
<1>2. c = Bit(c, 0) + 2 * Bit(c, 1) + 4 * Bit(c, 2) + 8 * Bit(c, 3) + 16 * Bit(c, 4)
            + 32 * Bit(c, 5) + 64 * Bit(c, 6) + 128 * Bit(c, 7)
  BY Powers DEF Bit, Byte
<1> QED
  BY <1>1, <1>2

\* The bits of a sum are those it is the sum of.
LEMMA SumBits ==
  ASSUME NEW b \in [0..7 -> Binary],
         NEW c, c = b[0] + 2 * b[1] + 4 * b[2] + 8 * b[3] + 16 * b[4] + 32 * b[5] + 64 * b[6]
                      + 128 * b[7]
  PROVE  c \in Byte /\ \A k \in 0..7 : Bit(c, k) = b[k]
<1>1. /\ b[0] \in Binary /\ b[1] \in Binary /\ b[2] \in Binary /\ b[3] \in Binary
      /\ b[4] \in Binary /\ b[5] \in Binary /\ b[6] \in Binary /\ b[7] \in Binary
  OBVIOUS
<1>2. c \in Byte
  BY <1>1 DEF Byte, Binary
<1>3. Bit(c, 0) = b[0]
  BY <1>1, Powers DEF Binary, Bit
<1>4. Bit(c, 1) = b[1]
  BY <1>1, Powers DEF Binary, Bit
<1>5. Bit(c, 2) = b[2]
  BY <1>1, Powers DEF Binary, Bit
<1>6. Bit(c, 3) = b[3]
  BY <1>1, Powers DEF Binary, Bit
<1>7. Bit(c, 4) = b[4]
  BY <1>1, Powers DEF Binary, Bit
<1>8. Bit(c, 5) = b[5]
  BY <1>1, Powers DEF Binary, Bit
<1>9. Bit(c, 6) = b[6]
  BY <1>1, Powers DEF Binary, Bit
<1>10. Bit(c, 7) = b[7]
  BY <1>1, Powers DEF Binary, Bit
<1>11. ASSUME NEW k \in 0..7 PROVE Bit(c, k) = b[k]
  <2>1. k = 0 \/ k = 1 \/ k = 2 \/ k = 3 \/ k = 4 \/ k = 5 \/ k = 6 \/ k = 7
    OBVIOUS
  <2> QED
    BY <1>3, <1>4, <1>5, <1>6, <1>7, <1>8, <1>9, <1>10, <2>1
<1> QED
  BY <1>2, <1>11

\* A flipped bit is the other one, and the others stay as they are.
LEMMA FlipBits ==
  ASSUME NEW c \in Byte, NEW i \in 0..7
  PROVE  /\ Flip(c, i) \in Byte
         /\ \A k \in 0..7 : Bit(Flip(c, i), k) = IF k = i THEN 1 - Bit(c, k) ELSE Bit(c, k)
<1> DEFINE b0 == Bit(c, 0)
           b1 == Bit(c, 1)
           b2 == Bit(c, 2)
           b3 == Bit(c, 3)
           b4 == Bit(c, 4)
           b5 == Bit(c, 5)
           b6 == Bit(c, 6)
           b7 == Bit(c, 7)
           other(k) == IF k = i THEN 1 - Bit(c, k) ELSE Bit(c, k)
<1>1. b0 \in Binary /\ b1 \in Binary /\ b2 \in Binary /\ b3 \in Binary
      /\ b4 \in Binary /\ b5 \in Binary /\ b6 \in Binary /\ b7 \in Binary
  BY ByteSum
<1>2. c = b0 + 2 * b1 + 4 * b2 + 8 * b3 + 16 * b4 + 32 * b5 + 64 * b6 + 128 * b7
  BY ByteSum
<1>3. \A k \in 0..7 : other(k) \in Binary
  <2>1. \A b \in Binary : 1 - b \in Binary
    BY DEF Binary
  <2> QED
    BY <2>1, ByteSum
<1>4. Flip(c, i) = other(0) + 2 * other(1) + 4 * other(2) + 8 * other(3) + 16 * other(4)
                     + 32 * other(5) + 64 * other(6) + 128 * other(7)
  <2>1. CASE i = 0
    <3>1. Flip(c, i) = (1 - b0) + 2 * b1 + 4 * b2 + 8 * b3 + 16 * b4 + 32 * b5 + 64 * b6 + 128 * b7
      <4> HIDE DEF b0, b1, b2, b3, b4, b5, b6, b7
      <4> QED
        BY <1>1, <1>2, <2>1, Powers DEF Flip, Binary, b0
    <3> QED
      BY <3>1, <2>1
  <2>2. CASE i = 1
    <3>1. Flip(c, i) = b0 + 2 * (1 - b1) + 4 * b2 + 8 * b3 + 16 * b4 + 32 * b5 + 64 * b6 + 128 * b7
      <4> HIDE DEF b0, b1, b2, b3, b4, b5, b6, b7
      <4> QED
        BY <1>1, <1>2, <2>2, Powers DEF Flip, Binary, b1
    <3> QED
      BY <3>1, <2>2
  <2>3. CASE i = 2
    <3>1. Flip(c, i) = b0 + 2 * b1 + 4 * (1 - b2) + 8 * b3 + 16 * b4 + 32 * b5 + 64 * b6 + 128 * b7
      <4> HIDE DEF b0, b1, b2, b3, b4, b5, b6, b7
      <4> QED
        BY <1>1, <1>2, <2>3, Powers DEF Flip, Binary, b2
    <3> QED
      BY <3>1, <2>3
  <2>4. CASE i = 3
    <3>1. Flip(c, i) = b0 + 2 * b1 + 4 * b2 + 8 * (1 - b3) + 16 * b4 + 32 * b5 + 64 * b6 + 128 * b7
      <4> HIDE DEF b0, b1, b2, b3, b4, b5, b6, b7
      <4> QED
        BY <1>1, <1>2, <2>4, Powers DEF Flip, Binary, b3
    <3> QED
      BY <3>1, <2>4
  <2>5. CASE i = 4
    <3>1. Flip(c, i) = b0 + 2 * b1 + 4 * b2 + 8 * b3 + 16 * (1 - b4) + 32 * b5 + 64 * b6 + 128 * b7
      <4> HIDE DEF b0, b1, b2, b3, b4, b5, b6, b7
      <4> QED
        BY <1>1, <1>2, <2>5, Powers DEF Flip, Binary, b4
    <3> QED
      BY <3>1, <2>5
  <2>6. CASE i = 5
    <3>1. Flip(c, i) = b0 + 2 * b1 + 4 * b2 + 8 * b3 + 16 * b4 + 32 * (1 - b5) + 64 * b6 + 128 * b7
      <4> HIDE DEF b0, b1, b2, b3, b4, b5, b6, b7
      <4> QED
        BY <1>1, <1>2, <2>6, Powers DEF Flip, Binary, b5
    <3> QED
      BY <3>1, <2>6
  <2>7. CASE i = 6
    <3>1. Flip(c, i) = b0 + 2 * b1 + 4 * b2 + 8 * b3 + 16 * b4 + 32 * b5 + 64 * (1 - b6) + 128 * b7
      <4> HIDE DEF b0, b1, b2, b3, b4, b5, b6, b7
      <4> QED
        BY <1>1, <1>2, <2>7, Powers DEF Flip, Binary, b6
    <3> QED
      BY <3>1, <2>7
  <2>8. CASE i = 7
    <3>1. Flip(c, i) = b0 + 2 * b1 + 4 * b2 + 8 * b3 + 16 * b4 + 32 * b5 + 64 * b6 + 128 * (1 - b7)
      <4> HIDE DEF b0, b1, b2, b3, b4, b5, b6, b7
      <4> QED
        BY <1>1, <1>2, <2>8, Powers DEF Flip, Binary, b7
    <3> QED
      BY <3>1, <2>8
  <2> QED
    BY <2>1, <2>2, <2>3, <2>4, <2>5, <2>6, <2>7, <2>8
<1> HIDE DEF other
<1> DEFINE f == [k \in 0..7 |-> other(k)]
<1>5. /\ f \in [0..7 -> Binary]
      /\ Flip(c, i) = f[0] + 2 * f[1] + 4 * f[2] + 8 * f[3] + 16 * f[4] + 32 * f[5] + 64 * f[6]
                         + 128 * f[7]
  BY <1>3, <1>4
<1>6. Flip(c, i) \in Byte /\ \A k \in 0..7 : Bit(Flip(c, i), k) = f[k]
  <2> HIDE DEF f
  <2> QED
    BY <1>5, SumBits
<1> QED
  BY <1>6 DEF other

-----------------------------------------------------------------------------
(* Codewords *)

Nibble == 0..15

\* c carries the bits of the nibble and their parities.
IsCodeword(c, n) ==
  /\ c \in Byte
  /\ Bit(c, 2) = Bit(n, 0) /\ Bit(c, 4) = Bit(n, 1) /\ Bit(c, 5) = Bit(n, 2) /\ Bit(c, 6) = Bit(n, 3)
  /\ Bit(c, 0) = (Bit(n, 0) + Bit(n, 1) + Bit(n, 3)) % 2
  /\ Bit(c, 1) = (Bit(n, 0) + Bit(n, 2) + Bit(n, 3)) % 2
  /\ Bit(c, 3) = (Bit(n, 1) + Bit(n, 2) + Bit(n, 3)) % 2

\* A nibble is the sum of four bits.
LEMMA NibbleSum ==
  ASSUME NEW n \in Nibble
  PROVE  /\ n \in Byte /\ Bit(n, 0) \in Binary /\ Bit(n, 1) \in Binary
         /\ Bit(n, 2) \in Binary /\ Bit(n, 3) \in Binary
         /\ n = Bit(n, 0) + 2 * Bit(n, 1) + 4 * Bit(n, 2) + 8 * Bit(n, 3)
<1>1. n \in Byte
  BY DEF Nibble, Byte
<1>2. n = Bit(n, 0) + 2 * Bit(n, 1) + 4 * Bit(n, 2) + 8 * Bit(n, 3)
  BY Powers DEF Bit, Nibble
<1> QED
  BY <1>1, <1>2, ByteSum

\* A sum of bits is even or odd.
LEMMA ParityBinary ==
  ASSUME NEW a \in Binary, NEW b \in Binary, NEW c \in Binary
  PROVE  (a + b + c) % 2 \in Binary
BY DEF Binary

\* EncodeNibble makes the codeword.
LEMMA Encodes ==
  ASSUME NEW n \in Nibble
  PROVE  IsCodeword(EncodeNibble(n), n) /\ EncodeNibble(n) \in 0..127
<1> DEFINE d1 == Bit(n, 0)
           d2 == Bit(n, 1)
           d3 == Bit(n, 2)
           d4 == Bit(n, 3)
           p1 == (d1 + d2 + d4) % 2
           p2 == (d1 + d3 + d4) % 2
           p3 == (d2 + d3 + d4) % 2
           b == [k \in 0..7 |-> CASE k = 0 -> p1 [] k = 1 -> p2 [] k = 2 -> d1 [] k = 3 -> p3
                                   [] k = 4 -> d2 [] k = 5 -> d3 [] k = 6 -> d4 [] k = 7 -> 0]
<1>1. d1 \in Binary /\ d2 \in Binary /\ d3 \in Binary /\ d4 \in Binary
  BY NibbleSum
<1>2. p1 \in Binary /\ p2 \in Binary /\ p3 \in Binary
  BY <1>1, ParityBinary
<1>3. EncodeNibble(n) = p1 + 2 * p2 + 4 * d1 + 8 * p3 + 16 * d2 + 32 * d3 + 64 * d4
  BY DEF EncodeNibble
<1> HIDE DEF d1, d2, d3, d4, p1, p2, p3
<1>4. /\ b[0] = p1 /\ b[1] = p2 /\ b[2] = d1 /\ b[3] = p3
      /\ b[4] = d2 /\ b[5] = d3 /\ b[6] = d4 /\ b[7] = 0
  OBVIOUS
<1>5. b \in [0..7 -> Binary]
  BY <1>1, <1>2 DEF Binary
<1> HIDE DEF b
<1>6. EncodeNibble(n) \in Byte /\ \A k \in 0..7 : Bit(EncodeNibble(n), k) = b[k]
  <2>1. EncodeNibble(n) = b[0] + 2 * b[1] + 4 * b[2] + 8 * b[3] + 16 * b[4] + 32 * b[5] + 64 * b[6]
                            + 128 * b[7]
    BY <1>1, <1>2, <1>3, <1>4 DEF Binary
  <2> QED
    BY <1>5, <2>1, SumBits
<1>7. EncodeNibble(n) \in 0..127
  BY <1>1, <1>2, <1>3 DEF Binary
<1> QED
  BY <1>4, <1>6, <1>7 DEF IsCodeword, d1, d2, d3, d4, p1, p2, p3

\* What carries the data bits is decoded, if its syndrome is 0.
LEMMA DecodesClean ==
  ASSUME NEW n \in Nibble, NEW c \in Byte, Syndrome(c) = 0,
         Bit(c, 2) = Bit(n, 0), Bit(c, 4) = Bit(n, 1), Bit(c, 5) = Bit(n, 2), Bit(c, 6) = Bit(n, 3)
  PROVE  DecodeNibble(c) = n
BY NibbleSum DEF DecodeNibble

\* The syndrome of a codeword with a wrong bit is its position.
LEMMA SyndromeFinds ==
  ASSUME NEW n \in Nibble, NEW c, IsCodeword(c, n), NEW i \in 0..6
  PROVE  Syndrome(c) = 0 /\ Syndrome(Flip(c, i)) = i + 1 /\ Syndrome(Flip(c, 7)) = 0
<1> DEFINE d1 == Bit(n, 0)
           d2 == Bit(n, 1)
           d3 == Bit(n, 2)
           d4 == Bit(n, 3)
           x(k) == Bit(Flip(c, i), k)
           y(k) == Bit(Flip(c, 7), k)
<1>1. d1 \in Binary /\ d2 \in Binary /\ d3 \in Binary /\ d4 \in Binary
  BY NibbleSum
<1>2. /\ Bit(c, 2) = d1 /\ Bit(c, 4) = d2 /\ Bit(c, 5) = d3 /\ Bit(c, 6) = d4
      /\ Bit(c, 0) = (d1 + d2 + d4) % 2 /\ Bit(c, 1) = (d1 + d3 + d4) % 2
      /\ Bit(c, 3) = (d2 + d3 + d4) % 2 /\ c \in Byte
  BY DEF IsCodeword
<1>3. \A k \in 0..7 : x(k) = IF k = i THEN 1 - Bit(c, k) ELSE Bit(c, k)
  <2>1. i \in 0..7
    OBVIOUS
  <2> QED
    BY <1>2, <2>1, FlipBits
<1>4. \A k \in 0..7 : y(k) = IF k = 7 THEN 1 - Bit(c, k) ELSE Bit(c, k)
  <2>1. 7 \in 0..7
    OBVIOUS
  <2> QED
    BY <1>2, <2>1, FlipBits
<1>5. /\ Syndrome(c) = ((Bit(c, 0) + Bit(c, 2) + Bit(c, 4) + Bit(c, 6)) % 2)
             + 2 * ((Bit(c, 1) + Bit(c, 2) + Bit(c, 5) + Bit(c, 6)) % 2)
             + 4 * ((Bit(c, 3) + Bit(c, 4) + Bit(c, 5) + Bit(c, 6)) % 2)
      /\ Syndrome(Flip(c, i)) = ((x(0) + x(2) + x(4) + x(6)) % 2)
             + 2 * ((x(1) + x(2) + x(5) + x(6)) % 2) + 4 * ((x(3) + x(4) + x(5) + x(6)) % 2)
      /\ Syndrome(Flip(c, 7)) = ((y(0) + y(2) + y(4) + y(6)) % 2)
             + 2 * ((y(1) + y(2) + y(5) + y(6)) % 2) + 4 * ((y(3) + y(4) + y(5) + y(6)) % 2)
  BY DEF Syndrome
<1> HIDE DEF d1, d2, d3, d4, x, y
<1>6. Syndrome(c) = 0
  BY <1>1, <1>2, <1>5 DEF Binary
<1>7. Syndrome(Flip(c, 7)) = 0
  <2>1. /\ y(0) = Bit(c, 0) /\ y(1) = Bit(c, 1) /\ y(2) = Bit(c, 2) /\ y(3) = Bit(c, 3)
        /\ y(4) = Bit(c, 4) /\ y(5) = Bit(c, 5) /\ y(6) = Bit(c, 6)
    BY <1>4
  <2>2. Syndrome(Flip(c, 7)) = Syndrome(c)
    BY <1>5, <2>1
  <2> QED
    BY <1>6, <2>2
<1>8. Syndrome(Flip(c, i)) = i + 1
  <2>1. CASE i = 0
    <3>1. /\ x(0) = 1 - Bit(c, 0) /\ x(1) = Bit(c, 1) /\ x(2) = Bit(c, 2) /\ x(3) = Bit(c, 3)
          /\ x(4) = Bit(c, 4) /\ x(5) = Bit(c, 5) /\ x(6) = Bit(c, 6)
      BY <1>3, <2>1
    <3> QED
      BY <1>1, <1>2, <1>5, <2>1, <3>1 DEF Binary
  <2>2. CASE i = 1
    <3>1. /\ x(0) = Bit(c, 0) /\ x(1) = 1 - Bit(c, 1) /\ x(2) = Bit(c, 2) /\ x(3) = Bit(c, 3)
          /\ x(4) = Bit(c, 4) /\ x(5) = Bit(c, 5) /\ x(6) = Bit(c, 6)
      BY <1>3, <2>2
    <3> QED
      BY <1>1, <1>2, <1>5, <2>2, <3>1 DEF Binary
  <2>3. CASE i = 2
    <3>1. /\ x(0) = Bit(c, 0) /\ x(1) = Bit(c, 1) /\ x(2) = 1 - Bit(c, 2) /\ x(3) = Bit(c, 3)
          /\ x(4) = Bit(c, 4) /\ x(5) = Bit(c, 5) /\ x(6) = Bit(c, 6)
      BY <1>3, <2>3
    <3> QED
      BY <1>1, <1>2, <1>5, <2>3, <3>1 DEF Binary
  <2>4. CASE i = 3
    <3>1. /\ x(0) = Bit(c, 0) /\ x(1) = Bit(c, 1) /\ x(2) = Bit(c, 2) /\ x(3) = 1 - Bit(c, 3)
          /\ x(4) = Bit(c, 4) /\ x(5) = Bit(c, 5) /\ x(6) = Bit(c, 6)
      BY <1>3, <2>4
    <3> QED
      BY <1>1, <1>2, <1>5, <2>4, <3>1 DEF Binary
  <2>5. CASE i = 4
    <3>1. /\ x(0) = Bit(c, 0) /\ x(1) = Bit(c, 1) /\ x(2) = Bit(c, 2) /\ x(3) = Bit(c, 3)
          /\ x(4) = 1 - Bit(c, 4) /\ x(5) = Bit(c, 5) /\ x(6) = Bit(c, 6)
      BY <1>3, <2>5
    <3> QED
      BY <1>1, <1>2, <1>5, <2>5, <3>1 DEF Binary
  <2>6. CASE i = 5
    <3>1. /\ x(0) = Bit(c, 0) /\ x(1) = Bit(c, 1) /\ x(2) = Bit(c, 2) /\ x(3) = Bit(c, 3)
          /\ x(4) = Bit(c, 4) /\ x(5) = 1 - Bit(c, 5) /\ x(6) = Bit(c, 6)
      BY <1>3, <2>6
    <3> QED
      BY <1>1, <1>2, <1>5, <2>6, <3>1 DEF Binary
  <2>7. CASE i = 6
    <3>1. /\ x(0) = Bit(c, 0) /\ x(1) = Bit(c, 1) /\ x(2) = Bit(c, 2) /\ x(3) = Bit(c, 3)
          /\ x(4) = Bit(c, 4) /\ x(5) = Bit(c, 5) /\ x(6) = 1 - Bit(c, 6)
      BY <1>3, <2>7
    <3> QED
      BY <1>1, <1>2, <1>5, <2>7, <3>1 DEF Binary
  <2> QED
    BY <2>1, <2>2, <2>3, <2>4, <2>5, <2>6, <2>7
<1> QED
  BY <1>6, <1>7, <1>8

\* A codeword is decoded, whatever bit of it is wrong, and if none is.
LEMMA NibbleCorrected ==
  ASSUME NEW n \in Nibble, NEW i \in 0..7
  PROVE  DecodeNibble(EncodeNibble(n)) = n /\ DecodeNibble(Flip(EncodeNibble(n), i)) = n
<1> DEFINE c == EncodeNibble(n)
           f == Flip(c, i)
<1>1. IsCodeword(c, n) /\ c \in Byte
  BY Encodes DEF IsCodeword
<1> HIDE DEF c
<1>2. /\ Bit(c, 2) = Bit(n, 0) /\ Bit(c, 4) = Bit(n, 1)
      /\ Bit(c, 5) = Bit(n, 2) /\ Bit(c, 6) = Bit(n, 3)
  BY <1>1 DEF IsCodeword
<1>3. Syndrome(c) = 0
  BY <1>1, SyndromeFinds
<1>4. DecodeNibble(c) = n
  BY <1>1, <1>2, <1>3, DecodesClean
<1>5. f \in Byte /\ \A k \in 0..7 : Bit(f, k) = IF k = i THEN 1 - Bit(c, k) ELSE Bit(c, k)
  BY <1>1, FlipBits
<1>6. ASSUME i = 7 PROVE DecodeNibble(f) = n
  <2>1. Syndrome(f) = 0
    BY <1>1, <1>6, SyndromeFinds
  <2> HIDE DEF f
  <2> QED
    BY <1>2, <1>5, <1>6, <2>1, DecodesClean
<1>7. ASSUME i \in 0..6 PROVE DecodeNibble(f) = n
  <2>1. Syndrome(f) = i + 1
    BY <1>1, <1>7, SyndromeFinds
  <2> HIDE DEF f
  <2>2. DecodeNibble(f) = Bit(Flip(f, i), 2) + 2 * Bit(Flip(f, i), 4) + 4 * Bit(Flip(f, i), 5)
                            + 8 * Bit(Flip(f, i), 6)
    BY <1>7, <2>1 DEF DecodeNibble
  <2>3. \A k \in 0..7 : Bit(Flip(f, i), k) = IF k = i THEN 1 - Bit(f, k) ELSE Bit(f, k)
    BY <1>5, FlipBits
  <2>4. \A k \in 0..7 : Bit(Flip(f, i), k) = Bit(c, k)
    <3>1. \A b \in Binary : 1 - (1 - b) = b
      BY DEF Binary
    <3>2. \A k \in 0..7 : Bit(c, k) \in Binary
      BY <1>1, ByteSum
    <3> QED
      BY <1>5, <2>3, <3>1, <3>2
  <2> QED
    BY <1>2, <2>2, <2>4, NibbleSum
<1>8. DecodeNibble(f) = n
  BY <1>6, <1>7
<1> QED
  BY <1>4, <1>8 DEF c

-----------------------------------------------------------------------------
(* Strings *)

\* A function on the first numbers is a sequence.
LEMMA FunctionIsSeq ==
  ASSUME NEW S, NEW n \in Nat, NEW f \in [1..n -> S]
  PROVE  f \in Seq(S) /\ Len(f) = n
<1>1. f \in Seq(S)
  BY SeqDef
<1>2. Len(f) \in Nat /\ 1..Len(f) = 1..n
  BY <1>1, LenProperties
<1> QED
  BY <1>1, <1>2

\* The two halves of a byte, of which it is made again.
LEMMA Halves ==
  ASSUME NEW b \in Byte
  PROVE  /\ b % 16 \in Nibble /\ b \div 16 \in Nibble
         /\ (b % 16) + 16 * (b \div 16) = b
BY DEF Byte, Nibble

\* Two codewords for each byte.
LEMMA EncodesString ==
  ASSUME NEW data \in Seq(Byte)
  PROVE  /\ EncodeString(data) \in Seq(0..127) /\ Len(EncodeString(data)) = 2 * Len(data)
         /\ \A k \in 1..Len(data) :
              /\ EncodeString(data)[2 * k - 1] = EncodeNibble(data[k] % 16)
              /\ EncodeString(data)[2 * k] = EncodeNibble(data[k] \div 16)
<1> DEFINE half(i) == IF i % 2 = 1 THEN data[(i + 1) \div 2] % 16 ELSE data[(i + 1) \div 2] \div 16
           code == [i \in 1..(2 * Len(data)) |-> EncodeNibble(half(i))]
<1>1. Len(data) \in Nat /\ \A k \in 1..Len(data) : data[k] \in Byte
  BY LenProperties, ElementOfSeq
<1>2. EncodeString(data) = code
  BY DEF EncodeString
<1>3. ASSUME NEW i \in 1..(2 * Len(data)) PROVE half(i) \in Nibble
  <2>1. (i + 1) \div 2 \in 1..Len(data)
    BY <1>1
  <2> QED
    BY <1>1, <2>1, Halves
<1>4. ASSUME NEW k \in 1..Len(data)
      PROVE  half(2 * k - 1) = data[k] % 16 /\ half(2 * k) = data[k] \div 16
  <2>1. /\ (2 * k - 1) % 2 = 1 /\ ((2 * k - 1) + 1) \div 2 = k
        /\ (2 * k) % 2 = 0 /\ (2 * k + 1) \div 2 = k
    BY <1>1
  <2> QED
    BY <2>1
<1> HIDE DEF half
<1>5. code \in [1..(2 * Len(data)) -> 0..127]
  BY <1>3, Encodes
<1>6. code \in Seq(0..127) /\ Len(code) = 2 * Len(data)
  <2> DEFINE n == 2 * Len(data)
             S == 0..127
  <2>1. n \in Nat /\ code \in [1..n -> S]
    BY <1>1, <1>5
  <2> HIDE DEF code, n, S
  <2>2. code \in Seq(S) /\ Len(code) = n
    BY <2>1, FunctionIsSeq
  <2> QED
    BY <2>2 DEF n, S
<1>7. ASSUME NEW k \in 1..Len(data)
      PROVE  code[2 * k - 1] = EncodeNibble(data[k] % 16) /\ code[2 * k] = EncodeNibble(data[k] \div 16)
  <2>1. 2 * k - 1 \in 1..(2 * Len(data)) /\ 2 * k \in 1..(2 * Len(data))
    BY <1>1
  <2> QED
    BY <1>4, <2>1
<1> HIDE DEF code
<1> QED
  BY <1>2, <1>6, <1>7

\* What decodes to the halves of bytes decodes to the bytes.
LEMMA DecodesString ==
  ASSUME NEW data \in Seq(Byte), NEW code \in Seq(Byte), Len(code) = 2 * Len(data),
         \A k \in 1..Len(data) : /\ DecodeNibble(code[2 * k - 1]) = data[k] % 16
                                 /\ DecodeNibble(code[2 * k]) = data[k] \div 16
  PROVE  DecodeString(code) = data
<1> DEFINE byte(i) == DecodeNibble(code[2 * i - 1])
                        + (IF 2 * i <= Len(code) THEN 16 * DecodeNibble(code[2 * i]) ELSE 0)
           bytes == [i \in 1..((Len(code) + 1) \div 2) |-> byte(i)]
<1>1. Len(data) \in Nat /\ \A k \in 1..Len(data) : data[k] \in Byte
  BY LenProperties, ElementOfSeq
<1>2. DecodeString(code) = bytes
  BY DEF DecodeString
<1>3. (Len(code) + 1) \div 2 = Len(data)
  BY <1>1
<1>4. ASSUME NEW i \in 1..Len(data) PROVE byte(i) = data[i]
  <2>1. 2 * i <= Len(code) /\ data[i] \in Byte
    BY <1>1
  <2>2. byte(i) = (data[i] % 16) + 16 * (data[i] \div 16)
    BY <2>1
  <2> QED
    BY <2>1, <2>2, Halves
<1> HIDE DEF byte
<1>5. bytes = [i \in 1..Len(data) |-> data[i]]
  BY <1>3, <1>4
<1>6. data = [i \in 1..Len(data) |-> data[i]]
  BY LenProperties
<1> QED
  BY <1>2, <1>5, <1>6

\* A string is decoded, though each of its codewords may have one wrong bit
\* (Hamming74::decode).
THEOREM StringCorrected ==
  ASSUME NEW data \in Seq(Byte), NEW at \in [1..(2 * Len(data)) -> 0..7]
  PROVE  LET code == EncodeString(data)
         IN /\ DecodeString(code) = data
            /\ DecodeString([i \in DOMAIN code |-> Flip(code[i], at[i])]) = data
<1> DEFINE code == EncodeString(data)
           bad == [i \in DOMAIN code |-> Flip(code[i], at[i])]
<1>1. /\ code \in Seq(0..127) /\ Len(code) = 2 * Len(data)
      /\ \A k \in 1..Len(data) : /\ code[2 * k - 1] = EncodeNibble(data[k] % 16)
                                  /\ code[2 * k] = EncodeNibble(data[k] \div 16)
  BY EncodesString
<1> HIDE DEF code
<1>2. /\ Len(data) \in Nat /\ \A k \in 1..Len(data) : data[k] \in Byte
      /\ DOMAIN code = 1..(2 * Len(data)) /\ \A i \in 1..(2 * Len(data)) : code[i] \in 0..127
  BY <1>1, LenProperties, ElementOfSeq
<1>3. code \in Seq(Byte)
  <2>1. 0..127 \subseteq Byte
    BY DEF Byte
  <2> QED
    BY <1>1, <2>1, SeqMonotonic
<1>4. bad \in Seq(Byte) /\ Len(bad) = 2 * Len(data)
  <2>1. \A i \in 1..(2 * Len(data)) : Flip(code[i], at[i]) \in Byte
    <3>1. ASSUME NEW i \in 1..(2 * Len(data)) PROVE Flip(code[i], at[i]) \in Byte
      <4>1. code[i] \in Byte /\ at[i] \in 0..7
        BY <1>2 DEF Byte
      <4> QED
        BY <4>1, FlipBits
    <3> QED
      BY <3>1
  <2>2. bad \in [1..(2 * Len(data)) -> Byte]
    BY <1>2, <2>1
  <2> DEFINE n == 2 * Len(data)
  <2>3. n \in Nat /\ bad \in [1..n -> Byte]
    BY <1>2, <2>2
  <2> HIDE DEF bad, n
  <2>4. bad \in Seq(Byte) /\ Len(bad) = n
    BY <2>3, FunctionIsSeq
  <2> QED
    BY <2>4 DEF n
<1>5. ASSUME NEW k \in 1..Len(data)
      PROVE  /\ DecodeNibble(code[2 * k - 1]) = data[k] % 16
             /\ DecodeNibble(code[2 * k]) = data[k] \div 16
             /\ DecodeNibble(bad[2 * k - 1]) = data[k] % 16
             /\ DecodeNibble(bad[2 * k]) = data[k] \div 16
  <2>1. 2 * k - 1 \in 1..(2 * Len(data)) /\ 2 * k \in 1..(2 * Len(data))
    BY <1>2
  <2>2. /\ bad[2 * k - 1] = Flip(code[2 * k - 1], at[2 * k - 1])
        /\ bad[2 * k] = Flip(code[2 * k], at[2 * k])
        /\ at[2 * k - 1] \in 0..7 /\ at[2 * k] \in 0..7
    BY <1>2, <2>1
  <2>3. data[k] % 16 \in Nibble /\ data[k] \div 16 \in Nibble
    BY <1>2, Halves
  <2> HIDE DEF bad
  <2> QED
    BY <1>1, <2>2, <2>3, NibbleCorrected
<1> HIDE DEF bad
<1>6. DecodeString(code) = data /\ DecodeString(bad) = data
  BY <1>1, <1>3, <1>4, <1>5, DecodesString
<1> QED
  BY <1>6 DEF code, bad

-----------------------------------------------------------------------------
(* The checksum *)

Word16 == {n \in Nat : n < 65536}

\* The results of N steps from a first value.
Steps(N, S, a, G) == {f \in [0..N -> S] : f[0] = a /\ \A k \in 1..N : f[k] = G[k][f[k - 1]]}

\* There are such results: what the checksum is after each bit exists.
LEMMA StepsExist ==
  ASSUME NEW N \in Nat, NEW S, NEW a \in S, NEW G \in [1..N -> [S -> S]]
  PROVE  Steps(N, S, a, G) # {}
<1> DEFINE Good(n, f) == f[0] = a /\ \A k \in 1..n : f[k] = G[k][f[k - 1]]
           U == {n \in Nat : n <= N => \E f \in [0..n -> S] : Good(n, f)}
<1>1. 0 \in U
  <2> DEFINE f == [i \in 0..0 |-> a]
  <2>1. f \in [0..0 -> S] /\ Good(0, f)
    OBVIOUS
  <2> HIDE DEF f, Good
  <2> QED
    BY <2>1
<1>2. ASSUME NEW n \in Nat, n \in U PROVE n + 1 \in U
  <2> SUFFICES ASSUME n + 1 <= N PROVE \E f \in [0..(n + 1) -> S] : Good(n + 1, f)
    OBVIOUS
  <2>1. PICK f \in [0..n -> S] : Good(n, f)
    BY <1>2
  <2> DEFINE last == G[n + 1][f[n]]
             g == [i \in 0..(n + 1) |-> IF i <= n THEN f[i] ELSE last]
  <2>2. last \in S
    BY <2>1
  <2>3. g \in [0..(n + 1) -> S]
    BY <2>2
  <2>4. g[0] = a
    BY <2>1
  <2>5. ASSUME NEW k \in 1..(n + 1) PROVE g[k] = G[k][g[k - 1]]
    <3>1. k - 1 \in 0..n /\ g[k - 1] = f[k - 1]
      OBVIOUS
    <3>2. CASE k <= n
      BY <2>1, <3>1, <3>2
    <3>3. CASE ~(k <= n)
      <4>1. k = n + 1 /\ k - 1 = n
        BY <3>3
      <4> QED
        BY <3>1, <4>1
    <3> QED
      BY <3>2, <3>3
  <2>6. Good(n + 1, g)
    <3> HIDE DEF g
    <3> QED
      BY <2>4, <2>5
  <2> HIDE DEF g, Good
  <2> QED
    BY <2>3, <2>6
<1>3. N \in U
  <2> HIDE DEF U
  <2> QED
    BY <1>1, <1>2, SetInduction
<1> HIDE DEF Good
<1>4. \E f \in [0..N -> S] : Good(N, f)
  BY <1>3
<1> QED
  BY <1>4 DEF Good, Steps

\* A step of the checksum keeps its width.
LEMMA ShiftCrcType ==
  ASSUME NEW crc \in Word16, NEW bit
  PROVE  ShiftCrc(crc, bit) \in Word16
<1> DEFINE shifted == (2 * crc) % 65536
<1>1. shifted \in Word16
  <2>1. \A y \in Nat : y % 65536 \in Word16
    BY DEF Word16
  <2>2. 2 * crc \in Nat
    BY DEF Word16
  <2> QED
    BY <2>1, <2>2
<1>2. ASSUME NEW x \in Word16, NEW w \in {1, 32, 4096}
      PROVE  IF (x \div w) % 2 = 1 THEN x - w \in Word16 ELSE x + w \in Word16
  <2>1. x \in Nat /\ x < 65536
    BY DEF Word16
  <2>2. \A y \in Nat : y < 65536 =>
          /\ (y \div 1) % 2 = 1 => y >= 1
          /\ (y \div 1) % 2 # 1 => y + 1 < 65536
    OBVIOUS
  <2>3. \A y \in Nat : y < 65536 =>
          /\ (y \div 32) % 2 = 1 => y >= 32
          /\ (y \div 32) % 2 # 1 => y + 32 < 65536
    OBVIOUS
  <2>4. \A y \in Nat : y < 65536 =>
          /\ (y \div 4096) % 2 = 1 => y >= 4096
          /\ (y \div 4096) % 2 # 1 => y + 4096 < 65536
    OBVIOUS
  <2>5. /\ (x \div w) % 2 = 1 => x >= w
        /\ (x \div w) % 2 # 1 => x + w < 65536
    <3>1. CASE w = 1
      BY <2>1, <2>2, <3>1
    <3>2. CASE w = 32
      BY <2>1, <2>3, <3>2
    <3>3. CASE w = 4096
      BY <2>1, <2>4, <3>3
    <3> QED
      BY <3>1, <3>2, <3>3
  <2>6. w \in Nat
    OBVIOUS
  <2> DEFINE odd == (x \div w) % 2 = 1
  <2>7. (odd => x >= w) /\ (~odd => x + w < 65536)
    BY <2>5
  <2> HIDE DEF odd
  <2>8. IF odd THEN x - w \in Word16 ELSE x + w \in Word16
    BY <2>1, <2>6, <2>7 DEF Word16
  <2> QED
    BY <2>8 DEF odd
<1>3. 2^0 = 1 /\ 2^5 = 32 /\ 2^12 = 4096
  BY SMT
<1>4. ASSUME NEW x \in Word16, NEW i \in {0, 5, 12} PROVE Flip(x, i) \in Word16
  <2> DEFINE w == 2^i
  <2>1. w \in {1, 32, 4096}
    <3>1. CASE i = 0
      BY <1>3, <3>1
    <3>2. CASE i = 5
      BY <1>3, <3>2
    <3>3. CASE i = 12
      BY <1>3, <3>3
    <3> QED
      BY <3>1, <3>2, <3>3
  <2>2. Flip(x, i) = IF (x \div w) % 2 = 1 THEN x - w ELSE x + w
    BY DEF Flip, Bit
  <2> HIDE DEF w
  <2> QED
    BY <1>2, <2>1, <2>2
<1> HIDE DEF shifted
<1>5. Flip(Flip(Flip(shifted, 0), 5), 12) \in Word16
  BY <1>1, <1>4
<1> QED
  BY <1>1, <1>5 DEF ShiftCrc, shifted

\* The checksum is computed, for any bytes, and has 16 bits.
LEMMA Crc16Type ==
  ASSUME NEW bytes, Len(bytes) \in Nat
  PROVE  Crc16(bytes) \in Word16
<1> DEFINE N == 8 * Len(bytes)
           first == 65535
           Step(c, n) == ShiftCrc(c, BitOf(bytes, n))
           Rec(crc) == crc = [n \in 0..N |-> IF n = 0 THEN first ELSE Step(crc[n - 1], n)]
<1>1. N \in Nat /\ first \in Word16
  BY DEF Word16
<1>2. CrcAfter(bytes) = CHOOSE crc : Rec(crc)
  BY DEF CrcAfter
<1>3. Crc16(bytes) = CrcAfter(bytes)[N]
  BY DEF Crc16
<1>4. \A c \in Word16, n \in 1..N : Step(c, n) \in Word16
  BY ShiftCrcType
<1> HIDE DEF N, first, Step
<1>5. PICK f \in [0..N -> Word16] : f[0] = first /\ \A k \in 1..N : f[k] = Step(f[k - 1], k)
  <2> DEFINE G == [k \in 1..N |-> [c \in Word16 |-> Step(c, k)]]
  <2>1. G \in [1..N -> [Word16 -> Word16]]
    BY <1>4
  <2>2. \A k \in 1..N, c \in Word16 : G[k][c] = Step(c, k)
    OBVIOUS
  <2> HIDE DEF G
  <2>3. PICK f \in Steps(N, Word16, first, G) : TRUE
    BY <1>1, <2>1, StepsExist
  <2>4. /\ f \in [0..N -> Word16] /\ f[0] = first
        /\ \A k \in 1..N : f[k] = G[k][f[k - 1]]
    BY DEF Steps
  <2>5. ASSUME NEW k \in 1..N PROVE f[k] = Step(f[k - 1], k)
    <3>1. k - 1 \in 0..N /\ f[k - 1] \in Word16
      BY <1>1, <2>4
    <3> QED
      BY <2>2, <2>4, <3>1
  <2> QED
    BY <2>4, <2>5
<1>6. Rec(f)
  <2>1. ASSUME NEW n \in 0..N PROVE f[n] = IF n = 0 THEN first ELSE Step(f[n - 1], n)
    <3>1. n # 0 => n \in 1..N
      BY <1>1
    <3> QED
      BY <1>5, <3>1
  <2>2. f = [n \in 0..N |-> f[n]]
    OBVIOUS
  <2>3. f = [n \in 0..N |-> IF n = 0 THEN first ELSE Step(f[n - 1], n)]
    BY <2>1, <2>2
  <2> QED
    BY <2>3
\* what the recursion fixes
<1>7. ASSUME NEW g, Rec(g) PROVE g[N] \in Word16
  <2> DEFINE V == {n \in Nat : n <= N => g[n] \in Word16}
  <2>1. \A n \in 0..N : g[n] = IF n = 0 THEN first ELSE Step(g[n - 1], n)
    BY <1>7
  <2> HIDE DEF Rec
  <2>2. 0 \in V
    BY <1>1, <2>1
  <2>3. ASSUME NEW n \in Nat, n \in V PROVE n + 1 \in V
    <3> SUFFICES ASSUME n + 1 <= N PROVE g[n + 1] \in Word16
      OBVIOUS
    <3>1. g[n] \in Word16 /\ n + 1 \in 1..N /\ n + 1 \in 0..N /\ n + 1 # 0 /\ (n + 1) - 1 = n
      BY <1>1, <2>3
    <3>2. g[n + 1] = Step(g[n], n + 1)
      BY <2>1, <3>1
    <3> QED
      BY <1>4, <3>1, <3>2
  <2>4. N \in V
    <3> HIDE DEF V
    <3> QED
      BY <1>1, <2>2, <2>3, SetInduction
  <2> QED
    BY <1>1, <2>4
<1> HIDE DEF Rec
<1>8. Rec(CrcAfter(bytes))
  BY <1>2, <1>6
<1> QED
  BY <1>3, <1>7, <1>8

-----------------------------------------------------------------------------
(* Bytes *)

\* A string of two parts, and a part of a string.
LEMMA Joined ==
  ASSUME NEW s \in Seq(Byte), NEW t \in Seq(Byte)
  PROVE  /\ s \o t \in Seq(Byte) /\ Len(s) \in Nat /\ Len(t) \in Nat
         /\ Len(s \o t) = Len(s) + Len(t)
         /\ \A i \in 1..Len(s) : (s \o t)[i] = s[i]
         /\ \A i \in 1..Len(t) : (s \o t)[Len(s) + i] = t[i]
<1> DEFINE u == s \o t
<1>1. /\ u \in Seq(Byte) /\ Len(s) \in Nat /\ Len(t) \in Nat /\ Len(u) = Len(s) + Len(t)
      /\ \A i \in 1..(Len(s) + Len(t)) : u[i] = IF i <= Len(s) THEN s[i] ELSE t[i - Len(s)]
  BY ConcatProperties, LenProperties
<1> HIDE DEF u
<1>2. \A i \in 1..Len(s) : u[i] = s[i]
  BY <1>1
<1>3. ASSUME NEW i \in 1..Len(t) PROVE u[Len(s) + i] = t[i]
  <2>1. /\ Len(s) + i \in 1..(Len(s) + Len(t)) /\ ~(Len(s) + i <= Len(s))
        /\ (Len(s) + i) - Len(s) = i
    BY <1>1
  <2> QED
    BY <1>1, <2>1
<1> QED
  BY <1>1, <1>2, <1>3 DEF u

\* What SubSeq takes from a string of bytes.
LEMMA Part ==
  ASSUME NEW s \in Seq(Byte), NEW a \in Nat \ {0}, NEW b \in Nat, b <= Len(s)
  PROVE  /\ SubSeq(s, a, b) \in Seq(Byte) /\ Len(s) \in Nat
         /\ Len(SubSeq(s, a, b)) = IF a <= b THEN b - a + 1 ELSE 0
         /\ \A i \in 1..(b - a + 1) : SubSeq(s, a, b)[i] = s[a + i - 1]
<1>1. Len(s) \in Nat /\ \A i \in 1..Len(s) : s[i] \in Byte
  BY LenProperties, ElementOfSeq
<1>2. \A i \in a..b : s[i] \in Byte
  BY <1>1
<1> QED
  BY <1>1, <1>2, SubSeqProperties

Associative(a, b, c) == a \o (b \o c) = (a \o b) \o c

\* It does not matter which of three strings are joined first.
LEMMA BytesAssociative ==
  ASSUME NEW a \in Seq(Byte), NEW b \in Seq(Byte), NEW c \in Seq(Byte)
  PROVE  Associative(a, b, c)
<1>1. (a \o b) \o c = a \o (b \o c)
  BY ConcatAssociative
<1> QED
  BY <1>1 DEF Associative

\* Strings with the same bytes are the same.
LEMMA SameBytes ==
  ASSUME NEW s \in Seq(Byte), NEW t \in Seq(Byte), Len(s) = Len(t),
         \A i \in 1..Len(s) : s[i] = t[i]
  PROVE  s = t
BY SeqEqual

\* A codeword, damaged or not, stands for a nibble.
LEMMA DecodeNibbleType ==
  ASSUME NEW codeword \in Byte
  PROVE  DecodeNibble(codeword) \in Nibble
<1>1. \A n \in Nat : n % 2 \in {0, 1}
  OBVIOUS
<1>2. Syndrome(codeword) \in 0..7
  <2> DEFINE b(i) == Bit(codeword, i - 1)
  <2>1. /\ b(1) \in Nat /\ b(2) \in Nat /\ b(3) \in Nat /\ b(4) \in Nat
        /\ b(5) \in Nat /\ b(6) \in Nat /\ b(7) \in Nat
    BY ByteSum DEF Binary
  <2> DEFINE x == (b(1) + b(3) + b(5) + b(7)) % 2
             y == (b(2) + b(3) + b(6) + b(7)) % 2
             z == (b(4) + b(5) + b(6) + b(7)) % 2
  <2> HIDE DEF b
  <2>2. x \in {0, 1} /\ y \in {0, 1} /\ z \in {0, 1}
    BY <1>1, <2>1
  <2>3. Syndrome(codeword) = x + 2 * y + 4 * z
    BY DEF Syndrome, b
  <2> HIDE DEF x, y, z
  <2> QED
    BY <2>2, <2>3
<1> DEFINE c == IF Syndrome(codeword) = 0 THEN codeword ELSE Flip(codeword, Syndrome(codeword) - 1)
<1>3. c \in Byte
  <2>1. CASE Syndrome(codeword) = 0
    BY <2>1
  <2>2. CASE Syndrome(codeword) # 0
    <3>1. Syndrome(codeword) - 1 \in 0..7
      BY <1>2, <2>2
    <3> QED
      BY <2>2, <3>1, FlipBits
  <2> QED
    BY <2>1, <2>2
<1>4. DecodeNibble(codeword) = Bit(c, 2) + 2 * Bit(c, 4) + 4 * Bit(c, 5) + 8 * Bit(c, 6)
  BY DEF DecodeNibble
<1> HIDE DEF c
<1>5. Bit(c, 2) \in {0, 1} /\ Bit(c, 4) \in {0, 1} /\ Bit(c, 5) \in {0, 1} /\ Bit(c, 6) \in {0, 1}
  BY <1>3, ByteSum DEF Binary
<1> QED
  BY <1>4, <1>5 DEF Nibble

\* Bytes that are decoded are bytes, also of an odd number of codewords.
LEMMA DecodeStringType ==
  ASSUME NEW codewords \in Seq(Byte)
  PROVE  DecodeString(codewords) \in Seq(Byte)
<1> DEFINE n == (Len(codewords) + 1) \div 2
           byte(i) == DecodeNibble(codewords[2 * i - 1])
                        + (IF 2 * i <= Len(codewords) THEN 16 * DecodeNibble(codewords[2 * i]) ELSE 0)
<1>1. Len(codewords) \in Nat /\ \A i \in 1..Len(codewords) : codewords[i] \in Byte
  BY LenProperties, ElementOfSeq
<1>2. n \in Nat /\ \A i \in 1..n : 2 * i - 1 \in 1..Len(codewords)
  BY <1>1
<1>3. ASSUME NEW i \in 1..n PROVE byte(i) \in Byte
  <2>1. DecodeNibble(codewords[2 * i - 1]) \in Nibble
    BY <1>1, <1>2, DecodeNibbleType
  <2>2. 2 * i <= Len(codewords) => DecodeNibble(codewords[2 * i]) \in Nibble
    BY <1>1, <1>2, DecodeNibbleType
  <2>3. \A x, y \in Nibble : x + 16 * y \in Byte /\ x + 0 \in Byte
    BY DEF Nibble, Byte
  <2>4. 0 \in Nibble
    BY DEF Nibble
  <2> DEFINE x == DecodeNibble(codewords[2 * i - 1])
             y == DecodeNibble(codewords[2 * i])
  <2> HIDE DEF x, y
  <2>5. (IF 2 * i <= Len(codewords) THEN x + 16 * y ELSE x + 0) \in Byte
    BY <2>1, <2>2, <2>3, <2>4 DEF x, y
  <2> QED
    BY <2>5 DEF x, y
<1>4. DecodeString(codewords) = [i \in 1..n |-> byte(i)]
  BY DEF DecodeString
<1> HIDE DEF n, byte
<1>5. [i \in 1..n |-> byte(i)] \in [1..n -> Byte]
  BY <1>3
<1> QED
  BY <1>2, <1>4, <1>5, FunctionIsSeq

-----------------------------------------------------------------------------
(* Frames *)

\* The header is two bytes that hold the checksum (NetworkHeader).
LEMMA HeaderType ==
  ASSUME NEW payload \in Seq(Byte)
  PROVE  /\ Header(payload) \in Seq(Byte) /\ Len(Header(payload)) = 2
         /\ Header(payload)[1] + 256 * Header(payload)[2] = Crc16(payload)
<1> DEFINE crc == Crc16(payload)
<1>1. crc \in Word16
  <2>1. Len(payload) \in Nat
    BY LenProperties
  <2> QED
    BY <2>1, Crc16Type
<1>2. Header(payload) = <<crc % 256, crc \div 256>>
  BY DEF Header
<1> HIDE DEF crc
<1>3. /\ crc % 256 \in Byte /\ crc \div 256 \in Byte
      /\ (crc % 256) + 256 * (crc \div 256) = crc
  BY <1>1 DEF Word16, Byte
<1> DEFINE low == crc % 256
           high == crc \div 256
<1> HIDE DEF low, high
<1>4. <<low, high>> \in Seq(Byte) /\ Len(<<low, high>>) = 2
  BY <1>3 DEF low, high
<1>5. <<low, high>>[1] = low /\ <<low, high>>[2] = high
  OBVIOUS
<1>6. Header(payload) = <<low, high>>
  BY <1>2 DEF low, high
<1> QED
  BY <1>3, <1>4, <1>5, <1>6 DEF low, high, crc

\* A packet with its header, what is put on the line of it, and what is read of that.
Packet(c, p) == (IF c.crc THEN Header(p) ELSE << >>) \o p
Coded(c, p) == IF c.hamming THEN EncodeString(Packet(c, p)) ELSE Packet(c, p)
Decoded(c, string) == IF c.hamming THEN DecodeString(string) ELSE string

\* The packets are bytes.
LEMMA PayloadType == ASSUME NEW p \in Payloads PROVE p \in Seq(Byte)
BY SerialAssumption DEF Byte

\* The delimiter has at least one byte.
LEMMA ConfigType ==
  ASSUME NEW c \in Configs
  PROVE  c.delim \in Seq(Byte) /\ Len(c.delim) \in Nat \ {0}
<1>1. c.delim \in Seq(Byte) /\ c.delim # << >>
  BY SerialAssumption DEF Byte
<1> QED
  BY <1>1, EmptySeq

\* A packet with its header passes the check, and its body is the packet (SerialHandler::receive).
LEMMA PacketFacts ==
  ASSUME NEW c \in Configs, NEW p \in Payloads
  PROVE  /\ Packet(c, p) \in Seq(Byte)
         /\ c.crc => CrcOk(Packet(c, p)) /\ Body(Packet(c, p)) = p
         /\ ~c.crc => Packet(c, p) = p
<1>1. p \in Seq(Byte) /\ Len(p) \in Nat
  BY PayloadType, LenProperties
<1>2. CASE c.crc
  <2> DEFINE h == Header(p)
             packet == h \o p
  <2>1. h \in Seq(Byte) /\ Len(h) = 2 /\ h[1] + 256 * h[2] = Crc16(p)
    BY <1>1, HeaderType
  <2>2. Packet(c, p) = packet
    BY <1>2 DEF Packet
  <2> HIDE DEF h
  <2>3. /\ packet \in Seq(Byte) /\ Len(packet) = 2 + Len(p)
        /\ packet[1] = h[1] /\ packet[2] = h[2]
        /\ \A i \in 1..Len(p) : packet[2 + i] = p[i]
    <3>1. /\ packet \in Seq(Byte) /\ Len(packet) = Len(h) + Len(p)
          /\ \A i \in 1..Len(h) : packet[i] = h[i]
          /\ \A i \in 1..Len(p) : packet[Len(h) + i] = p[i]
      BY <1>1, <2>1, Joined
    <3> HIDE DEF packet
    <3> QED
      BY <2>1, <3>1
  <2> HIDE DEF packet
  <2>4. Len(packet) \in Nat /\ ~(Len(packet) < 2) /\ Len(packet) # 0 /\ Len(packet) # 1
    BY <1>1, <2>3
  <2> DEFINE body == SubSeq(packet, 3, Len(packet))
  <2>5. body = p
    <3>1. /\ body \in Seq(Byte)
          /\ Len(body) = IF 3 <= Len(packet) THEN Len(packet) - 3 + 1 ELSE 0
          /\ \A i \in 1..(Len(packet) - 3 + 1) : body[i] = packet[3 + i - 1]
      BY <2>3, <2>4, Part
    <3> HIDE DEF body
    <3>2. Len(body) = Len(p) /\ \A i \in 1..Len(p) : body[i] = packet[2 + i]
      BY <1>1, <2>3, <3>1
    <3>3. Len(body) = Len(p) /\ \A i \in 1..Len(body) : body[i] = p[i]
      BY <2>3, <3>2
    <3> QED
      BY <1>1, <3>1, <3>3, SameBytes
  <2>6. Body(packet) = p
    BY <2>4, <2>5 DEF Body
  <2>7. ReadHeader(packet) = Crc16(p)
    <3>1. ReadHeader(packet) = packet[1] + 256 * packet[2]
      BY <2>4 DEF ReadHeader
    <3> QED
      BY <2>1, <2>3, <3>1
  <2>8. CrcOk(packet)
    BY <2>6, <2>7 DEF CrcOk
  <2> QED
    BY <1>2, <2>2, <2>3, <2>6, <2>8
<1>3. CASE ~c.crc
  <2>1. << >> \o p = p
    BY <1>1, ConcatEmptySeq
  <2>2. Packet(c, p) = p
    BY <1>3, <2>1 DEF Packet
  <2> QED
    BY <1>1, <1>3, <2>2
<1> QED
  BY <1>2, <1>3

\* What is coded is decoded: of StringCorrected, the part without a wrong bit.
LEMMA CodedFacts ==
  ASSUME NEW c \in Configs, NEW p \in Payloads
  PROVE  Coded(c, p) \in Seq(Byte) /\ Decoded(c, Coded(c, p)) = Packet(c, p)
<1> DEFINE packet == Packet(c, p)
<1>1. packet \in Seq(Byte)
  BY PacketFacts
<1> HIDE DEF packet
<1>2. CASE c.hamming
  <2>1. EncodeString(packet) \in Seq(0..127)
    BY <1>1, EncodesString
  <2>2. EncodeString(packet) \in Seq(Byte)
    <3>1. 0..127 \subseteq Byte
      BY DEF Byte
    <3> QED
      BY <2>1, <3>1, SeqMonotonic
  <2>3. DecodeString(EncodeString(packet)) = packet
    <3> DEFINE at == [i \in 1..(2 * Len(packet)) |-> 0]
    <3>1. at \in [1..(2 * Len(packet)) -> 0..7]
      OBVIOUS
    <3> HIDE DEF at
    <3> QED
      BY <1>1, <3>1, StringCorrected
  <2> QED
    BY <1>2, <2>2, <2>3 DEF Coded, Decoded, packet
<1>3. CASE ~c.hamming
  BY <1>1, <1>3 DEF Coded, Decoded, packet
<1> QED
  BY <1>2, <1>3

-----------------------------------------------------------------------------
(* The Hamming code of a packet *)

\* A packet is decoded from its codewords with one wrong bit in each byte of the frame.
LEMMA PacketCorrected ==
  ASSUME NEW p \in Payloads, NEW first \in 0..7, NEW second \in 0..7
  PROVE  LET packet == Header(p) \o p
             code == EncodeString(packet)
         IN DecodeString([i \in DOMAIN code |-> Flip(code[i], IF i % 2 = 1 THEN first ELSE second)]) = packet
<1> DEFINE packet == Header(p) \o p
           code == EncodeString(packet)
           n == 2 * Len(packet)
           at == [i \in 1..n |-> IF i % 2 = 1 THEN first ELSE second]
<1>1. packet \in Seq(Byte)
  BY PayloadType, HeaderType, Joined
<1> HIDE DEF packet
<1>2. at \in [1..n -> 0..7]
  OBVIOUS
<1>3. DOMAIN code = 1..n
  <2>1. code \in Seq(0..127) /\ Len(code) = n
    BY <1>1, EncodesString
  <2> HIDE DEF code, n
  <2> QED
    BY <2>1, LenProperties
<1>4. DecodeString([i \in DOMAIN code |-> Flip(code[i], at[i])]) = packet
  <2> HIDE DEF at
  <2> QED
    BY <1>1, <1>2, StringCorrected
<1> HIDE DEF code, n
<1>5. \A i \in DOMAIN code : at[i] = IF i % 2 = 1 THEN first ELSE second
  BY <1>3
<1> HIDE DEF at
<1>6. [i \in DOMAIN code |-> Flip(code[i], at[i])]
        = [i \in DOMAIN code |-> Flip(code[i], IF i % 2 = 1 THEN first ELSE second)]
  BY <1>5
<1> QED
  BY <1>4, <1>6 DEF packet, code

\* With the Hamming code, the receiver gets a packet even if every byte of its frame has
\* a wrong bit: for any packets (Hamming74::encode, Hamming74::decode).
THEOREM CorrectsHolds == Spec => []Corrects
<1>1. Corrects
  BY PacketCorrected DEF Corrects
<1> QED
  BY <1>1, PTL

-----------------------------------------------------------------------------
(* Types *)

Stages == {"new", "init", "failed", "normal", "sigint", "canceling", "exit", "join", "self"}
Loops == {"none", "test", "run", "ran", "restart", "done"}

ControlInv ==
  /\ config \in Configs /\ stage \in Stages /\ loop \in Loops
  /\ slot \in {"none", "serial", "redis"} /\ faults \in Nat
  /\ flushed \in Nat /\ (stage = "new" => flushed = 0)

BytesInv ==
  /\ out \in Seq(Byte) /\ line \in Seq(Byte) /\ in \in Seq(Byte) /\ packetBuffer \in Seq(Byte)
  /\ writes \in Seq(Seq(Byte)) /\ sent \in Seq(Payloads)
  /\ config.blocking => out = << >> /\ writes = << >>

StatsInv ==
  /\ raised \in Seq(Seq(Byte)) /\ stats \in [received : Nat, corrupted : Nat]
  /\ stats.received = Len(raised) + stats.corrupted

TypeInv == ControlInv /\ BytesInv /\ StatsInv

\* The first of some bytes.
LEMMA FirstOfFacts ==
  ASSUME NEW s \in Seq(Byte), NEW b, \E i \in DOMAIN s : s[i] = b
  PROVE  /\ Len(s) \in Nat /\ FirstOf(b, s) \in 1..Len(s) /\ s[FirstOf(b, s)] = b
         /\ \A k \in 1..(FirstOf(b, s) - 1) : s[k] # b
<1> DEFINE T == {i \in DOMAIN s : s[i] = b}
           First(i) == s[i] = b /\ \A k \in 1..(i - 1) : s[k] # b
<1>1. Len(s) \in Nat /\ DOMAIN s = 1..Len(s)
  BY LenProperties
<1>2. T \subseteq Nat /\ T # {}
  BY <1>1
<1>3. PICK m \in T : \A n \in T : m <= n
  <2> HIDE DEF T
  <2> QED
    BY <1>2, SmallestElement
<1>4. m \in DOMAIN s /\ First(m)
  <2>1. ASSUME NEW k \in 1..(m - 1) PROVE s[k] # b
    <3>1. m \in 1..Len(s)
      BY <1>1
    <3>2. k \in DOMAIN s /\ ~(m <= k)
      BY <1>1, <3>1
    <3> QED
      BY <1>3, <3>2
  <2> QED
    BY <2>1
<1>5. FirstOf(b, s) = CHOOSE i \in DOMAIN s : First(i)
  BY DEF FirstOf
<1> HIDE DEF First
<1>6. FirstOf(b, s) \in DOMAIN s /\ First(FirstOf(b, s))
  BY <1>4, <1>5
<1> QED
  BY <1>1, <1>6 DEF First

\* What has arrived and is on the way, after the next chunk.
LEMMA ChunkFacts ==
  ASSUME BytesInv, line # << >>
  PROVE  Chunk \in 1..Len(line) /\ Len(line) \in Nat
<1>1. line \in Seq(Byte) /\ Len(line) \in Nat /\ Len(line) # 0
  BY EmptySeq DEF BytesInv
<1>2. CASE \E i \in DOMAIN line : line[i] = delim
  <2>1. FirstOf(delim, line) \in 1..Len(line)
    BY <1>1, <1>2, FirstOfFacts
  <2> QED
    BY <1>1, <1>2, <2>1 DEF Chunk
<1>3. CASE ~\E i \in DOMAIN line : line[i] = delim
  BY <1>1, <1>3 DEF Chunk
<1> QED
  BY <1>2, <1>3

\* A message is what is coded and the delimiter (SerialHandler::sendPacket).
LEMMA MessageFacts ==
  ASSUME NEW c \in Configs, NEW p \in Payloads
  PROVE  Messages[c][p] = Coded(c, p) \o c.delim /\ Messages[c][p] \in Seq(Byte)
<1>1. Messages[c][p] = Coded(c, p) \o c.delim
  BY DEF Messages, Message, Coded, Packet
<1>2. Coded(c, p) \in Seq(Byte) /\ c.delim \in Seq(Byte)
  BY CodedFacts, ConfigType
<1> QED
  BY <1>1, <1>2, Joined

\* What receive makes of the bytes of inBuffer_ up to the delimiter.
End == FirstOf(delim, in)
Text == SubSeq(in, 1, End - 1)
Buffer == IF Len(Delim) = 1 THEN << >> ELSE packetBuffer \o Text \o <<delim>>
Complete == Len(Delim) = 1 \/ EndOfPacket(Buffer)
Frame == IF Len(Delim) = 1 THEN Text ELSE SubSeq(Buffer, 1, Len(Buffer) - Len(Delim))
Received == Decoded(config, Frame)
Good == ~config.crc \/ CrcOk(Received)

\* What receive does, in terms of these names.
LEMMA ReceiveFacts ==
  ASSUME Receive
  PROVE  /\ \E i \in DOMAIN in : in[i] = delim
         /\ canceled => UNCHANGED <<in, packetBuffer, raised, stats>>
         /\ ~canceled =>
              /\ in' = SubSeq(in, End + 1, Len(in))
              /\ packetBuffer' = IF Len(Delim) = 1 THEN packetBuffer ELSE BufferAfter(Buffer)
              /\ stats' = IF Complete THEN Count(Good) ELSE stats
              /\ raised' = IF Complete /\ Good
                           THEN Append(raised, IF config.crc THEN Body(Received) ELSE Received)
                           ELSE raised
         /\ UNCHANGED <<config, stage, sender, line, slot, redis, ending, faults, flushed>>
BY DEF Receive, Raise, End, Text, Buffer, Complete, Frame, Received, Good, Decoded

\* What receive works with are bytes.
LEMMA FrameFacts ==
  ASSUME TypeInv, \E i \in DOMAIN in : in[i] = delim
  PROVE  /\ End \in 1..Len(in) /\ Len(in) \in Nat
         /\ delim \in Byte
         /\ Text \in Seq(Byte) /\ Len(Text) = End - 1 /\ \A i \in 1..(End - 1) : Text[i] = in[i]
         /\ Buffer \in Seq(Byte)
         /\ Complete => Frame \in Seq(Byte) /\ Received \in Seq(Byte)
<1>1. /\ in \in Seq(Byte) /\ packetBuffer \in Seq(Byte) /\ config \in Configs
      /\ Delim \in Seq(Byte) /\ Len(Delim) \in Nat \ {0}
  BY ConfigType DEF TypeInv, BytesInv, ControlInv, Delim
<1>2. End \in 1..Len(in) /\ Len(in) \in Nat
  BY <1>1, FirstOfFacts DEF End
<1>3. delim \in Byte
  <2>1. Len(Delim) \in 1..Len(Delim)
    BY <1>1
  <2> QED
    BY <1>1, <2>1, ElementOfSeq DEF delim
<1>4. Text \in Seq(Byte) /\ Len(Text) = End - 1 /\ \A i \in 1..(End - 1) : Text[i] = in[i]
  <2>1. 1 \in Nat \ {0} /\ End - 1 \in Nat /\ End - 1 <= Len(in)
    BY <1>2
  <2> DEFINE e == End - 1
  <2> HIDE DEF e
  <2>2. e \in Nat /\ e <= Len(in)
    BY <2>1 DEF e
  <2>3. /\ SubSeq(in, 1, e) \in Seq(Byte)
        /\ Len(SubSeq(in, 1, e)) = IF 1 <= e THEN e - 1 + 1 ELSE 0
        /\ \A i \in 1..(e - 1 + 1) : SubSeq(in, 1, e)[i] = in[1 + i - 1]
    BY <1>1, <2>2, Part
  <2>4. /\ SubSeq(in, 1, e) \in Seq(Byte) /\ Len(SubSeq(in, 1, e)) = e
        /\ \A i \in 1..e : SubSeq(in, 1, e)[i] = in[i]
    BY <2>2, <2>3
  <2> QED
    BY <2>4 DEF Text, e
<1>5. Buffer \in Seq(Byte)
  <2>1. <<delim>> \in Seq(Byte)
    BY <1>3
  <2>2. packetBuffer \o Text \in Seq(Byte)
    BY <1>1, <1>4, Joined
  <2> DEFINE d == <<delim>>
             b == packetBuffer \o Text
  <2> HIDE DEF d, b
  <2>3. b \o d \in Seq(Byte)
    BY <2>1, <2>2, Joined DEF b, d
  <2>4. << >> \in Seq(Byte)
    BY EmptySeq
  <2> QED
    BY <2>3, <2>4 DEF Buffer, b, d
<1>6. ASSUME Complete PROVE Frame \in Seq(Byte) /\ Received \in Seq(Byte)
  <2>1. Frame \in Seq(Byte)
    <3>1. CASE Len(Delim) = 1
      BY <1>4, <3>1 DEF Frame
    <3>2. CASE Len(Delim) # 1
      <4> DEFINE m == Len(Buffer) - Len(Delim)
      <4>1. m \in Nat /\ m <= Len(Buffer)
        <5>1. Len(Buffer) \in Nat
          BY <1>5, LenProperties
        <5>2. Len(Buffer) >= Len(Delim)
          BY <1>6, <3>2 DEF Complete, EndOfPacket, EndsWith
        <5> QED
          BY <1>1, <5>1, <5>2
      <4>2. Frame = SubSeq(Buffer, 1, m)
        BY <3>2 DEF Frame
      <4> HIDE DEF m
      <4>3. SubSeq(Buffer, 1, m) \in Seq(Byte)
        BY <1>5, <4>1, Part
      <4> QED
        BY <4>2, <4>3
    <3> QED
      BY <3>1, <3>2
  <2> QED
    BY <2>1, DecodeStringType DEF Received, Decoded
<1> QED
  BY <1>2, <1>3, <1>4, <1>5, <1>6

\* The types hold before anything is sent.
LEMMA TypeInit == ASSUME Init PROVE TypeInv
<1>1. << >> \in Seq(Byte) /\ << >> \in Seq(Seq(Byte)) /\ << >> \in Seq(Payloads) /\ Len(<< >>) = 0
  BY EmptySeq
<1>2. ControlInv
  BY DEF Init, ControlInv, Stages, Loops
<1>3. BytesInv
  BY <1>1 DEF Init, BytesInv
<1>4. StatsInv
  BY <1>1 DEF Init, StatsInv
<1> QED
  BY <1>2, <1>3, <1>4 DEF TypeInv

\* sendPacket puts bytes on the line or into outBuffer_.
LEMMA SendType ==
  ASSUME TypeInv, NEW p \in Payloads, Send(p)
  PROVE  BytesInv'
<1> DEFINE m == Messages[config][p]
           buffer == out \o m
<1>1. m \in Seq(Byte)
  BY MessageFacts DEF TypeInv, ControlInv
<1> HIDE DEF m
<1>2. buffer \in Seq(Byte) /\ line \o buffer \in Seq(Byte)
  BY <1>1, Joined DEF TypeInv, BytesInv
<1>3. /\ config' = config /\ in' = in /\ packetBuffer' = packetBuffer
      /\ sent' = IF SerialSends \/ RedisSends THEN Append(sent, p) ELSE sent
      /\ line' = IF SerialSends /\ config.blocking THEN line \o buffer ELSE line
      /\ out' = IF SerialSends /\ ~config.blocking THEN buffer ELSE out
      /\ writes' = IF SerialSends /\ ~config.blocking THEN Append(writes, buffer) ELSE writes
  BY DEF Send, receiver, m
<1> HIDE DEF buffer
<1>4. Append(sent, p) \in Seq(Payloads) /\ Append(writes, buffer) \in Seq(Seq(Byte))
  BY <1>2, AppendProperties DEF TypeInv, BytesInv
<1> QED
  BY <1>2, <1>3, <1>4 DEF TypeInv, BytesInv

\* An asynchronous write that is done leaves bytes in outBuffer_.
LEMMA WriteDoneType ==
  ASSUME TypeInv, WriteDone
  PROVE  BytesInv'
<1> DEFINE head == Head(writes)
<1>1. /\ writes # << >> /\ writes' = Tail(writes) /\ line' = line \o head
      /\ out' = SubSeq(out, Len(head) + 1, Len(out))
      /\ config' = config /\ sent' = sent /\ in' = in /\ packetBuffer' = packetBuffer
  BY DEF WriteDone, receiver
<1>2. head \in Seq(Byte) /\ Tail(writes) \in Seq(Seq(Byte))
  BY <1>1, HeadTailProperties DEF TypeInv, BytesInv
<1> HIDE DEF head
<1>3. line \o head \in Seq(Byte) /\ Len(head) \in Nat /\ Len(out) \in Nat
  BY <1>2, Joined, LenProperties DEF TypeInv, BytesInv
<1>4. SubSeq(out, Len(head) + 1, Len(out)) \in Seq(Byte)
  <2> DEFINE a == Len(head) + 1
             b == Len(out)
  <2>1. a \in Nat \ {0} /\ b \in Nat /\ b <= Len(out)
    BY <1>3
  <2> HIDE DEF a, b
  <2>2. SubSeq(out, a, b) \in Seq(Byte)
    BY <2>1, Part DEF TypeInv, BytesInv
  <2> QED
    BY <2>2 DEF a, b
<1>5. ~config.blocking
  BY <1>1 DEF TypeInv, BytesInv
<1> QED
  BY <1>1, <1>2, <1>3, <1>4, <1>5 DEF TypeInv, BytesInv

\* What arrives is what is taken off the line.
LEMMA ArriveFacts ==
  ASSUME TypeInv, Arrive
  PROVE  /\ in' \in Seq(Byte) /\ line' \in Seq(Byte)
         /\ in' \o line' = in \o line
<1> DEFINE n == Chunk
           a == SubSeq(line, 1, n)
           b == SubSeq(line, n + 1, Len(line))
<1>1. in' = in \o a /\ line' = b /\ line # << >>
  BY DEF Arrive
<1>2. n \in 1..Len(line) /\ Len(line) \in Nat /\ line \in Seq(Byte) /\ in \in Seq(Byte)
  BY <1>1, ChunkFacts DEF TypeInv, BytesInv
<1> HIDE DEF n
<1>3. n \in Nat /\ n <= Len(line) /\ n + 1 \in Nat \ {0} /\ 1 \in Nat \ {0} /\ Len(line) <= Len(line)
  BY <1>2
<1>4. a \in Seq(Byte) /\ b \in Seq(Byte)
  BY <1>2, <1>3, Part
<1>5. a \o b = line
  <2>1. 1 \in 1..(Len(line) + 1) /\ n \in (1 - 1)..Len(line) /\ Len(line) \in n..Len(line)
    BY <1>2
  <2>2. a \o b = SubSeq(line, 1, Len(line))
    BY <1>2, <2>1, ConcatAdjacentSubSeq
  <2>3. SubSeq(line, 1, Len(line)) = line
    BY <1>2, SubSeqFull
  <2> HIDE DEF a, b
  <2> QED
    BY <2>2, <2>3, Zenon
<1> HIDE DEF a, b
<1>6. (in \o a) \o b = in \o (a \o b)
  <2>1. Associative(in, a, b)
    BY <1>2, <1>4, BytesAssociative
  <2> QED
    BY <2>1 DEF Associative
<1>7. in \o a \in Seq(Byte)
  BY <1>2, <1>4, Joined
<1> QED
  BY <1>1, <1>4, <1>5, <1>6, <1>7

\* What the line damages or loses leaves bytes.
LEMMA FaultType ==
  ASSUME TypeInv, Fault
  PROVE  line' \in Seq(Byte)
<1>1. line \in Seq(Byte) /\ Len(line) \in Nat
  BY LenProperties DEF TypeInv, BytesInv
<1>2. PICK i \in 1..Chunk : \/ line' = RemoveAt(line, i)
                            \/ \E bit \in Bits : line' = [line EXCEPT ![i] = Flip(@, bit)]
  BY DEF Fault
<1>3. i \in 1..Len(line)
  <2>1. CASE line = << >>
    <3>1. ~\E k \in DOMAIN line : line[k] = delim
      BY <2>1
    <3>2. Chunk = Len(line)
      BY <3>1 DEF Chunk
    <3> QED
      BY <1>2, <3>2
  <2>2. CASE line # << >>
    <3>1. Chunk \in 1..Len(line)
      BY <2>2, ChunkFacts DEF TypeInv
    <3> QED
      BY <1>1, <1>2, <3>1
  <2> QED
    BY <2>1, <2>2
<1>4. CASE line' = RemoveAt(line, i)
  <2> DEFINE e == i - 1
             f == i + 1
             a == SubSeq(line, 1, e)
             b == SubSeq(line, f, Len(line))
  <2>1. e \in Nat /\ e <= Len(line) /\ f \in Nat \ {0} /\ Len(line) <= Len(line) /\ 1 \in Nat \ {0}
    BY <1>1, <1>3
  <2>2. line' = a \o b
    BY <1>4 DEF RemoveAt
  <2> HIDE DEF e, f
  <2>3. a \in Seq(Byte) /\ b \in Seq(Byte)
    BY <1>1, <2>1, Part
  <2> HIDE DEF a, b
  <2> QED
    BY <2>2, <2>3, Joined
<1>5. CASE \E bit \in Bits : line' = [line EXCEPT ![i] = Flip(@, bit)]
  <2>1. PICK bit \in Bits : line' = [line EXCEPT ![i] = Flip(@, bit)]
    BY <1>5
  <2>2. line[i] \in Byte /\ bit \in 0..7
    BY <1>1, <1>3, ElementOfSeq, SerialAssumption
  <2>3. Flip(line[i], bit) \in Byte
    BY <2>2, FlipBits
  <2>4. line' = [line EXCEPT ![i] = Flip(line[i], bit)]
    BY <2>1
  <2> QED
    BY <1>1, <1>3, <2>3, <2>4, ExceptSeq
<1> QED
  BY <1>2, <1>4, <1>5

\* receive keeps bytes, and counts each packet as raised or as corrupted.
LEMMA ReceiveType ==
  ASSUME TypeInv, Receive
  PROVE  BytesInv' /\ StatsInv'
<1>1. /\ \E i \in DOMAIN in : in[i] = delim
      /\ config' = config /\ line' = line /\ out' = out /\ writes' = writes /\ sent' = sent
  BY ReceiveFacts DEF sender
<1>2. /\ End \in 1..Len(in) /\ Len(in) \in Nat /\ Buffer \in Seq(Byte)
      /\ Complete => Frame \in Seq(Byte) /\ Received \in Seq(Byte)
  BY <1>1, FrameFacts
<1>3. CASE canceled
  <2>1. in' = in /\ packetBuffer' = packetBuffer /\ raised' = raised /\ stats' = stats
    BY <1>3, ReceiveFacts
  <2> QED
    BY <1>1, <2>1 DEF TypeInv, BytesInv, StatsInv
<1>4. CASE ~canceled
  <2>1. /\ in' = SubSeq(in, End + 1, Len(in))
        /\ packetBuffer' = IF Len(Delim) = 1 THEN packetBuffer ELSE BufferAfter(Buffer)
        /\ stats' = IF Complete THEN Count(Good) ELSE stats
        /\ raised' = IF Complete /\ Good
                     THEN Append(raised, IF config.crc THEN Body(Received) ELSE Received)
                     ELSE raised
    BY <1>4, ReceiveFacts
  <2>2. SubSeq(in, End + 1, Len(in)) \in Seq(Byte)
    <3> DEFINE a == End + 1
               b == Len(in)
    <3>1. a \in Nat \ {0} /\ b \in Nat /\ b <= Len(in)
      BY <1>2
    <3> HIDE DEF a, b
    <3>2. SubSeq(in, a, b) \in Seq(Byte)
      BY <3>1, Part DEF TypeInv, BytesInv
    <3> QED
      BY <3>2 DEF a, b
  <2>3. BufferAfter(Buffer) \in Seq(Byte)
    BY <1>2, EmptySeq DEF BufferAfter
  <2>4. BytesInv'
    BY <1>1, <2>1, <2>2, <2>3 DEF TypeInv, BytesInv
  <2> DEFINE q == IF config.crc THEN Body(Received) ELSE Received
  <2>5. Complete => q \in Seq(Byte)
    <3>1. ASSUME NEW r \in Seq(Byte) PROVE Body(r) \in Seq(Byte)
      <4>1. Len(r) \in Nat
        BY LenProperties
      <4> DEFINE b == Len(r)
      <4>2. 3 \in Nat \ {0} /\ b \in Nat /\ b <= Len(r)
        BY <4>1
      <4> HIDE DEF b
      <4>3. SubSeq(r, 3, b) \in Seq(Byte)
        BY <4>2, Part
      <4> QED
        BY <4>3 DEF Body, b
    <3> QED
      BY <1>2, <3>1
  <2> HIDE DEF q
  <2>6. ASSUME Complete
        PROVE  Append(raised, q) \in Seq(Seq(Byte)) /\ Len(Append(raised, q)) = Len(raised) + 1
    BY <2>5, <2>6, AppendProperties DEF TypeInv, StatsInv
  <2>7. Len(raised) \in Nat
    BY LenProperties DEF TypeInv, StatsInv
  <2>8. raised' = IF Complete /\ Good THEN Append(raised, q) ELSE raised
    BY <2>1 DEF q
  <2>9. StatsInv'
    <3>1. CASE ~Complete
      BY <2>1, <2>8, <3>1 DEF TypeInv, StatsInv
    <3>2. CASE Complete /\ Good
      <4>1. stats' = [received |-> stats.received + 1, corrupted |-> stats.corrupted + 0]
        BY <2>1, <3>2 DEF Count
      <4> QED
        BY <2>6, <2>7, <2>8, <3>2, <4>1 DEF TypeInv, StatsInv
    <3>3. CASE Complete /\ ~Good
      <4>1. stats' = [received |-> stats.received + 1, corrupted |-> stats.corrupted + 1]
        BY <2>1, <3>3 DEF Count
      <4> QED
        BY <2>7, <2>8, <3>3, <4>1 DEF TypeInv, StatsInv
    <3> QED
      BY <3>1, <3>2, <3>3
  <2> QED
    BY <2>4, <2>9
<1> QED
  BY <1>3, <1>4

\* The configuration, the stages and the loop of startHandler keep their types.
LEMMA ControlStep == ASSUME TypeInv, [Next]_vars PROVE ControlInv'
<1> USE DEF TypeInv, ControlInv, Stages, Loops
<1>1. ASSUME NEW p \in Payloads, Send(p) PROVE ControlInv'
  BY <1>1 DEF Send, ending
<1>2. CASE WriteDone
  BY <1>2 DEF WriteDone, ending
<1>3. CASE Arrive
  BY <1>3 DEF Arrive, ending
<1>4. CASE Fault
  BY <1>4 DEF Fault, ending
<1>5. CASE InitLayer
  <2>1. Len(sent) \in Nat
    BY LenProperties DEF BytesInv
  <2> QED
    BY <1>5, <2>1 DEF InitLayer, ending
<1>6. CASE StartLayer
  BY <1>6 DEF StartLayer
<1>7. CASE Subscribe
  BY <1>7 DEF Subscribe, ending
<1>8. CASE Receive
  BY <1>8, ReceiveFacts DEF ending
<1>9. CASE ReadError
  BY <1>9 DEF ReadError, ending
<1>10. CASE TestCanceled
  BY <1>10 DEF TestCanceled
<1>11. CASE RunReturns
  BY <1>11 DEF RunReturns
<1>12. CASE Restart
  BY <1>12 DEF Restart
<1>13. CASE Restarted
  BY <1>13 DEF Restarted
<1>14. CASE SigIntHandler
  BY <1>14 DEF SigIntHandler, ending
<1>15. CASE OnSigInt
  BY <1>15 DEF OnSigInt
<1>16. CASE Cancel
  BY <1>16 DEF Cancel
<1>17. CASE StopScheduler
  BY <1>17 DEF StopScheduler, ending
<1>18. CASE JoinHandler
  BY <1>18 DEF JoinHandler, ending
<1>19. CASE Connection
  BY <1>19 DEF Connection, ending
<1>20. CASE OnChannel
  BY <1>20 DEF OnChannel, ending
<1>21. CASE UNCHANGED vars
  BY <1>21 DEF vars, ending
<1> QED
  BY <1>1, <1>2, <1>3, <1>4, <1>5, <1>6, <1>7, <1>8, <1>9, <1>10, <1>11, <1>12, <1>13, <1>14,
     <1>15, <1>16, <1>17, <1>18, <1>19, <1>20, <1>21 DEF Next

\* What the actions that have nothing to do with the line leave alone.
LineUnchanged == UNCHANGED <<config, sender, line, in, packetBuffer, raised, stats>>

\* The actions of stages, signals and Redis are of that kind.
LEMMA OtherActions ==
  ASSUME \/ StartLayer \/ Subscribe \/ ReadError
         \/ TestCanceled \/ RunReturns \/ Restart \/ Restarted
         \/ SigIntHandler \/ OnSigInt \/ Cancel \/ StopScheduler \/ JoinHandler
         \/ Connection \/ OnChannel \/ UNCHANGED vars
  PROVE  LineUnchanged
<1> USE DEF LineUnchanged, receiver, sender
<1>2. CASE StartLayer
  BY <1>2 DEF StartLayer
<1>3. CASE Subscribe
  BY <1>3 DEF Subscribe
<1>4. CASE ReadError
  BY <1>4 DEF ReadError
<1>5. CASE TestCanceled
  BY <1>5 DEF TestCanceled
<1>6. CASE RunReturns
  BY <1>6 DEF RunReturns
<1>7. CASE Restart
  BY <1>7 DEF Restart
<1>8. CASE Restarted
  BY <1>8 DEF Restarted
<1>9. CASE SigIntHandler
  BY <1>9 DEF SigIntHandler
<1>10. CASE OnSigInt
  BY <1>10 DEF OnSigInt
<1>11. CASE Cancel
  BY <1>11 DEF Cancel
<1>12. CASE StopScheduler
  BY <1>12 DEF StopScheduler
<1>13. CASE JoinHandler
  BY <1>13 DEF JoinHandler
<1>14. CASE Connection
  BY <1>14 DEF Connection
<1>15. CASE OnChannel
  BY <1>15 DEF OnChannel
<1>16. CASE UNCHANGED vars
  BY <1>16 DEF vars
<1> QED
  BY <1>2, <1>3, <1>4, <1>5, <1>6, <1>7, <1>8, <1>9, <1>10, <1>11, <1>12, <1>13, <1>14,
     <1>15, <1>16

\* The flush of the port takes bytes from the front of the line, or leaves it alone.
LEMMA FlushFacts ==
  ASSUME TypeInv, InitLayer
  PROVE  /\ UNCHANGED <<config, sender, in, packetBuffer, raised, stats, faults>>
         /\ stage = "new" /\ line' \in Seq(Byte)
         /\ flushed' = 0 => line' = line
<1>1. line \in Seq(Byte) /\ Len(line) \in Nat /\ Len(sent) \in Nat /\ flushed = 0
  BY LenProperties DEF TypeInv, BytesInv, ControlInv, InitLayer
<1>2. /\ UNCHANGED <<config, sender, in, packetBuffer, raised, stats, faults>> /\ stage = "new"
      /\ \/ line' = line
         \/ \E n \in 0..Len(line) : /\ line' = SubSeq(line, n + 1, Len(line))
                                    /\ flushed' = IF n = 0 THEN 0 ELSE Len(sent) + 1
  BY DEF InitLayer
<1>3. CASE line' = line
  BY <1>1, <1>2, <1>3
<1>4. ASSUME NEW n \in 0..Len(line), line' = SubSeq(line, n + 1, Len(line)),
             flushed' = IF n = 0 THEN 0 ELSE Len(sent) + 1
      PROVE  line' \in Seq(Byte) /\ (flushed' = 0 => line' = line)
  <2> DEFINE a == n + 1
             b == Len(line)
  <2>1. a \in Nat \ {0} /\ b \in Nat /\ b <= Len(line)
    BY <1>1
  <2>2. line' = SubSeq(line, a, b)
    BY <1>4
  <2> HIDE DEF a, b
  <2>3. line' \in Seq(Byte)
    BY <1>1, <2>1, <2>2, Part
  <2>4. ASSUME flushed' = 0 PROVE line' = line
    <3>1. n = 0 /\ a = 1
      BY <1>1, <1>4, <2>4 DEF a
    <3>2. line' = SubSeq(line, 1, Len(line))
      BY <2>2, <3>1 DEF b
    <3> QED
      BY <1>1, <3>2, SubSeqFull
  <2> QED
    BY <2>3, <2>4
<1> QED
  BY <1>2, <1>3, <1>4

\* Every step keeps the types.
LEMMA TypeStep == ASSUME TypeInv, [Next]_vars PROVE TypeInv'
<1>1. ControlInv'
  BY ControlStep
<1>2. ASSUME NEW p \in Payloads, Send(p) PROVE BytesInv' /\ StatsInv'
  <2>1. BytesInv'
    BY <1>2, SendType
  <2>2. raised' = raised /\ stats' = stats
    BY <1>2 DEF Send, receiver
  <2> QED
    BY <2>1, <2>2 DEF TypeInv, StatsInv
<1>3. ASSUME WriteDone PROVE BytesInv' /\ StatsInv'
  <2>1. BytesInv'
    BY <1>3, WriteDoneType
  <2>2. raised' = raised /\ stats' = stats
    BY <1>3 DEF WriteDone, receiver
  <2> QED
    BY <2>1, <2>2 DEF TypeInv, StatsInv
<1>4. ASSUME Arrive PROVE BytesInv' /\ StatsInv'
  <2>1. in' \in Seq(Byte) /\ line' \in Seq(Byte)
    BY <1>4, ArriveFacts
  <2>2. UNCHANGED <<config, sent, out, writes, packetBuffer, raised, stats>>
    BY <1>4 DEF Arrive, sender
  <2> QED
    BY <2>1, <2>2 DEF TypeInv, BytesInv, StatsInv
<1>5. ASSUME Fault PROVE BytesInv' /\ StatsInv'
  <2>1. line' \in Seq(Byte)
    BY <1>5, FaultType
  <2>2. UNCHANGED <<config, sent, out, writes, in, packetBuffer, raised, stats>>
    BY <1>5 DEF Fault, sender, receiver
  <2> QED
    BY <2>1, <2>2 DEF TypeInv, BytesInv, StatsInv
<1>6. ASSUME Receive PROVE BytesInv' /\ StatsInv'
  BY <1>6, ReceiveType
<1>7. ASSUME LineUnchanged PROVE BytesInv' /\ StatsInv'
  BY <1>7 DEF LineUnchanged, sender, TypeInv, BytesInv, StatsInv
<1>8. ASSUME InitLayer PROVE BytesInv' /\ StatsInv'
  BY <1>8, FlushFacts DEF sender, TypeInv, BytesInv, StatsInv
<1> QED
  BY <1>1, <1>2, <1>3, <1>4, <1>5, <1>6, <1>7, <1>8, OtherActions DEF Next, TypeInv

\* The types are an invariant.
LEMMA TypeInvariant == Spec => []TypeInv
<1>1. Init => TypeInv
  BY TypeInit
<1>2. TypeInv /\ [Next]_vars => TypeInv'
  BY TypeStep
<1> QED
  BY <1>1, <1>2, PTL DEF Spec

\* The buffers are bytes, a blocking sender keeps none, and every packet that was counted
\* was raised or counted as corrupted (SerialHandler::receive, SerialHandler::sendPacket).
THEOREM TypeCorrect == Spec => []TypeOK
<1>1. TypeInv => TypeOK
  <2> SUFFICES ASSUME TypeInv PROVE TypeOK
    OBVIOUS
  <2>1. ASSUME NEW s \in {out, line, in, packetBuffer} PROVE \A i \in DOMAIN s : s[i] \in 0..255
    <3>1. s \in Seq(Byte)
      BY DEF TypeInv, BytesInv
    <3>2. \A i \in DOMAIN s : s[i] \in Byte
      BY <3>1, LenProperties, ElementOfSeq
    <3> QED
      BY <3>2 DEF Byte
  <2> QED
    BY <2>1 DEF TypeOK, TypeInv, ControlInv, BytesInv, StatsInv, Stages, Loops
<1> QED
  BY <1>1, TypeInvariant, PTL

-----------------------------------------------------------------------------
(* The line without a fault and without a flushed byte *)

Faultless ==
  faults = 0 /\ flushed = 0 /\ config.blocking /\ SerialSends /\ ToSet(sent) \subseteq Clear[config]

\* What has been read, has arrived or is on the way: the messages of the packets that
\* have not been raised.  cut[i] is where the i-th message ends in all that was sent.
Stream == packetBuffer \o (in \o line)
MessageOf(i) == Messages[config][sent[i]]

Framed(cut) ==
  /\ \A i, k \in 0..Len(sent) : i <= k => cut[i] <= cut[k]
  /\ \A i \in 1..Len(sent) : cut[i] = cut[i - 1] + Len(MessageOf(i))
  /\ Len(Stream) = cut[Len(sent)] - cut[Len(raised)]
  /\ \A i \in (Len(raised) + 1)..Len(sent) : \A j \in 1..Len(MessageOf(i)) :
       Stream[cut[i - 1] - cut[Len(raised)] + j] = MessageOf(i)[j]
  /\ Len(raised) < Len(sent) => Len(packetBuffer) < Len(MessageOf(Len(raised) + 1))
  /\ Len(Delim) = 1 => packetBuffer = << >>

LineInv ==
  /\ Len(raised) <= Len(sent) /\ \A i \in 1..Len(raised) : raised[i] = sent[i]
  /\ \E cut \in [0..Len(sent) -> Nat] : Framed(cut)

\* Where the bytes of three joined strings are.
LEMMA Three ==
  ASSUME NEW a \in Seq(Byte), NEW b \in Seq(Byte), NEW c \in Seq(Byte)
  PROVE  /\ a \o (b \o c) \in Seq(Byte) /\ Len(a) \in Nat /\ Len(b) \in Nat /\ Len(c) \in Nat
         /\ Len(a \o (b \o c)) = Len(a) + Len(b) + Len(c)
         /\ \A i \in 1..Len(a) : (a \o (b \o c))[i] = a[i]
         /\ \A i \in 1..Len(b) : (a \o (b \o c))[Len(a) + i] = b[i]
         /\ \A i \in 1..Len(c) : (a \o (b \o c))[Len(a) + Len(b) + i] = c[i]
<1> DEFINE d == b \o c
           e == a \o d
<1>1. /\ d \in Seq(Byte) /\ Len(b) \in Nat /\ Len(c) \in Nat /\ Len(d) = Len(b) + Len(c)
      /\ \A i \in 1..Len(b) : d[i] = b[i]
      /\ \A i \in 1..Len(c) : d[Len(b) + i] = c[i]
  BY Joined
<1> HIDE DEF d
<1>2. /\ e \in Seq(Byte) /\ Len(a) \in Nat /\ Len(e) = Len(a) + Len(d)
      /\ \A i \in 1..Len(a) : e[i] = a[i]
      /\ \A i \in 1..Len(d) : e[Len(a) + i] = d[i]
  BY <1>1, Joined
<1> HIDE DEF e
<1>3. ASSUME NEW i \in 1..Len(b) PROVE e[Len(a) + i] = b[i]
  <2>1. i \in 1..Len(d)
    BY <1>1
  <2> QED
    BY <1>1, <1>2, <2>1
<1>4. ASSUME NEW i \in 1..Len(c) PROVE e[Len(a) + Len(b) + i] = c[i]
  <2>1. Len(b) + i \in 1..Len(d) /\ Len(a) + (Len(b) + i) = Len(a) + Len(b) + i
    BY <1>1, <1>2
  <2>2. e[Len(a) + (Len(b) + i)] = d[Len(b) + i]
    BY <1>2, <2>1
  <2> QED
    BY <1>1, <2>1, <2>2
<1>5. Len(e) = Len(a) + Len(b) + Len(c)
  BY <1>1, <1>2
<1> QED
  BY <1>1, <1>2, <1>3, <1>4, <1>5 DEF d, e

\* Where the bytes of the stream are.
LEMMA StreamFacts ==
  ASSUME BytesInv
  PROVE  /\ Stream \in Seq(Byte)
         /\ Len(packetBuffer) \in Nat /\ Len(in) \in Nat /\ Len(line) \in Nat
         /\ Len(Stream) = Len(packetBuffer) + Len(in) + Len(line)
         /\ \A i \in 1..Len(packetBuffer) : Stream[i] = packetBuffer[i]
         /\ \A i \in 1..Len(in) : Stream[Len(packetBuffer) + i] = in[i]
         /\ \A i \in 1..Len(line) : Stream[Len(packetBuffer) + Len(in) + i] = line[i]
BY Three DEF Stream, BytesInv

\* At first there is nothing to frame.
LEMMA LineInit == ASSUME Init PROVE LineInv
<1>1. /\ Len(sent) = 0 /\ Len(raised) = 0 /\ packetBuffer = << >>
      /\ Stream = << >> /\ Len(Stream) = 0
  BY EmptySeq DEF Init, Stream
<1> DEFINE cut == [i \in 0..0 |-> 0]
<1>2. cut \in [0..Len(sent) -> Nat] /\ cut[0] = 0
  BY <1>1
<1> HIDE DEF cut
<1>3. Framed(cut)
  BY <1>1, <1>2 DEF Framed
<1> QED
  BY <1>1, <1>2, <1>3 DEF LineInv

\* The messages end with the delimiter.
LEMMA MessageEnd ==
  ASSUME NEW c \in Configs, NEW p \in Payloads, NEW m, m = Messages[c][p]
  PROVE  /\ m \in Seq(Byte) /\ Len(m) \in Nat /\ Len(c.delim) \in Nat \ {0}
         /\ Len(Coded(c, p)) \in Nat /\ Len(m) = Len(Coded(c, p)) + Len(c.delim)
         /\ \A i \in 1..Len(Coded(c, p)) : m[i] = Coded(c, p)[i]
         /\ \A i \in 1..Len(c.delim) : m[Len(Coded(c, p)) + i] = c.delim[i]
         /\ m[Len(m)] = c.delim[Len(c.delim)]
<1> DEFINE code == Coded(c, p)
           d == c.delim
<1>1. m = code \o d
  BY MessageFacts
<1>2. code \in Seq(Byte) /\ d \in Seq(Byte) /\ Len(d) \in Nat \ {0}
  BY CodedFacts, ConfigType
<1> HIDE DEF code, d
<1>3. /\ m \in Seq(Byte) /\ Len(code) \in Nat /\ Len(m) = Len(code) + Len(d)
      /\ \A i \in 1..Len(code) : m[i] = code[i]
      /\ \A i \in 1..Len(d) : m[Len(code) + i] = d[i]
  BY <1>1, <1>2, Joined
<1>4. m[Len(m)] = d[Len(d)] /\ Len(m) \in Nat
  <2>1. Len(d) \in 1..Len(d)
    BY <1>2
  <2> QED
    BY <1>2, <1>3, <2>1
<1> QED
  BY <1>2, <1>3, <1>4 DEF code, d

\* Where the byte j of a later message is, once the first message of length s is read.
LEMMA Shifted ==
  ASSUME NEW x \in Nat, NEW y \in Nat, NEW z \in Nat, NEW u \in Nat, NEW q \in Nat, NEW s \in Nat,
         NEW j \in 1..q, y <= x, x + q <= z, y = u + s
  PROVE  x - y + j \in 1..(z - y) /\ s + (x - y + j) = x - u + j
OBVIOUS

\* sendPacket puts the message of the packet at the end of the stream.
LEMMA SendLine ==
  ASSUME TypeInv, Faultless, LineInv, NEW p \in Payloads, Send(p)
  PROVE  LineInv'
<1> DEFINE m == Messages[config][p]
<1>0. PICK n, r : n = Len(sent) /\ r = Len(raised)
  OBVIOUS
<1>1. /\ config' = config /\ in' = in /\ packetBuffer' = packetBuffer /\ raised' = raised
      /\ sent' = Append(sent, p) /\ line' = line \o (out \o m)
  BY DEF Send, receiver, Faultless
<1>2. m \in Seq(Byte) /\ Len(m) \in Nat
  BY MessageEnd DEF TypeInv, ControlInv
<1> HIDE DEF m
<1>3. line' = line \o m
  <2>1. out = << >> /\ << >> \o m = m
    BY <1>2, ConcatEmptySeq DEF Faultless, TypeInv, BytesInv
  <2> QED
    BY <1>1, <2>1
<1>4. Stream' = Stream \o m
  <2>1. packetBuffer \in Seq(Byte) /\ in \in Seq(Byte) /\ line \in Seq(Byte)
    BY DEF TypeInv, BytesInv
  <2>2. in \o (line \o m) = (in \o line) \o m
    <3>1. Associative(in, line, m)
      BY <1>2, <2>1, BytesAssociative
    <3> QED
      BY <3>1 DEF Associative
  <2> DEFINE w == in \o line
  <2>3. w \in Seq(Byte)
    BY <2>1, Joined
  <2> HIDE DEF w
  <2>4. packetBuffer \o (w \o m) = (packetBuffer \o w) \o m
    <3>1. Associative(packetBuffer, w, m)
      BY <1>2, <2>1, <2>3, BytesAssociative
    <3> QED
      BY <3>1 DEF Associative
  <2>5. Stream' = packetBuffer \o (w \o m)
    BY <1>1, <1>3, <2>2 DEF Stream, w
  <2>6. Stream = packetBuffer \o w
    BY DEF Stream, w
  <2> QED
    BY <2>4, <2>5, <2>6
<1>5. /\ Len(Stream) \in Nat /\ Len(Stream') = Len(Stream) + Len(m)
      /\ \A i \in 1..Len(Stream) : Stream'[i] = Stream[i]
      /\ \A i \in 1..Len(m) : Stream'[Len(Stream) + i] = m[i]
  <2>1. Stream \in Seq(Byte)
    BY StreamFacts DEF TypeInv
  <2> QED
    BY <1>2, <1>4, <2>1, Joined
<1>6. /\ n \in Nat /\ r \in Nat /\ Len(sent') = n + 1 /\ sent'[n + 1] = p
      /\ \A i \in 1..n : sent'[i] = sent[i]
  <2>1. sent \in Seq(Payloads) /\ raised \in Seq(Seq(Byte))
    BY DEF TypeInv, BytesInv, StatsInv
  <2> QED
    BY <1>0, <1>1, <2>1, LenProperties, AppendProperties
<1>7. r <= n /\ \A i \in 1..r : raised[i] = sent[i]
  BY <1>0 DEF LineInv
<1>8. PICK cut \in [0..n -> Nat] : Framed(cut)
  BY <1>0 DEF LineInv
<1>9. /\ MessageOf(n + 1)' = m
      /\ \A i \in 1..n : MessageOf(i)' = MessageOf(i)
  BY <1>1, <1>6 DEF MessageOf, m
<1>10. PICK new \in [0..(n + 1) -> Nat] : /\ new[n + 1] = cut[n] + Len(m)
                                          /\ \A i \in 0..n : new[i] = cut[i]
  <2> DEFINE f == [i \in 0..(n + 1) |-> IF i <= n THEN cut[i] ELSE cut[n] + Len(m)]
  <2>1. cut[n] + Len(m) \in Nat
    BY <1>2, <1>6
  <2>2. f \in [0..(n + 1) -> Nat] /\ f[n + 1] = cut[n] + Len(m) /\ \A i \in 0..n : f[i] = cut[i]
    BY <1>6, <2>1
  <2> HIDE DEF f
  <2> QED
    BY <2>2
<1> DEFINE len(i) == Len(MessageOf(i))
\* what is known of cut, one by one
<1>11. \A i \in 0..n : cut[i] \in Nat
  BY <1>6
<1>12. \A i, k \in 0..n : i <= k => cut[i] <= cut[k]
  BY <1>0, <1>8 DEF Framed
<1>13. \A i \in 1..n : cut[i] = cut[i - 1] + len(i)
  BY <1>0, <1>8 DEF Framed
<1>14. Len(Stream) = cut[n] - cut[r]
  BY <1>0, <1>8 DEF Framed
<1>15. \A i \in (r + 1)..n : \A j \in 1..len(i) : Stream[cut[i - 1] - cut[r] + j] = MessageOf(i)[j]
  BY <1>0, <1>8 DEF Framed
<1>16. r < n => Len(packetBuffer) < len(r + 1)
  BY <1>0, <1>8 DEF Framed
<1>17. Len(Delim) = 1 => packetBuffer = << >>
  BY <1>8 DEF Framed
<1>18. r \in 0..n /\ n \in 0..n /\ cut[n] \in Nat /\ cut[r] \in Nat /\ new[r] = cut[r] /\ new[n] = cut[n]
  <2>1. r \in 0..n /\ n \in 0..n
    BY <1>0, <1>6, <1>7
  <2> QED
    BY <1>10, <1>11, <2>1
<1>19. ASSUME NEW i \in 1..n PROVE len(i)' = len(i) /\ len(i) \in Int /\ MessageOf(i)' = MessageOf(i)
  <2>1. len(i) = cut[i] - cut[i - 1] /\ i \in 0..n /\ i - 1 \in 0..n
    <3>1. i \in 0..n /\ i - 1 \in 0..n
      BY <1>6
    <3>2. cut[i] \in Nat /\ cut[i - 1] \in Nat
      BY <1>11, <3>1
    <3>3. cut[i] = cut[i - 1] + len(i)
      BY <1>13
    <3>4. len(i) \in Nat
      <4>1. sent[i] \in Payloads
        <5>1. sent \in Seq(Payloads) /\ i \in 1..Len(sent)
          BY <1>0 DEF TypeInv, BytesInv
        <5> QED
          BY <5>1, ElementOfSeq
      <4> QED
        BY <4>1, MessageEnd DEF MessageOf, TypeInv, ControlInv
    <3> QED
      BY <3>1, <3>2, <3>3, <3>4
  <2>2. cut[i] \in Nat /\ cut[i - 1] \in Nat
    BY <1>11, <2>1
  <2> QED
    BY <1>9, <2>1, <2>2
<1> HIDE DEF len
<1>20. ASSUME NEW i \in 0..(n + 1), NEW k \in 0..(n + 1), i <= k PROVE new[i] <= new[k]
  <2>1. CASE k <= n
    <3>1. i \in 0..n /\ k \in 0..n
      BY <1>6, <1>20, <2>1
    <3> QED
      BY <1>10, <1>12, <1>20, <3>1
  <2>2. CASE ~(k <= n)
    <3>1. k = n + 1 /\ new[k] = cut[n] + Len(m)
      BY <1>6, <1>10, <2>2
    <3>2. CASE i <= n
      <4>1. i \in 0..n
        BY <1>6, <3>2
      <4>2. new[i] = cut[i] /\ cut[i] <= cut[n] /\ cut[i] \in Nat
        BY <1>10, <1>11, <1>12, <1>18, <3>2, <4>1
      <4> QED
        BY <1>2, <1>18, <3>1, <4>2
    <3>3. CASE ~(i <= n)
      <4>1. i = k
        BY <1>6, <3>1, <3>3
      <4> QED
        BY <1>2, <1>18, <3>1, <4>1
    <3> QED
      BY <3>2, <3>3
  <2> QED
    BY <2>1, <2>2
<1>21. ASSUME NEW i \in 1..(n + 1) PROVE new[i] = new[i - 1] + len(i)'
  <2>1. i - 1 \in 0..n
    BY <1>6
  <2>2. new[i - 1] = cut[i - 1]
    BY <1>10, <2>1
  <2>3. CASE i <= n
    <3>1. i \in 1..n /\ i \in 0..n
      BY <1>6, <2>3
    <3>2. new[i] = cut[i] /\ cut[i] = cut[i - 1] + len(i) /\ len(i)' = len(i)
      BY <1>10, <1>13, <1>19, <3>1
    <3> QED
      BY <2>2, <3>2
  <2>4. CASE ~(i <= n)
    <3>1. i = n + 1 /\ i - 1 = n
      BY <1>6, <2>4
    <3>2. len(i)' = Len(m)
      BY <1>9, <3>1 DEF len
    <3> QED
      BY <1>10, <2>2, <3>1, <3>2
  <2> QED
    BY <2>3, <2>4
<1>22. Len(Stream') = new[n + 1] - new[r]
  BY <1>2, <1>5, <1>10, <1>14, <1>18
<1>23. ASSUME NEW i \in (r + 1)..(n + 1), NEW j \in 1..len(i)'
       PROVE  Stream'[new[i - 1] - new[r] + j] = MessageOf(i)'[j]
  <2>1. i - 1 \in 0..n /\ r <= i - 1
    BY <1>6, <1>18
  <2>2. new[i - 1] = cut[i - 1] /\ cut[i - 1] \in Nat /\ cut[r] <= cut[i - 1]
    BY <1>10, <1>11, <1>12, <1>18, <2>1
  <2>3. CASE i <= n
    <3>1. i \in 1..n /\ i \in (r + 1)..n /\ i \in 0..n
      BY <1>6, <1>18, <2>3
    <3>2. len(i)' = len(i) /\ len(i) \in Int /\ MessageOf(i)' = MessageOf(i)
      BY <1>19, <3>1
    <3>3. cut[i] = cut[i - 1] + len(i) /\ cut[i] <= cut[n]
      BY <1>12, <1>13, <1>18, <2>3, <3>1
    <3>4. j \in 1..len(i)
      BY <3>2
    <3> DEFINE at == cut[i - 1] - cut[r] + j
    <3>5. at \in 1..Len(Stream)
      <4> DEFINE q == len(i)
                 x == cut[i - 1]
                 y == cut[r]
                 z == cut[n]
      <4>1. /\ x \in Nat /\ y \in Nat /\ z \in Nat /\ q \in Int /\ j \in 1..q
            /\ y <= x /\ x + q <= z
        BY <1>18, <2>2, <3>2, <3>3, <3>4
      <4> HIDE DEF q, x, y, z
      <4>2. q \in Nat
        BY <4>1
      <4>3. x - y + j \in 1..(z - y)
        BY <4>1, <4>2, Shifted
      <4> QED
        BY <1>14, <4>3 DEF x, y, z
    <3>6. Stream[at] = MessageOf(i)[j]
      BY <1>15, <3>1, <3>4
    <3>7. at = new[i - 1] - new[r] + j
      BY <1>18, <2>2
    <3> HIDE DEF at
    <3>8. Stream'[at] = MessageOf(i)'[j]
      BY <1>5, <3>2, <3>5, <3>6
    <3> QED
      BY <3>7, <3>8
  <2>4. CASE ~(i <= n)
    <3>1. i = n + 1 /\ i - 1 = n
      BY <1>6, <2>4
    <3>2. MessageOf(i)' = m /\ j \in 1..Len(m)
      BY <1>9, <3>1 DEF len
    <3>3. new[i - 1] - new[r] + j = Len(Stream) + j
      BY <1>14, <1>18, <2>2, <3>1
    <3>4. Stream'[Len(Stream) + j] = m[j]
      BY <1>5, <3>2
    <3> QED
      BY <3>2, <3>3, <3>4
  <2> QED
    BY <2>3, <2>4
<1>24. r < n + 1 => Len(packetBuffer) < len(r + 1)'
  <2>1. CASE r < n
    <3>1. r + 1 \in 1..n
      <4>1. n \in Nat /\ r \in Nat
        BY <1>6
      <4> QED
        BY <2>1, <4>1
    <3>2. len(r + 1)' = len(r + 1)
      BY <1>19, <3>1
    <3> QED
      BY <1>16, <2>1, <3>2
  <2>2. CASE ~(r < n)
    <3>1. r = n
      BY <1>18, <2>2
    <3>2. Len(packetBuffer) = 0
      <4>1. Len(Stream) = 0
        BY <1>14, <1>18, <3>1
      <4> QED
        BY <4>1, StreamFacts DEF TypeInv
    <3>3. Len(m) > 0
      BY MessageEnd DEF m, TypeInv, ControlInv
    <3>4. len(r + 1)' = Len(m)
      BY <1>9, <3>1 DEF len
    <3> QED
      BY <3>2, <3>3, <3>4
  <2> QED
    BY <2>1, <2>2
<1>25. Framed(new)'
  <2>1. Len(sent)' = n + 1 /\ Len(raised)' = r /\ packetBuffer' = packetBuffer /\ Delim' = Delim
    BY <1>0, <1>1, <1>6 DEF Delim
  <2> HIDE DEF MessageOf, Stream
  <2>2. /\ \A i, k \in 0..Len(sent)' : i <= k => new[i] <= new[k]
        /\ \A i \in 1..Len(sent)' : new[i] = new[i - 1] + Len(MessageOf(i)')
        /\ Len(Stream') = new[Len(sent)'] - new[Len(raised)']
    BY <1>20, <1>21, <1>22, <2>1 DEF len
  <2>3. \A i \in (Len(raised)' + 1)..Len(sent)' : \A j \in 1..Len(MessageOf(i)') :
          Stream'[new[i - 1] - new[Len(raised)'] + j] = MessageOf(i)'[j]
    BY <1>23, <2>1 DEF len
  <2>4. /\ Len(raised)' < Len(sent)' => Len(packetBuffer') < Len(MessageOf(Len(raised) + 1)')
        /\ Len(Delim') = 1 => packetBuffer' = << >>
    BY <1>17, <1>24, <2>1 DEF len
  <2> QED
    BY <2>2, <2>3, <2>4 DEF Framed
<1>26. Len(raised)' <= Len(sent)' /\ \A i \in 1..Len(raised)' : raised'[i] = sent'[i]
  <2>1. /\ Len(raised)' = r /\ Len(sent)' = n + 1 /\ n \in Nat /\ r \in Nat /\ r <= n
        /\ raised' = raised
    BY <1>0, <1>1, <1>6, <1>7
  <2>2. r <= n + 1
    BY <2>1
  <2>3. ASSUME NEW i \in 1..r PROVE raised[i] = sent'[i]
    <3>1. i \in 1..n
      BY <2>1
    <3>2. sent'[i] = sent[i]
      BY <1>6, <3>1
    <3>3. raised[i] = sent[i]
      BY <1>7
    <3> QED
      BY <3>2, <3>3
  <2> QED
    BY <2>1, <2>2, <2>3
<1>27. new \in [0..Len(sent)' -> Nat]
  BY <1>6, <1>10
<1> QED
  BY <1>25, <1>26, <1>27 DEF LineInv

\* When the packets and the stream stay, so does their framing.
LEMMA KeptLine ==
  ASSUME LineInv, UNCHANGED <<config, sent, raised>>, Stream' = Stream,
         Len(raised) < Len(sent) => Len(packetBuffer') < Len(MessageOf(Len(raised) + 1)),
         Len(Delim) = 1 => packetBuffer' = << >>
  PROVE  LineInv'
<1>1. PICK cut \in [0..Len(sent) -> Nat] : Framed(cut)
  BY DEF LineInv
<1>2. /\ Len(sent)' = Len(sent) /\ Len(raised)' = Len(raised) /\ Len(Delim)' = Len(Delim)
      /\ \A i : MessageOf(i)' = MessageOf(i)
  BY DEF MessageOf, Delim
<1>3. /\ \A i, k \in 0..Len(sent)' : i <= k => cut[i] <= cut[k]
      /\ \A i \in 1..Len(sent)' : cut[i] = cut[i - 1] + Len(MessageOf(i)')
      /\ Len(Stream') = cut[Len(sent)'] - cut[Len(raised)']
  BY <1>1, <1>2 DEF Framed
<1>4. \A i \in (Len(raised)' + 1)..Len(sent)' : \A j \in 1..Len(MessageOf(i)') :
        Stream'[cut[i - 1] - cut[Len(raised)'] + j] = MessageOf(i)'[j]
  BY <1>1, <1>2 DEF Framed
<1>5. MessageOf(Len(raised) + 1)' = MessageOf(Len(raised) + 1)
  BY DEF MessageOf
<1>6. Framed(cut)'
  BY <1>2, <1>3, <1>4, <1>5 DEF Framed
<1> QED
  BY <1>1, <1>2, <1>6 DEF LineInv

\* The stream begins with the message of the next packet.
LEMMA NextMessage ==
  ASSUME TypeInv, LineInv, Len(Stream) > 0,
         NEW n, NEW r, n = Len(sent), r = Len(raised), NEW m, m = MessageOf(r + 1)
  PROVE  /\ n \in Nat /\ r \in Nat /\ r < n /\ sent[r + 1] \in Payloads
         /\ Len(m) \in Nat /\ Len(m) <= Len(Stream) /\ \A j \in 1..Len(m) : Stream[j] = m[j]
         /\ Len(packetBuffer) < Len(m)
<1>1. PICK cut \in [0..n -> Nat] : Framed(cut)
  BY DEF LineInv
<1>2. n \in Nat /\ r \in Nat /\ r <= n /\ sent \in Seq(Payloads)
  BY LenProperties DEF TypeInv, BytesInv, StatsInv, LineInv
<1>3. cut[n] \in Nat /\ cut[r] \in Nat /\ Len(Stream) = cut[n] - cut[r]
  <2>1. n \in 0..n /\ r \in 0..n
    BY <1>2
  <2>2. Len(Stream) = cut[n] - cut[r]
    BY <1>1 DEF Framed
  <2> QED
    BY <2>1, <2>2
<1>4. r < n
  BY <1>2, <1>3
<1>5. r + 1 \in 1..n /\ r + 1 \in 0..n /\ n \in 0..n /\ (r + 1) - 1 = r /\ r + 1 \in (r + 1)..n
  BY <1>2, <1>4
<1>6. sent[r + 1] \in Payloads
  BY <1>2, <1>5, ElementOfSeq
<1>7. Len(m) \in Nat
  BY <1>6, MessageEnd DEF MessageOf, TypeInv, ControlInv
<1>8. cut[r + 1] = cut[r] + Len(m) /\ cut[r + 1] <= cut[n]
  <2>1. \A i \in 1..n : cut[i] = cut[i - 1] + Len(MessageOf(i))
    BY <1>1 DEF Framed
  <2>2. \A i, k \in 0..n : i <= k => cut[i] <= cut[k]
    BY <1>1 DEF Framed
  <2>3. cut[r + 1] <= cut[n]
    BY <1>2, <1>5, <2>2
  <2>4. cut[r + 1] = cut[(r + 1) - 1] + Len(m)
    BY <1>5, <2>1
  <2> QED
    BY <1>5, <2>3, <2>4
<1>9. ASSUME NEW j \in 1..Len(m) PROVE Stream[j] = m[j]
  <2>1. \A i \in (r + 1)..n : \A k \in 1..Len(MessageOf(i)) :
          Stream[cut[i - 1] - cut[r] + k] = MessageOf(i)[k]
    BY <1>1 DEF Framed
  <2>2. Stream[cut[(r + 1) - 1] - cut[r] + j] = m[j]
    BY <1>5, <2>1
  <2>3. cut[(r + 1) - 1] - cut[r] + j = j
    BY <1>3, <1>5, <1>7
  <2> QED
    BY <2>2, <2>3
<1>10. Len(packetBuffer) < Len(m)
  BY <1>1, <1>4 DEF Framed
<1>11. Len(m) <= Len(Stream)
  BY <1>3, <1>7, <1>8
<1> QED
  BY <1>2, <1>4, <1>6, <1>7, <1>9, <1>10, <1>11

\* The first k bytes of the stream are read.
ReadOff(k) ==
  /\ Len(Stream') = Len(Stream) - k
  /\ \A i \in 1..(Len(Stream) - k) : Stream'[i] = Stream[k + i]

\* When its message is read, the next packet is raised.
LEMMA PoppedLine ==
  ASSUME TypeInv, TypeInv', LineInv, Len(Stream) > 0, config' = config, sent' = sent,
         raised' = Append(raised, sent[Len(raised) + 1]), packetBuffer' = << >>,
         NEW m, m = MessageOf(Len(raised) + 1), ReadOff(Len(m))
  PROVE  LineInv'
<1>0. PICK n, r : n = Len(sent) /\ r = Len(raised)
  OBVIOUS
<1>1. /\ n \in Nat /\ r \in Nat /\ r < n /\ sent[r + 1] \in Payloads
      /\ Len(m) \in Nat /\ Len(m) <= Len(Stream)
  BY <1>0, NextMessage
<1>2. PICK cut \in [0..n -> Nat] : Framed(cut)
  BY <1>0 DEF LineInv
<1>3. /\ Len(sent)' = n /\ Len(raised)' = r + 1
      /\ raised'[r + 1] = sent[r + 1] /\ \A i \in 1..r : raised'[i] = raised[i]
  <2>1. raised \in Seq(Seq(Byte)) /\ sent[r + 1] \in Seq(Byte)
    BY <1>1, PayloadType DEF TypeInv, StatsInv
  <2>2. raised' = Append(raised, sent[r + 1])
    BY <1>0
  <2> QED
    BY <1>0, <2>1, <2>2, AppendProperties
<1>4. \A i : MessageOf(i)' = MessageOf(i)
  BY DEF MessageOf
<1>5. /\ \A i \in 0..n : cut[i] \in Nat
      /\ \A i, k \in 0..n : i <= k => cut[i] <= cut[k]
  BY <1>0, <1>2 DEF Framed
<1>6. \A i \in 1..n : cut[i] = cut[i - 1] + Len(MessageOf(i))
  BY <1>0, <1>2 DEF Framed
<1>7. Len(Stream) = cut[n] - cut[r]
  BY <1>0, <1>2 DEF Framed
<1>8. \A i \in (r + 1)..n : \A j \in 1..Len(MessageOf(i)) :
        Stream[cut[i - 1] - cut[r] + j] = MessageOf(i)[j]
  BY <1>0, <1>2 DEF Framed
<1>9. r \in 0..n /\ r + 1 \in 0..n /\ n \in 0..n /\ r + 1 \in 1..n /\ (r + 1) - 1 = r
  BY <1>1
<1>10. cut[r + 1] = cut[r] + Len(m) /\ cut[n] \in Nat /\ cut[r] \in Nat /\ cut[r + 1] \in Nat
  <2>1. cut[r + 1] = cut[(r + 1) - 1] + Len(m)
    BY <1>0, <1>6, <1>9
  <2> QED
    BY <1>5, <1>9, <2>1
<1>11. Len(Stream') = cut[n] - cut[r + 1] /\ Len(Stream) - Len(m) = cut[n] - cut[r + 1]
  <2> DEFINE u == cut[r]
             y == cut[r + 1]
             z == cut[n]
  <2>1. Len(Stream') = Len(Stream) - Len(m)
    BY DEF ReadOff
  <2>2. /\ Len(m) \in Nat /\ z \in Nat /\ u \in Nat /\ y = u + Len(m) /\ Len(Stream) = z - u
    BY <1>1, <1>7, <1>10, Zenon
  <2> HIDE DEF u, y, z
  <2>3. Len(Stream) - Len(m) = z - y
    BY <2>2
  <2> QED
    BY <2>1, <2>3 DEF y, z
<1>12. ASSUME NEW i \in ((r + 1) + 1)..n, NEW j \in 1..Len(MessageOf(i))
       PROVE  Stream'[cut[i - 1] - cut[r + 1] + j] = MessageOf(i)[j]
  <2>1. i \in 1..n /\ i \in (r + 1)..n /\ i \in 0..n /\ i - 1 \in 0..n /\ r + 1 <= i - 1
    BY <1>1
  <2>2. /\ cut[i] \in Nat /\ cut[i - 1] \in Nat /\ cut[i] <= cut[n] /\ cut[r + 1] <= cut[i - 1]
    BY <1>5, <1>9, <2>1
  <2>3. cut[i] = cut[i - 1] + Len(MessageOf(i))
    BY <1>6, <2>1
  <2>4. Len(MessageOf(i)) \in Nat
    <3>1. sent \in Seq(Payloads) /\ i \in 1..Len(sent)
      BY <1>0, <2>1 DEF TypeInv, BytesInv
    <3>2. sent[i] \in Payloads
      BY <3>1, ElementOfSeq
    <3> QED
      BY <3>2, MessageEnd DEF MessageOf, TypeInv, ControlInv
  <2> DEFINE at == cut[i - 1] - cut[r + 1] + j
  <2>5. at \in 1..(Len(Stream) - Len(m)) /\ Len(m) + at = cut[i - 1] - cut[r] + j
    <3>1. Len(Stream) - Len(m) = cut[n] - cut[r + 1]
      BY <1>11
    <3> DEFINE q == Len(MessageOf(i))
               x == cut[i - 1]
               y == cut[r + 1]
               z == cut[n]
               u == cut[r]
               s == Len(m)
    <3>2. /\ x \in Nat /\ y \in Nat /\ z \in Nat /\ u \in Nat /\ q \in Nat /\ s \in Nat
          /\ j \in 1..q /\ y <= x /\ x + q <= z /\ y = u + s
      BY <1>1, <1>10, <2>2, <2>3, <2>4
    <3> HIDE DEF q, x, y, z, u, s
    <3>3. x - y + j \in 1..(z - y) /\ s + (x - y + j) = x - u + j
      BY <3>2, Shifted
    <3> QED
      BY <3>1, <3>3 DEF x, y, z, u, s
  <2> HIDE DEF at
  <2>6. Stream'[at] = Stream[Len(m) + at]
    BY <2>5 DEF ReadOff
  <2>7. Stream[cut[i - 1] - cut[r] + j] = MessageOf(i)[j]
    BY <1>8, <2>1
  <2>8. Stream'[at] = MessageOf(i)[j]
    BY <2>5, <2>6, <2>7
  <2> QED
    BY <2>8 DEF at
<1>13. r + 1 < n => 0 < Len(MessageOf((r + 1) + 1))
  <2> SUFFICES ASSUME r + 1 < n PROVE 0 < Len(MessageOf((r + 1) + 1))
    OBVIOUS
  <2>1. sent \in Seq(Payloads)
    BY DEF TypeInv, BytesInv
  <2>2. (r + 1) + 1 \in 1..n
    BY <1>1
  <2>3. sent[(r + 1) + 1] \in Payloads
    BY <1>0, <2>1, <2>2, ElementOfSeq
  <2> DEFINE p == sent[(r + 1) + 1]
             code == Len(Coded(config, p))
             d == Len(config.delim)
  <2> HIDE DEF p
  <2>4. /\ Len(Messages[config][p]) = code + d /\ code \in Nat /\ d \in Nat \ {0}
    <3>1. config \in Configs /\ p \in Payloads
      BY <2>3 DEF p, TypeInv, ControlInv
    <3> DEFINE m1 == Messages[config][p]
    <3>2. m1 = Messages[config][p]
      OBVIOUS
    <3> HIDE DEF m1
    <3>3. Len(m1) = code + d /\ code \in Nat /\ d \in Nat \ {0}
      BY <3>1, <3>2, MessageEnd
    <3> QED
      BY <3>2, <3>3
  <2> HIDE DEF code, d
  <2>5. 0 < code + d
    BY <2>4
  <2> QED
    BY <2>4, <2>5 DEF MessageOf, p
<1>14. Framed(cut)'
  <2>1. /\ \A i, k \in 0..Len(sent)' : i <= k => cut[i] <= cut[k]
        /\ \A i \in 1..Len(sent)' : cut[i] = cut[i - 1] + Len(MessageOf(i)')
        /\ Len(Stream') = cut[Len(sent)'] - cut[Len(raised)']
    BY <1>3, <1>4, <1>5, <1>6, <1>11
  <2>2. \A i \in (Len(raised)' + 1)..Len(sent)' : \A j \in 1..Len(MessageOf(i)') :
          Stream'[cut[i - 1] - cut[Len(raised)'] + j] = MessageOf(i)'[j]
    BY <1>3, <1>4, <1>12
  <2>3. MessageOf(Len(raised) + 1)' = MessageOf((r + 1) + 1) /\ Len(packetBuffer') = 0
    BY <1>3, EmptySeq DEF MessageOf
  <2>4. Len(raised)' < Len(sent)' => Len(packetBuffer') < Len(MessageOf(Len(raised) + 1)')
    BY <1>3, <1>13, <2>3
  <2> QED
    BY <2>1, <2>2, <2>4 DEF Framed
<1>15. Len(raised)' <= Len(sent)' /\ \A i \in 1..Len(raised)' : raised'[i] = sent'[i]
  <2>1. \A i \in 1..r : raised[i] = sent[i]
    BY <1>0 DEF LineInv
  <2>2. ASSUME NEW i \in 1..(r + 1) PROVE raised'[i] = sent[i]
    <3>1. CASE i = r + 1
      BY <1>3, <3>1
    <3>2. CASE i # r + 1
      <4>1. i \in 1..r
        BY <1>1, <3>2
      <4> QED
        BY <1>3, <2>1, <4>1
    <3> QED
      BY <3>1, <3>2
  <2> QED
    BY <1>1, <1>3, <2>2
<1> QED
  BY <1>2, <1>3, <1>14, <1>15 DEF LineInv

\* A message has its delimiter at the end, and before it what is coded.
LEMMA MessageParts ==
  ASSUME NEW c \in Configs, NEW p \in Payloads, NEW m, m = Messages[c][p]
  PROVE  EndsWith(m, c.delim) /\ SubSeq(m, 1, Len(m) - Len(c.delim)) = Coded(c, p)
<1> DEFINE code == Coded(c, p)
           d == c.delim
<1>1. code \in Seq(Byte) /\ d \in Seq(Byte)
  BY CodedFacts, ConfigType
<1>2. /\ m \in Seq(Byte) /\ Len(m) \in Nat /\ Len(d) \in Nat \ {0}
      /\ Len(code) \in Nat /\ Len(m) = Len(code) + Len(d)
      /\ \A i \in 1..Len(code) : m[i] = code[i]
      /\ \A i \in 1..Len(d) : m[Len(code) + i] = d[i]
  <2>1. m = code \o d
    BY MessageFacts
  <2>2. Len(d) \in Nat \ {0}
    BY ConfigType
  <2> HIDE DEF code, d
  <2> QED
    BY <1>1, <2>1, <2>2, Joined
<1> HIDE DEF code, d
<1> DEFINE k == Len(code)
           a == k + 1
           b == Len(m)
           last == SubSeq(m, a, b)
           first == SubSeq(m, 1, k)
<1>3. k \in Nat /\ a \in Nat \ {0} /\ b \in Nat /\ b <= Len(m) /\ k <= Len(m) /\ a = k + 1 /\ b = k + Len(d)
  BY <1>2
<1> HIDE DEF k, a, b
<1>4. last = d
  <2>1. /\ last \in Seq(Byte) /\ Len(last) = IF a <= b THEN b - a + 1 ELSE 0
        /\ \A i \in 1..(b - a + 1) : last[i] = m[a + i - 1]
    <3>1. m \in Seq(Byte) /\ a \in Nat \ {0} /\ b \in Nat /\ b <= Len(m)
      BY <1>2, <1>3
    <3> QED
      BY <3>1, Part
  <2> HIDE DEF last
  <2>2. Len(last) = Len(d) /\ b - a + 1 = Len(d)
    BY <1>2, <1>3, <2>1
  <2>3. ASSUME NEW i \in 1..Len(last) PROVE last[i] = d[i]
    <3>1. i \in 1..Len(d) /\ i \in 1..(b - a + 1) /\ a + i - 1 = k + i
      BY <1>2, <1>3, <2>2
    <3>2. last[i] = m[k + i]
      BY <2>1, <3>1
    <3> QED
      BY <1>2, <3>1, <3>2 DEF k
  <2> QED
    BY <1>1, <2>1, <2>2, <2>3, SameBytes
<1>5. first = code
  <2>1. /\ first \in Seq(Byte) /\ Len(first) = IF 1 <= k THEN k - 1 + 1 ELSE 0
        /\ \A i \in 1..(k - 1 + 1) : first[i] = m[1 + i - 1]
    <3>1. m \in Seq(Byte) /\ 1 \in Nat \ {0} /\ k \in Nat /\ k <= Len(m)
      BY <1>2, <1>3
    <3> QED
      BY <3>1, Part
  <2> HIDE DEF first
  <2>2. Len(first) = k /\ k - 1 + 1 = k
    BY <1>3, <2>1
  <2>3. ASSUME NEW i \in 1..Len(first) PROVE first[i] = code[i]
    <3>1. i \in 1..k /\ 1 + i - 1 = i
      BY <1>3, <2>2
    <3>2. first[i] = m[i]
      BY <2>1, <2>2, <3>1
    <3> QED
      BY <1>2, <3>1, <3>2 DEF k
  <2>4. Len(first) = Len(code)
    BY <2>2 DEF k
  <2> QED
    BY <1>1, <2>1, <2>3, <2>4, SameBytes
<1> HIDE DEF last, first
<1>6. Len(m) >= Len(d) /\ Len(m) - Len(d) + 1 = a /\ Len(m) = b /\ Len(m) - Len(d) = k
  <2>1. b = Len(m)
    BY DEF b
  <2> QED
    BY <1>2, <1>3, <2>1
<1>7. SubSeq(m, Len(m) - Len(d) + 1, Len(m)) = d
  BY <1>4, <1>6 DEF last
<1>8. SubSeq(m, 1, Len(m) - Len(d)) = code
  BY <1>5, <1>6 DEF first
<1> QED
  BY <1>6, <1>7, <1>8 DEF EndsWith, d, code

\* Nowhere before, and a longer delimiter is not all there is.
LEMMA ClearFacts ==
  ASSUME NEW c \in Configs, NEW p \in Clear[c]
  PROVE  /\ Len(c.delim) = 1 \/ Len(Messages[c][p]) > Len(c.delim)
         /\ \A k \in 1..(Len(Messages[c][p]) - 1) : ~EndsWith(SubSeq(Messages[c][p], 1, k), c.delim)
BY DEF Clear

\* What receive has of a message once it has read up to the next delim_.
Read == packetBuffer \o Text \o <<delim>>

\* It is the first part of the stream, up to the next delim_.
LEMMA ReadFacts ==
  ASSUME TypeInv, \E i \in DOMAIN in : in[i] = delim
  PROVE  /\ Read \in Seq(Byte) /\ Len(Read) = Len(packetBuffer) + End
         /\ \A i \in 1..Len(Read) : Read[i] = Stream[i]
         /\ Read[Len(Read)] = delim
<1> DEFINE d == <<delim>>
           b == Len(packetBuffer)
<1>1. /\ End \in 1..Len(in) /\ Len(in) \in Nat /\ Text \in Seq(Byte) /\ Len(Text) = End - 1
      /\ \A i \in 1..(End - 1) : Text[i] = in[i]
  BY FrameFacts
<1>2. d \in Seq(Byte) /\ Len(d) = 1 /\ d[1] = delim
  <2>1. delim \in Byte
    BY FrameFacts
  <2> QED
    BY <2>1
<1> HIDE DEF d
<1>3. packetBuffer \in Seq(Byte) /\ in \in Seq(Byte)
  BY DEF TypeInv, BytesInv
<1>4. in[End] = delim
  BY <1>3, FirstOfFacts DEF End
<1>5. Read = packetBuffer \o (Text \o d)
  <2>1. Associative(packetBuffer, Text, d)
    BY <1>1, <1>2, <1>3, BytesAssociative
  <2>2. Read = (packetBuffer \o Text) \o d
    BY DEF Read, d
  <2> QED
    BY <2>1, <2>2 DEF Associative
<1>6. /\ Read \in Seq(Byte) /\ b \in Nat /\ Len(Read) = b + Len(Text) + Len(d)
      /\ \A i \in 1..b : Read[i] = packetBuffer[i]
      /\ \A i \in 1..Len(Text) : Read[b + i] = Text[i]
      /\ \A i \in 1..Len(d) : Read[b + Len(Text) + i] = d[i]
  <2> DEFINE x == packetBuffer \o (Text \o d)
  <2>1. /\ x \in Seq(Byte) /\ b \in Nat /\ Len(x) = b + Len(Text) + Len(d)
        /\ \A i \in 1..b : x[i] = packetBuffer[i]
        /\ \A i \in 1..Len(Text) : x[b + i] = Text[i]
        /\ \A i \in 1..Len(d) : x[b + Len(Text) + i] = d[i]
    <3>1. packetBuffer \in Seq(Byte) /\ Text \in Seq(Byte) /\ d \in Seq(Byte)
      BY <1>1, <1>2, <1>3
    <3> QED
      BY <3>1, Three
  <2> QED
    BY <1>5, <2>1, Zenon
<1>7. Len(Read) = b + End
  BY <1>1, <1>2, <1>6
<1>8. Read[b + End] = delim
  <2>1. 1 \in 1..Len(d) /\ b + Len(Text) + 1 = b + End
    BY <1>1, <1>2, <1>6
  <2> QED
    BY <1>2, <1>6, <2>1
<1>9. /\ \A i \in 1..b : Stream[i] = packetBuffer[i]
      /\ \A i \in 1..Len(in) : Stream[b + i] = in[i]
  BY StreamFacts DEF TypeInv
<1> HIDE DEF b
<1>10. ASSUME NEW i \in 1..Len(Read) PROVE Read[i] = Stream[i]
  <2>1. CASE i <= b
    <3>1. i \in 1..b
      BY <1>6, <2>1
    <3> QED
      BY <1>6, <1>9, <3>1
  <2>2. CASE ~(i <= b)
    <3> DEFINE j == i - b
    <3>1. j \in 1..End /\ j \in 1..Len(in) /\ i = b + j
      BY <1>1, <1>6, <1>7, <2>2
    <3> HIDE DEF j
    <3>2. Stream[b + j] = in[j]
      BY <1>9, <3>1
    <3>3. CASE j = End
      BY <1>4, <1>8, <3>1, <3>2, <3>3
    <3>4. CASE j # End
      <4>1. j \in 1..(End - 1) /\ j \in 1..Len(Text)
        BY <1>1, <3>1, <3>4
      <4>2. Read[b + j] = Text[j] /\ Text[j] = in[j]
        BY <1>1, <1>6, <4>1
      <4> QED
        BY <3>1, <3>2, <4>2
    <3> QED
      BY <3>3, <3>4
  <2> QED
    BY <2>1, <2>2
<1> QED
  BY <1>6, <1>7, <1>8, <1>10 DEF b

\* Where the bytes are that receive leaves.
LEMMA RestLength ==
  ASSUME NEW b \in Nat, NEW e \in Nat, NEW l \in Nat, NEW x \in Nat, NEW end \in 1..e
  PROVE  /\ b + e + l \in Nat /\ b + end \in 1..(b + e + l)
         /\ (b + e + l) - (b + end) = (e - end) + l
         /\ x + (e - end) + l = x + ((b + e + l) - (b + end))
OBVIOUS

\* The same for each byte, in what has arrived or on the line.
LEMMA RestAt ==
  ASSUME NEW b \in Nat, NEW e \in Nat, NEW l \in Nat, NEW x \in Nat, NEW end \in 1..e,
         NEW i \in 1..((e - end) + l)
  PROVE  /\ i <= e - end => i \in 1..(e - end) /\ end + i \in 1..e /\ (b + end) + i = b + (end + i)
         /\ ~(i <= e - end) => /\ i - (e - end) \in 1..l
                               /\ x + i = x + (e - end) + (i - (e - end))
                               /\ (b + end) + i = b + e + (i - (e - end))
OBVIOUS

\* The string s is x and what is left of the stream when receive has read.
Leaves(s, x) == s = x \o (SubSeq(in, End + 1, Len(in)) \o line)
Left(s, x, read) ==
  /\ s \in Seq(Byte) /\ Len(x) \in Nat /\ Len(Stream) \in Nat
  /\ read \in 1..Len(Stream) /\ Len(s) = Len(x) + (Len(Stream) - read)
  /\ \A i \in 1..Len(x) : s[i] = x[i]
  /\ \A i \in 1..(Len(Stream) - read) : s[Len(x) + i] = Stream[read + i]

\* So receive leaves the stream without its first bytes.
LEMMA RestFacts ==
  ASSUME TypeInv, \E i \in DOMAIN in : in[i] = delim,
         NEW x \in Seq(Byte), NEW s, Leaves(s, x), NEW read, read = Len(packetBuffer) + End
  PROVE  Left(s, x, read)
<1> DEFINE a == End + 1
           e == Len(in)
           rest == SubSeq(in, a, e)
           b == Len(packetBuffer)
           l == Len(line)
<1>1. End \in 1..Len(in) /\ Len(in) \in Nat
  BY FrameFacts
<1>2. in \in Seq(Byte) /\ line \in Seq(Byte) /\ packetBuffer \in Seq(Byte)
  BY DEF TypeInv, BytesInv
<1>3. /\ Len(Stream) = b + e + l /\ b \in Nat /\ l \in Nat
      /\ \A i \in 1..e : Stream[b + i] = in[i]
      /\ \A i \in 1..l : Stream[b + e + i] = line[i]
  BY StreamFacts DEF TypeInv
<1>4. a \in Nat \ {0} /\ e \in Nat /\ e <= Len(in) /\ a = End + 1 /\ End \in 1..e
  BY <1>1
<1>5. s = x \o (rest \o line)
  BY DEF Leaves
<1> HIDE DEF a, e
<1>6. /\ rest \in Seq(Byte) /\ Len(rest) = IF a <= e THEN e - a + 1 ELSE 0
      /\ \A i \in 1..(e - a + 1) : rest[i] = in[a + i - 1]
  BY <1>2, <1>4, Part
<1> HIDE DEF rest, b, l
<1>7. Len(rest) = e - End /\ \A i \in 1..(e - End) : rest[i] = in[End + i]
  <2>1. Len(rest) = e - End /\ e - a + 1 = e - End
    BY <1>4, <1>6
  <2>2. ASSUME NEW i \in 1..(e - End) PROVE rest[i] = in[End + i]
    <3>1. i \in 1..(e - a + 1) /\ a + i - 1 = End + i
      BY <1>4, <2>1
    <3> QED
      BY <1>6, <3>1
  <2> QED
    BY <2>1, <2>2
<1>8. /\ s \in Seq(Byte) /\ Len(x) \in Nat /\ Len(s) = Len(x) + Len(rest) + l
      /\ \A i \in 1..Len(x) : s[i] = x[i]
      /\ \A i \in 1..Len(rest) : s[Len(x) + i] = rest[i]
      /\ \A i \in 1..l : s[Len(x) + Len(rest) + i] = line[i]
  <2> DEFINE y == x \o (rest \o line)
  <2>0. rest \in Seq(Byte) /\ line \in Seq(Byte)
    BY <1>2, <1>6
  <2>1. /\ y \in Seq(Byte) /\ Len(x) \in Nat /\ Len(y) = Len(x) + Len(rest) + Len(line)
        /\ \A i \in 1..Len(x) : y[i] = x[i]
        /\ \A i \in 1..Len(rest) : y[Len(x) + i] = rest[i]
        /\ \A i \in 1..Len(line) : y[Len(x) + Len(rest) + i] = line[i]
    BY <2>0, Three
  <2> HIDE DEF y
  <2>2. s = y
    BY <1>5 DEF y
  <2> QED
    BY <2>1, <2>2 DEF l
<1>9. /\ read = b + End /\ b \in Nat /\ e \in Nat /\ l \in Nat /\ End \in 1..e /\ Len(x) \in Nat
      /\ Len(Stream) = b + e + l /\ Len(rest) = e - End /\ Len(s) = Len(x) + Len(rest) + l
  <2>1. read = b + End
    BY DEF b
  <2> QED
    BY <1>3, <1>4, <1>7, <1>8, <2>1, Zenon
<1>10. /\ Len(Stream) \in Nat /\ read \in 1..Len(Stream) /\ Len(s) = Len(x) + (Len(Stream) - read)
       /\ Len(Stream) - read = (e - End) + l
  <2>1. /\ b + e + l \in Nat /\ b + End \in 1..(b + e + l)
        /\ (b + e + l) - (b + End) = (e - End) + l
        /\ Len(x) + (e - End) + l = Len(x) + ((b + e + l) - (b + End))
    BY <1>9, RestLength
  <2> QED
    BY <1>9, <2>1, Zenon
<1>11. ASSUME NEW i \in 1..(Len(Stream) - read) PROVE s[Len(x) + i] = Stream[read + i]
  <2>0. i \in 1..((e - End) + l)
    BY <1>10, Zenon
  <2>1. CASE i <= e - End
    <3>1. i \in 1..(e - End) /\ i \in 1..Len(rest) /\ End + i \in 1..e /\ read + i = b + (End + i)
      <4>1. i \in 1..(e - End) /\ End + i \in 1..e /\ (b + End) + i = b + (End + i)
        BY <1>9, <2>0, <2>1, RestAt
      <4> QED
        BY <1>9, <4>1, Zenon
    <3>2. s[Len(x) + i] = in[End + i]
      BY <1>7, <1>8, <3>1
    <3>3. Stream[b + (End + i)] = in[End + i]
      BY <1>3, <3>1
    <3> QED
      BY <3>1, <3>2, <3>3
  <2>2. CASE ~(i <= e - End)
    <3> DEFINE j == i - (e - End)
    <3>1. j \in 1..l /\ Len(x) + i = Len(x) + Len(rest) + j /\ read + i = b + e + j
      <4>1. /\ j \in 1..l /\ Len(x) + i = Len(x) + (e - End) + j
            /\ (b + End) + i = b + e + j
        BY <1>9, <2>0, <2>2, RestAt
      <4> HIDE DEF j
      <4> QED
        BY <1>9, <4>1, Zenon
    <3> HIDE DEF j
    <3>2. s[Len(x) + Len(rest) + j] = line[j]
      BY <1>8, <3>1
    <3>3. Stream[b + e + j] = line[j]
      BY <1>3, <3>1
    <3> QED
      BY <3>1, <3>2, <3>3
  <2> QED
    BY <2>1, <2>2
<1> QED
  BY <1>8, <1>10, <1>11 DEF Left

\* A message that ended before the next delim_ would end in what has arrived.
LEMMA Between ==
  ASSUME NEW b \in Nat, NEW len \in Nat, NEW e \in Nat, NEW end \in 1..e, b < len, len < b + end
  PROVE  len - b \in 1..(end - 1) /\ len - b \in 1..e /\ b + (len - b) = len /\ len \in 1..len
OBVIOUS

\* Without a fault, receive reads no further than to the end of the next message, and has
\* seen the delimiter when it is there.
LEMMA MessageRead ==
  ASSUME TypeInv, Faultless, LineInv, \E i \in DOMAIN in : in[i] = delim,
         NEW p, p = sent[Len(raised) + 1], NEW m, m = Messages[config][p]
  PROVE  /\ p \in Payloads /\ p \in Clear[config] /\ Len(raised) < Len(sent) /\ Len(Stream) > 0
         /\ Len(m) \in Nat /\ Len(Read) <= Len(m)
         /\ Len(Read) < Len(m) => ~EndsWith(Read, Delim)
         /\ Len(Read) = Len(m) => Read = m
<1> DEFINE b == Len(packetBuffer)
<1>1. /\ Read \in Seq(Byte) /\ Len(Read) = b + End /\ \A i \in 1..Len(Read) : Read[i] = Stream[i]
  BY ReadFacts
<1>2. /\ End \in 1..Len(in) /\ Len(in) \in Nat
  BY FrameFacts
<1>3. /\ b \in Nat /\ Len(line) \in Nat /\ Len(Stream) = b + Len(in) + Len(line)
      /\ \A i \in 1..Len(in) : Stream[b + i] = in[i]
  BY StreamFacts DEF TypeInv
<1>4. Len(Stream) > 0
  BY <1>2, <1>3
<1>5. PICK n, r, mm : n = Len(sent) /\ r = Len(raised) /\ mm = MessageOf(r + 1)
  OBVIOUS
<1>6. /\ n \in Nat /\ r \in Nat /\ r < n /\ p \in Payloads /\ Len(m) \in Nat
      /\ \A j \in 1..Len(m) : Stream[j] = m[j]
      /\ b < Len(m)
  <2>1. m = MessageOf(r + 1) /\ p = sent[r + 1]
    BY <1>5 DEF MessageOf
  <2>2. /\ n \in Nat /\ r \in Nat /\ r < n /\ sent[r + 1] \in Payloads
        /\ Len(mm) \in Nat /\ Len(mm) <= Len(Stream) /\ \A j \in 1..Len(mm) : Stream[j] = mm[j]
        /\ Len(packetBuffer) < Len(mm)
    BY <1>4, <1>5, NextMessage
  <2>3. m = mm
    BY <1>5, <2>1
  <2> QED
    BY <2>1, <2>2, <2>3
<1>7. m \in Seq(Byte) /\ m[Len(m)] = delim
  BY <1>6, MessageEnd DEF TypeInv, ControlInv, Delim, delim
<1>8. Len(Read) <= Len(m)
  <2> SUFFICES ASSUME Len(m) < b + End PROVE FALSE
    BY <1>1, <1>2, <1>3, <1>6
  <2> DEFINE k == Len(m) - b
  <2>1. k \in 1..(End - 1) /\ k \in 1..Len(in) /\ b + k = Len(m) /\ Len(m) \in 1..Len(m)
    <3>1. /\ b \in Nat /\ Len(m) \in Nat /\ b < Len(m) /\ Len(m) < b + End
          /\ End \in 1..Len(in) /\ Len(in) \in Nat
      BY <1>2, <1>3, <1>6, Zenon
    <3> HIDE DEF b
    <3> QED
      BY <3>1, Between
  <2> HIDE DEF k
  <2>2. in[k] = delim
    BY <1>3, <1>6, <1>7, <2>1
  <2>3. in[k] # delim
    <3>1. in \in Seq(Byte)
      BY DEF TypeInv, BytesInv
    <3> QED
      BY <2>1, <3>1, FirstOfFacts DEF End
  <2> QED
    BY <2>2, <2>3
<1>9. Len(Read) \in Nat /\ Len(Read) >= 1
  BY <1>1, <1>2, <1>3
<1>10. \A i \in 1..Len(Read) : Read[i] = m[i]
  BY <1>1, <1>6, <1>8, <1>9
<1>11. Len(Read) = Len(m) => Read = m
  BY <1>1, <1>7, <1>10, SameBytes
<1>13. p \in Clear[config]
  <2>1. r + 1 \in DOMAIN sent
    <3>1. sent \in Seq(Payloads)
      BY DEF TypeInv, BytesInv
    <3> QED
      BY <1>5, <1>6, <3>1, LenProperties
  <2>2. p \in ToSet(sent)
    BY <1>5, <2>1 DEF ToSet
  <2> QED
    BY <2>2 DEF Faultless
<1>12. ASSUME Len(Read) < Len(m) PROVE ~EndsWith(Read, Delim)
  <2> DEFINE k == Len(Read)
             first == SubSeq(m, 1, k)
  <2>1. k \in Nat /\ k <= Len(m) /\ 1 \in Nat \ {0}
    BY <1>8, <1>9
  <2>2. k \in 1..(Len(m) - 1)
    BY <1>6, <1>9, <1>12
  <2>3. \A i \in 1..k : Read[i] = m[i]
    BY <1>10
  <2> HIDE DEF k
  <2>4. /\ first \in Seq(Byte) /\ Len(first) = IF 1 <= k THEN k - 1 + 1 ELSE 0
        /\ \A i \in 1..(k - 1 + 1) : first[i] = m[1 + i - 1]
    BY <1>7, <2>1, Part
  <2> HIDE DEF first
  <2>5. Len(first) = k /\ k - 1 + 1 = k
    BY <2>1, <2>4
  <2>6. ASSUME NEW i \in 1..Len(Read) PROVE Read[i] = first[i]
    <3>1. i \in 1..k /\ 1 + i - 1 = i
      BY <2>1 DEF k
    <3> QED
      BY <2>3, <2>4, <2>5, <3>1
  <2>7. Read = first
    <3>1. Len(Read) = Len(first)
      BY <2>5 DEF k
    <3> QED
      BY <1>1, <2>4, <2>6, <3>1, SameBytes
  <2>9. config \in Configs
    BY DEF TypeInv, ControlInv
  <2>10. ~EndsWith(first, config.delim)
    BY <1>13, <2>2, <2>9, ClearFacts DEF first
  <2> QED
    BY <2>7, <2>10 DEF Delim
<1> QED
  BY <1>4, <1>5, <1>6, <1>8, <1>11, <1>12, <1>13

\* What packetBuffer_ holds is less than the next message.
LEMMA BufferFacts ==
  ASSUME LineInv
  PROVE  /\ Len(raised) < Len(sent) => Len(packetBuffer) < Len(MessageOf(Len(raised) + 1))
         /\ Len(Delim) = 1 => packetBuffer = << >>
BY DEF LineInv, Framed

\* A delimiter of one character is seen where it is read.
LEMMA OneCharacter ==
  ASSUME TypeInv, \E i \in DOMAIN in : in[i] = delim, Len(Delim) = 1
  PROVE  EndsWith(Read, Delim)
<1> DEFINE k == Len(Read)
           last == SubSeq(Read, k, k)
<1>1. Read \in Seq(Byte) /\ k = Len(packetBuffer) + End /\ Read[k] = delim
  BY ReadFacts
<1>2. Len(packetBuffer) \in Nat /\ End \in 1..Len(in) /\ Len(in) \in Nat
  BY FrameFacts, LenProperties DEF TypeInv, BytesInv
<1>3. k \in Nat \ {0} /\ k \in Nat /\ k <= Len(Read) /\ k >= 1
  BY <1>1, <1>2
<1>4. Delim \in Seq(Byte) /\ Delim[1] = delim
  BY ConfigType DEF TypeInv, ControlInv, Delim, delim
<1> HIDE DEF k
<1>5. /\ last \in Seq(Byte) /\ Len(last) = IF k <= k THEN k - k + 1 ELSE 0
      /\ \A i \in 1..(k - k + 1) : last[i] = Read[k + i - 1]
  <2>1. Read \in Seq(Byte) /\ k \in Nat \ {0} /\ k \in Nat /\ k <= Len(Read)
    BY <1>1, <1>3
  <2> QED
    BY <2>1, Part, Zenon
<1> HIDE DEF last
<1>6. Len(last) = 1 /\ k - k + 1 = 1 /\ k + 1 - 1 = k /\ 1 \in 1..1
  BY <1>3, <1>5
<1>7. last[1] = delim
  <2>1. 1 \in 1..(k - k + 1)
    BY <1>6
  <2>2. last[1] = Read[k + 1 - 1]
    BY <1>5, <2>1
  <2> QED
    BY <1>1, <1>6, <2>2
<1>8. last = Delim
  <2>1. Len(last) = Len(Delim)
    BY <1>6
  <2>2. ASSUME NEW i \in 1..Len(last) PROVE last[i] = Delim[i]
    <3>1. i = 1
      BY <1>6
    <3> QED
      BY <1>4, <1>7, <3>1
  <2> QED
    BY <1>4, <1>5, <2>1, <2>2, SameBytes
<1>9. Len(Read) = k
  BY DEF k
<1>10. Len(Read) >= 1 /\ Len(Read) - 1 + 1 = k
  BY <1>3, <1>9
<1>11. SubSeq(Read, Len(Read) - Len(Delim) + 1, Len(Read)) = Delim
  BY <1>8, <1>9, <1>10 DEF last
<1> QED
  BY <1>10, <1>11 DEF EndsWith

\* With a longer delimiter, it is what packetBuffer_ becomes.
LEMMA BufferRead ==
  ASSUME Len(Delim) # 1
  PROVE  Buffer = Read
BY DEF Buffer, Read

\* What is read of a whole message is its packet, and it is good.
LEMMA WholeMessage ==
  ASSUME TypeInv, LineInv, \E i \in DOMAIN in : in[i] = delim,
         NEW p \in Payloads, p \in Clear[config], Read = Messages[config][p]
  PROVE  /\ Complete /\ Good /\ (IF config.crc THEN Body(Received) ELSE Received) = p
         /\ Len(Delim) # 1 => BufferAfter(Buffer) = << >>
<1> DEFINE m == Messages[config][p]
           code == Coded(config, p)
<1>1. config \in Configs
  BY DEF TypeInv, ControlInv
<1>2. EndsWith(m, Delim) /\ SubSeq(m, 1, Len(m) - Len(Delim)) = code
  BY <1>1, MessageParts DEF Delim
<1>9. Len(Delim) # 1 => Len(m) > Len(Delim)
  BY <1>1, ClearFacts DEF Delim
<1>3. code \in Seq(Byte)
  BY <1>1, CodedFacts
<1>4. Frame = code
  <2>1. CASE Len(Delim) = 1
    <3>1. m \in Seq(Byte) /\ Len(m) = Len(code) + Len(Delim) /\ Len(code) \in Nat
      BY <1>1, MessageEnd DEF Delim
    <3>2. \A i \in 1..Len(code) : m[i] = code[i]
      BY <1>1, MessageEnd
    <3> HIDE DEF m, code
    <3>3. packetBuffer = << >> /\ Len(packetBuffer) = 0
      BY <2>1, BufferFacts, EmptySeq
    <3>4. /\ End \in 1..Len(in) /\ Len(in) \in Nat
          /\ Text \in Seq(Byte) /\ Len(Text) = End - 1 /\ \A i \in 1..(End - 1) : Text[i] = in[i]
      BY FrameFacts
    <3>5. Len(Read) = Len(packetBuffer) + End /\ \A i \in 1..Len(Read) : Read[i] = Stream[i]
      BY ReadFacts
    <3>6. \A i \in 1..Len(in) : Stream[Len(packetBuffer) + i] = in[i]
      BY StreamFacts DEF TypeInv
    <3>7. Read = m
      BY DEF m
    <3>8. Len(m) = End /\ Len(Text) = Len(code)
      <4>1. Len(m) = 0 + End
        BY <3>3, <3>5, <3>7
      <4> QED
        BY <2>1, <3>1, <3>4, <4>1
    <3>9. ASSUME NEW i \in 1..Len(Text) PROVE Text[i] = code[i]
      <4>1. i \in 1..(End - 1) /\ i \in 1..Len(in) /\ i \in 1..Len(m) /\ i \in 1..Len(code) /\ 0 + i = i
        BY <3>4, <3>8
      <4>2. Text[i] = in[i]
        BY <3>4, <4>1
      <4>3. in[i] = Stream[i]
        BY <3>3, <3>6, <4>1
      <4>4. Stream[i] = m[i]
        BY <3>5, <3>7, <4>1
      <4> QED
        BY <3>2, <4>1, <4>2, <4>3, <4>4
    <3>10. Text = code
      BY <1>3, <3>4, <3>8, <3>9, SameBytes
    <3> QED
      BY <2>1, <3>10 DEF Frame
  <2>2. CASE Len(Delim) # 1
    <3>1. Buffer = m
      BY <2>2, BufferRead
    <3> HIDE DEF m, code
    <3> QED
      BY <1>2, <2>2, <3>1 DEF Frame
  <2> QED
    BY <2>1, <2>2
<1>5. Complete
  <2>1. CASE Len(Delim) = 1
    BY <2>1 DEF Complete
  <2>2. CASE Len(Delim) # 1
    BY <1>2, <1>9, <2>2, BufferRead DEF Complete, EndOfPacket
  <2> QED
    BY <2>1, <2>2
<1>6. Received = Packet(config, p)
  BY <1>1, <1>4, CodedFacts DEF Received
<1>7. Good /\ (IF config.crc THEN Body(Received) ELSE Received) = p
  <2>1. /\ config.crc => CrcOk(Packet(config, p)) /\ Body(Packet(config, p)) = p
        /\ ~config.crc => Packet(config, p) = p
    BY <1>1, PacketFacts
  <2> QED
    BY <1>6, <2>1 DEF Good
<1>8. Len(Delim) # 1 => BufferAfter(Buffer) = << >>
  BY <1>2, <1>9, BufferRead DEF BufferAfter, EndOfPacket
<1> QED
  BY <1>5, <1>7, <1>8

\* receive takes a whole message, or puts what it has read of one into packetBuffer_.
LEMMA ReceiveLine ==
  ASSUME TypeInv, TypeInv', Faultless, LineInv, Receive
  PROVE  LineInv'
<1>1. /\ \E i \in DOMAIN in : in[i] = delim
      /\ config' = config /\ sent' = sent /\ line' = line
  BY ReceiveFacts DEF sender
<1>2. CASE canceled
  <2>1. in' = in /\ packetBuffer' = packetBuffer /\ raised' = raised
    BY <1>2, ReceiveFacts
  <2>2. Stream' = Stream
    BY <1>1, <2>1 DEF Stream
  <2> QED
    BY <1>1, <2>1, <2>2, BufferFacts, KeptLine
<1>3. CASE ~canceled
  <2>1. /\ in' = SubSeq(in, End + 1, Len(in))
        /\ packetBuffer' = IF Len(Delim) = 1 THEN packetBuffer ELSE BufferAfter(Buffer)
        /\ raised' = IF Complete /\ Good
                     THEN Append(raised, IF config.crc THEN Body(Received) ELSE Received)
                     ELSE raised
    BY <1>3, ReceiveFacts
  <2> DEFINE p == sent[Len(raised) + 1]
             m == Messages[config][p]
  <2>2. /\ p \in Payloads /\ p \in Clear[config] /\ Len(raised) < Len(sent) /\ Len(Stream) > 0
        /\ Len(m) \in Nat /\ Len(Read) <= Len(m)
        /\ Len(Read) < Len(m) => ~EndsWith(Read, Delim)
        /\ Len(Read) = Len(m) => Read = m
    BY <1>1, MessageRead
  <2>3. Read \in Seq(Byte) /\ Len(Read) = Len(packetBuffer) + End /\ Len(Read) \in Nat
    BY <1>1, ReadFacts, LenProperties
  <2>4. m = MessageOf(Len(raised) + 1)
    BY DEF MessageOf
  <2>5. Stream' = packetBuffer' \o (SubSeq(in, End + 1, Len(in)) \o line)
    BY <1>1, <2>1 DEF Stream
  <2>6. packetBuffer' \in Seq(Byte)
    BY DEF TypeInv, BytesInv
  <2> HIDE DEF p, m
  <2>7. CASE Len(Read) = Len(m)
    <3>1. Read = Messages[config][p]
      BY <2>2, <2>7 DEF m
    <3>2. /\ Complete /\ Good /\ (IF config.crc THEN Body(Received) ELSE Received) = p
          /\ Len(Delim) # 1 => BufferAfter(Buffer) = << >>
      BY <1>1, <2>2, <3>1, WholeMessage
    <3>3. raised' = Append(raised, p)
      BY <2>1, <3>2
    <3>4. packetBuffer' = << >>
      BY <2>1, <3>2, BufferFacts
    <3>5. ReadOff(Len(m))
      <4>0. PICK read, s, x : read = Len(packetBuffer) + End /\ s = Stream' /\ x = packetBuffer'
        OBVIOUS
      <4> DEFINE k == Len(Stream) - read
      <4>1. read = Len(m)
        BY <2>3, <2>7, <4>0
      <4>2. /\ Len(x) \in Nat /\ Len(Stream) \in Nat /\ read \in 1..Len(Stream)
            /\ Len(s) = Len(x) + k
            /\ \A i \in 1..k : s[Len(x) + i] = Stream[read + i]
        <5>1. x \in Seq(Byte) /\ Leaves(s, x)
          BY <2>5, <2>6, <4>0 DEF Leaves
        <5>2. Left(s, x, read)
          BY <1>1, <4>0, <5>1, RestFacts
        <5> QED
          BY <5>2 DEF Left
      <4>3. Len(x) = 0
        BY <3>4, <4>0, EmptySeq
      <4>4. Len(Stream') = k
        BY <4>0, <4>2, <4>3
      <4>5. ASSUME NEW i \in 1..k PROVE Stream'[i] = Stream[read + i]
        <5>1. Len(x) + i = i
          BY <4>3
        <5> QED
          BY <4>0, <4>2, <5>1
      <4> QED
        BY <4>1, <4>4, <4>5 DEF ReadOff
    <3>6. raised' = Append(raised, sent[Len(raised) + 1])
      BY <3>3 DEF p
    <3> QED
      BY <1>1, <2>2, <2>4, <3>4, <3>5, <3>6, PoppedLine
  <2>8. CASE Len(Read) < Len(m)
    <3>1. ~EndsWith(Read, Delim)
      BY <2>2, <2>8
    <3>2. Len(Delim) # 1
      BY <1>1, <3>1, OneCharacter
    <3>3. Buffer = Read
      BY <3>2, BufferRead
    <3>4. ~Complete
      BY <3>1, <3>2, <3>3 DEF Complete, EndOfPacket
    <3>5. raised' = raised /\ packetBuffer' = Read
      BY <2>1, <3>1, <3>2, <3>3, <3>4 DEF BufferAfter, EndOfPacket
    <3>6. Stream' = Stream
      <4>0. PICK read, s : read = Len(packetBuffer) + End /\ s = Stream'
        OBVIOUS
      <4> DEFINE k == Len(Stream) - read
      <4>1. s = Read \o (SubSeq(in, End + 1, Len(in)) \o line)
        BY <2>5, <3>5, <4>0
      <4>2. /\ s \in Seq(Byte) /\ Len(Read) \in Nat /\ Len(Stream) \in Nat
            /\ read \in 1..Len(Stream) /\ Len(s) = Len(Read) + k
            /\ \A i \in 1..Len(Read) : s[i] = Read[i]
            /\ \A i \in 1..k : s[Len(Read) + i] = Stream[read + i]
        <5>1. Leaves(s, Read)
          BY <4>1 DEF Leaves
        <5>2. Left(s, Read, read)
          BY <1>1, <2>3, <4>0, <5>1, RestFacts
        <5> QED
          BY <5>2 DEF Left
      <4>3. Len(Read) = read /\ Stream \in Seq(Byte) /\ \A i \in 1..Len(Read) : Read[i] = Stream[i]
        BY <1>1, <2>3, <4>0, ReadFacts, StreamFacts DEF TypeInv
      <4>4. Len(s) = Len(Stream)
        BY <4>2, <4>3
      <4>5. ASSUME NEW i \in 1..Len(s) PROVE s[i] = Stream[i]
        <5>1. CASE i <= Len(Read)
          <6>1. i \in 1..Len(Read)
            BY <4>2, <5>1
          <6> QED
            BY <4>2, <4>3, <6>1
        <5>2. CASE ~(i <= Len(Read))
          <6> DEFINE j == i - Len(Read)
          <6>1. j \in 1..k /\ Len(Read) + j = i /\ read + j = i
            BY <4>2, <4>3, <4>4, <5>2
          <6> HIDE DEF j
          <6> QED
            BY <4>2, <6>1
        <5> QED
          BY <5>1, <5>2
      <4> QED
        BY <4>0, <4>2, <4>3, <4>4, <4>5, SameBytes
    <3>7. Len(packetBuffer') < Len(MessageOf(Len(raised) + 1))
      BY <2>4, <2>8, <3>5
    <3> QED
      BY <1>1, <3>2, <3>5, <3>6, <3>7, KeptLine
  <2> QED
    BY <2>2, <2>3, <2>7, <2>8
<1> QED
  BY <1>2, <1>3

\* The configuration stays, faults are only counted up, and only INIT flushes.
LEMMA FaultsGrow ==
  ASSUME [Next]_vars
  PROVE  /\ config' = config /\ faults' \in {faults, faults + 1}
         /\ flushed' = flushed \/ (stage = "new" /\ faults' = faults)
<1>1. ASSUME NEW p \in Payloads, Send(p) PROVE UNCHANGED <<config, faults, flushed>>
  BY <1>1 DEF Send
<1>2. CASE WriteDone
  BY <1>2 DEF WriteDone
<1>3. CASE Arrive
  BY <1>3 DEF Arrive
<1>4. CASE Fault
  BY <1>4 DEF Fault
<1>5. CASE InitLayer
  BY <1>5 DEF InitLayer
<1>6. CASE StartLayer
  BY <1>6 DEF StartLayer
<1>7. CASE Subscribe
  BY <1>7 DEF Subscribe
<1>8. CASE Receive
  BY <1>8, ReceiveFacts
<1>9. CASE ReadError
  BY <1>9 DEF ReadError
<1>10. CASE TestCanceled
  BY <1>10 DEF TestCanceled
<1>11. CASE RunReturns
  BY <1>11 DEF RunReturns
<1>12. CASE Restart
  BY <1>12 DEF Restart
<1>13. CASE Restarted
  BY <1>13 DEF Restarted
<1>14. CASE SigIntHandler
  BY <1>14 DEF SigIntHandler
<1>15. CASE OnSigInt
  BY <1>15 DEF OnSigInt
<1>16. CASE Cancel
  BY <1>16 DEF Cancel
<1>17. CASE StopScheduler
  BY <1>17 DEF StopScheduler
<1>18. CASE JoinHandler
  BY <1>18 DEF JoinHandler
<1>19. CASE Connection
  BY <1>19 DEF Connection
<1>20. CASE OnChannel
  BY <1>20 DEF OnChannel
<1>21. CASE UNCHANGED vars
  BY <1>21 DEF vars
<1> QED
  BY <1>1, <1>2, <1>3, <1>4, <1>5, <1>6, <1>7, <1>8, <1>9, <1>10, <1>11, <1>12, <1>13, <1>14,
     <1>15, <1>16, <1>17, <1>18, <1>19, <1>20, <1>21 DEF Next

\* No step takes a fault or an unclear packet back.
LEMMA FaultlessBefore ==
  ASSUME TypeInv, [Next]_vars, Faultless'
  PROVE  Faultless
<1>1. config' = config /\ faults = 0 /\ flushed = 0
  <2>1. faults' = 0 /\ faults \in Nat /\ flushed' = 0 /\ (stage = "new" => flushed = 0)
    BY DEF Faultless, TypeInv, ControlInv
  <2> QED
    BY <2>1, FaultsGrow
<1>2. config.blocking /\ SerialSends
  BY <1>1 DEF Faultless, SerialSends, UseSerial
<1>3. ToSet(sent) \subseteq ToSet(sent')
  <2>1. CASE sent' = sent
    BY <2>1
  <2>2. CASE \E p \in Payloads : sent' = Append(sent, p)
    <3>1. PICK p \in Payloads : sent' = Append(sent, p)
      BY <2>2
    <3>2. sent \in Seq(Payloads)
      BY DEF TypeInv, BytesInv
    <3>3. DOMAIN sent = 1..Len(sent) /\ Len(sent) \in Nat /\ DOMAIN sent' = 1..Len(sent')
      BY <3>1, <3>2, LenProperties, AppendProperties
    <3>4. Len(sent') = Len(sent) + 1 /\ \A i \in 1..Len(sent) : sent'[i] = sent[i]
      BY <3>1, <3>2, AppendProperties
    <3>5. \A i \in DOMAIN sent : i \in DOMAIN sent' /\ sent'[i] = sent[i]
      BY <3>3, <3>4
    <3> QED
      BY <3>5 DEF ToSet
  <2>3. ASSUME NEW p \in Payloads, Send(p)
        PROVE  sent' = sent \/ \E q \in Payloads : sent' = Append(sent, q)
    BY <2>3 DEF Send
  <2>4. WriteDone => sent' = sent
    BY DEF WriteDone
  <2>5. Arrive => sent' = sent
    BY DEF Arrive, sender
  <2>6. Fault => sent' = sent
    BY DEF Fault, sender
  <2>7. Receive => sent' = sent
    BY ReceiveFacts DEF sender
  <2>8. LineUnchanged => sent' = sent
    BY DEF LineUnchanged, sender
  <2>9. InitLayer => sent' = sent
    BY DEF InitLayer, sender
  <2> QED
    BY <2>1, <2>2, <2>3, <2>4, <2>5, <2>6, <2>7, <2>8, <2>9, OtherActions DEF Next
<1>4. ToSet(sent) \subseteq Clear[config]
  BY <1>1, <1>3 DEF Faultless
<1> QED
  BY <1>1, <1>2, <1>4 DEF Faultless

\* Every step without a fault keeps the framing.
LEMMA LineStep ==
  ASSUME TypeInv, TypeInv', Faultless => LineInv, [Next]_vars, Faultless'
  PROVE  LineInv'
<1>1. Faultless /\ LineInv
  BY FaultlessBefore
<1>2. ASSUME NEW p \in Payloads, Send(p) PROVE LineInv'
  BY <1>1, <1>2, SendLine
<1>3. ~WriteDone
  BY <1>1 DEF WriteDone, Faultless, TypeInv, BytesInv
<1>4. CASE Arrive
  <2>1. in' \o line' = in \o line
    BY <1>4, ArriveFacts
  <2>2. UNCHANGED <<config, sent, raised, packetBuffer>>
    BY <1>4 DEF Arrive, sender
  <2>3. Stream' = Stream
    BY <2>1, <2>2 DEF Stream
  <2> QED
    BY <1>1, <2>2, <2>3, BufferFacts, KeptLine
<1>5. ~Fault
  <2>1. faults = 0 /\ faults' = 0
    BY <1>1 DEF Faultless
  <2> QED
    BY <2>1 DEF Fault
<1>6. CASE Receive
  BY <1>1, <1>6, ReceiveLine
<1>7. CASE LineUnchanged
  <2>1. UNCHANGED <<config, sent, raised, packetBuffer>>
    BY <1>7 DEF LineUnchanged, sender
  <2>2. Stream' = Stream
    BY <1>7 DEF LineUnchanged, Stream
  <2> QED
    BY <1>1, <2>1, <2>2, BufferFacts, KeptLine
<1>8. CASE InitLayer
  <2>1. UNCHANGED <<config, sent, raised, packetBuffer, in>> /\ line' = line
    BY <1>8, FlushFacts DEF sender, Faultless
  <2>2. Stream' = Stream
    BY <2>1 DEF Stream
  <2> QED
    BY <1>1, <2>1, <2>2, BufferFacts, KeptLine
<1> QED
  BY <1>2, <1>3, <1>4, <1>5, <1>6, <1>7, <1>8, OtherActions DEF Next

\* Of a packet that has not been raised there are bytes in the stream.
LEMMA StreamLeft ==
  ASSUME TypeInv, LineInv, Len(raised) < Len(sent)
  PROVE  Len(Stream) > 0
<1>1. PICK n, r : n = Len(sent) /\ r = Len(raised)
  OBVIOUS
<1>2. PICK cut \in [0..n -> Nat] : Framed(cut)
  BY <1>1 DEF LineInv
<1>3. n \in Nat /\ r \in Nat /\ r < n /\ sent \in Seq(Payloads)
  BY <1>1, LenProperties DEF TypeInv, BytesInv, StatsInv
<1>4. r + 1 \in 1..n /\ r + 1 \in 0..n /\ n \in 0..n /\ r \in 0..n /\ (r + 1) - 1 = r /\ r + 1 <= n
  BY <1>3
<1>5. cut[n] \in Nat /\ cut[r] \in Nat /\ cut[r + 1] \in Nat
  BY <1>2, <1>4
<1>6. Len(Stream) = cut[n] - cut[r]
  BY <1>1, <1>2 DEF Framed
<1>7. cut[r + 1] <= cut[n]
  <2>1. \A i, k \in 0..n : i <= k => cut[i] <= cut[k]
    BY <1>1, <1>2 DEF Framed
  <2> QED
    BY <1>4, <2>1
<1> DEFINE m == MessageOf(r + 1)
<1>8. cut[r + 1] = cut[r] + Len(m)
  <2>1. \A i \in 1..n : cut[i] = cut[i - 1] + Len(MessageOf(i))
    BY <1>1, <1>2 DEF Framed
  <2>2. cut[r + 1] = cut[(r + 1) - 1] + Len(m)
    BY <1>4, <2>1
  <2> QED
    BY <1>4, <2>2
<1>9. Len(m) \in Nat /\ Len(m) > 0
  <2>1. sent[r + 1] \in Payloads
    BY <1>1, <1>3, <1>4, ElementOfSeq
  <2> DEFINE p == sent[r + 1]
             code == Len(Coded(config, p))
             d == Len(config.delim)
  <2> HIDE DEF p
  <2>2. Len(Messages[config][p]) = code + d /\ code \in Nat /\ d \in Nat \ {0}
    BY <2>1, MessageEnd DEF p, TypeInv, ControlInv
  <2> HIDE DEF code, d
  <2>3. code + d \in Nat /\ code + d > 0
    BY <2>2
  <2> QED
    BY <2>2, <2>3 DEF MessageOf, p
<1> HIDE DEF m
<1> QED
  BY <1>5, <1>6, <1>7, <1>8, <1>9

\* When everything has arrived and been read, nothing is left to raise.
LEMMA QuietLine ==
  ASSUME TypeInv, LineInv, Quiet
  PROVE  Len(raised) = Len(sent)
<1>1. Len(raised) \in Nat /\ Len(sent) \in Nat /\ Len(raised) <= Len(sent)
  BY LenProperties DEF TypeInv, BytesInv, StatsInv, LineInv
<1> SUFFICES ASSUME Len(raised) < Len(sent) PROVE FALSE
  BY <1>1
<1>2. PICK n, r, m : n = Len(sent) /\ r = Len(raised) /\ m = MessageOf(r + 1)
  OBVIOUS
<1>3. Len(Stream) > 0
  BY StreamLeft
<1>4. /\ sent[r + 1] \in Payloads /\ Len(m) \in Nat /\ Len(m) <= Len(Stream)
      /\ \A j \in 1..Len(m) : Stream[j] = m[j]
      /\ Len(packetBuffer) < Len(m)
  BY <1>2, <1>3, NextMessage
<1>5. m[Len(m)] = delim
  BY <1>2, <1>4, MessageEnd DEF MessageOf, TypeInv, ControlInv, delim, Delim
<1>6. /\ Len(packetBuffer) \in Nat /\ Len(in) \in Nat
      /\ Len(Stream) = Len(packetBuffer) + Len(in) + Len(line) /\ Len(line) = 0
      /\ \A i \in 1..Len(in) : Stream[Len(packetBuffer) + i] = in[i]
  BY StreamFacts, EmptySeq DEF TypeInv, Quiet
<1> DEFINE b == Len(packetBuffer)
           k == Len(m) - b
<1>7. k \in 1..Len(in) /\ b + k = Len(m) /\ Len(m) \in 1..Len(m)
  <2>1. /\ b \in Nat /\ Len(in) \in Nat /\ Len(m) \in Nat /\ b < Len(m)
        /\ Len(m) <= Len(Stream) /\ Len(Stream) = b + Len(in) + Len(line) /\ Len(line) = 0
    BY <1>4, <1>6
  <2> HIDE DEF b
  <2> QED
    BY <2>1
<1> HIDE DEF k, b
<1>8. in[k] = delim
  <2>1. Stream[b + k] = in[k]
    BY <1>6, <1>7 DEF b
  <2>2. Stream[Len(m)] = m[Len(m)]
    BY <1>4, <1>7
  <2> QED
    BY <1>5, <1>7, <2>1, <2>2
<1>9. k \in DOMAIN in
  <2>1. in \in Seq(Byte)
    BY DEF TypeInv, BytesInv
  <2> QED
    BY <1>7, <2>1, LenProperties
<1> QED
  BY <1>8, <1>9 DEF Quiet

\* Without a fault, and when INIT has flushed no byte of it, the receiver raises exactly the
\* packets that were sent, in their order, and all of them once all bytes have arrived,
\* however reads cut the frames: with blocking writes, and for any packets whose message
\* has the delimiter at its end only and is not just a delimiter of several characters
\* (SerialHandler::receive).
THEOREM LosslessHolds == Spec => []Lossless
<1> DEFINE Inv == TypeInv /\ (Faultless => LineInv)
<1>1. Init => Inv
  BY TypeInit, LineInit
<1>2. Inv /\ [Next]_vars => Inv'
  BY TypeStep, LineStep
<1>3. Inv => Lossless
  <2> SUFFICES ASSUME TypeInv, Faultless, LineInv
               PROVE  /\ Len(raised) <= Len(sent) /\ \A i \in 1..Len(raised) : raised[i] = sent[i]
                      /\ Quiet => Len(raised) = Len(sent)
    BY DEF Lossless, Faultless
  <2>1. Quiet => Len(raised) = Len(sent)
    BY QuietLine
  <2> QED
    BY <2>1 DEF LineInv
<1> QED
  BY <1>1, <1>2, <1>3, PTL DEF Spec

-----------------------------------------------------------------------------
(* Packets are heard in their order *)

InOrder(f, s, t) ==
  /\ f \in [1..Len(s) -> 1..Len(t)]
  /\ \A i, k \in 1..Len(s) : i < k => f[i] < f[k]
  /\ \A i \in 1..Len(s) : s[i] = t[f[i]]

\* A subsequence is shown by where its elements are.
LEMMA Shown == ASSUME NEW s, NEW t, NEW f, InOrder(f, s, t) PROVE IsSubsequence(s, t)
BY DEF InOrder, IsSubsequence

\* What is appended to both, or to the longer one, keeps the order.
LEMMA BothGrow ==
  ASSUME NEW S, NEW U, NEW s \in Seq(S), NEW t \in Seq(U), NEW p \in S, p \in U,
         IsSubsequence(s, t)
  PROVE  IsSubsequence(Append(s, p), Append(t, p)) /\ IsSubsequence(s, Append(t, p))
<1>1. PICK f : InOrder(f, s, t)
  BY DEF IsSubsequence, InOrder
<1> DEFINE a == Append(s, p)
           b == Append(t, p)
           g == [i \in 1..Len(a) |-> IF i <= Len(s) THEN f[i] ELSE Len(b)]
<1>2. /\ Len(s) \in Nat /\ Len(t) \in Nat /\ Len(a) = Len(s) + 1 /\ Len(b) = Len(t) + 1
      /\ \A i \in 1..Len(s) : a[i] = s[i]
      /\ \A i \in 1..Len(t) : b[i] = t[i]
      /\ a[Len(s) + 1] = p /\ b[Len(t) + 1] = p
  BY AppendProperties, LenProperties
<1> HIDE DEF a, b
<1>3. \A i \in 1..Len(s) : f[i] \in 1..Len(t) /\ s[i] = t[f[i]]
  BY <1>1 DEF InOrder
<1>4. \A i, k \in 1..Len(s) : i < k => f[i] < f[k]
  BY <1>1 DEF InOrder
<1>5. f \in [1..Len(s) -> 1..Len(t)]
  BY <1>1 DEF InOrder
<1>6. InOrder(g, a, b)
  <2>1. ASSUME NEW i \in 1..Len(a) PROVE g[i] \in 1..Len(b) /\ a[i] = b[g[i]]
    <3>1. CASE i <= Len(s)
      <4>1. i \in 1..Len(s) /\ g[i] = f[i]
        BY <1>2, <3>1
      <4>2. f[i] \in 1..Len(t) /\ a[i] = t[f[i]]
        BY <1>2, <1>3, <4>1
      <4> QED
        BY <1>2, <4>1, <4>2
    <3>2. CASE ~(i <= Len(s))
      <4>1. i = Len(s) + 1 /\ g[i] = Len(b)
        BY <1>2, <3>2
      <4> QED
        BY <1>2, <4>1
    <3> QED
      BY <3>1, <3>2
  <2>2. ASSUME NEW i \in 1..Len(a), NEW k \in 1..Len(a), i < k PROVE g[i] < g[k]
    <3>1. i \in 1..Len(s) /\ g[i] = f[i] /\ f[i] \in 1..Len(t)
      BY <1>2, <1>3, <2>2
    <3>2. CASE k <= Len(s)
      <4>1. k \in 1..Len(s) /\ g[k] = f[k]
        BY <1>2, <3>2
      <4> QED
        BY <1>4, <2>2, <3>1, <4>1
    <3>3. CASE ~(k <= Len(s))
      <4>1. g[k] = Len(t) + 1
        BY <1>2, <3>3
      <4> QED
        BY <1>2, <3>1, <4>1
    <3> QED
      BY <3>2, <3>3
  <2>3. g \in [1..Len(a) -> 1..Len(b)]
    BY <2>1
  <2> HIDE DEF g
  <2> QED
    BY <2>1, <2>2, <2>3 DEF InOrder
<1>7. InOrder(f, s, b)
  <2>1. \A i \in 1..Len(s) : f[i] \in 1..Len(b) /\ s[i] = b[f[i]]
    BY <1>2, <1>3
  <2>2. f \in [1..Len(s) -> 1..Len(b)]
    BY <1>5, <2>1
  <2> QED
    BY <1>4, <2>1, <2>2 DEF InOrder
<1> QED
  BY <1>6, <1>7, Shown DEF a, b

\* A sequence without its n-th element.
Without(r, s, n) ==
  /\ Len(s) \in Nat /\ n \in 1..Len(s) /\ Len(r) = Len(s) - 1
  /\ \A i \in 1..(n - 1) : r[i] = s[i]
  /\ \A i \in n..Len(r) : r[i] = s[i + 1]

\* What is left when an element is lost is in order.
LEMMA OneLess ==
  ASSUME NEW s, NEW t, NEW r, NEW n, Without(r, s, n), IsSubsequence(s, t)
  PROVE  IsSubsequence(r, t)
<1>1. PICK f : InOrder(f, s, t)
  BY DEF IsSubsequence, InOrder
<1>2. /\ f \in [1..Len(s) -> 1..Len(t)]
      /\ \A i, k \in 1..Len(s) : i < k => f[i] < f[k]
      /\ \A i \in 1..Len(s) : s[i] = t[f[i]]
  BY <1>1 DEF InOrder
<1> DEFINE At(i) == IF i < n THEN i ELSE i + 1
           g == [i \in 1..Len(r) |-> f[At(i)]]
<1>3. ASSUME NEW i \in 1..Len(r) PROVE At(i) \in 1..Len(s) /\ r[i] = s[At(i)]
  <2>1. CASE i < n
    BY <2>1 DEF Without
  <2>2. CASE ~(i < n)
    BY <2>2 DEF Without
  <2> QED
    BY <2>1, <2>2
<1>4. ASSUME NEW i \in 1..Len(r), NEW k \in 1..Len(r), i < k PROVE At(i) < At(k)
  BY <1>4 DEF Without
<1> HIDE DEF At
<1>5. \A i \in 1..Len(r) : g[i] \in 1..Len(t) /\ r[i] = t[g[i]]
  BY <1>2, <1>3
<1>6. \A i, k \in 1..Len(r) : i < k => g[i] < g[k]
  BY <1>2, <1>3, <1>4
<1>7. g \in [1..Len(r) -> 1..Len(t)]
  BY <1>5
<1> HIDE DEF g
<1> QED
  BY <1>5, <1>6, <1>7, Shown DEF InOrder

\* What is heard and what is on the way, when a packet is sent and when one arrives.
LEMMA TakeOne ==
  ASSUME NEW S, NEW a \in Seq(S), NEW c \in Seq(S), NEW p \in S
  PROVE  a \o c \in Seq(S) /\ a \o Append(c, p) = Append(a \o c, p)
OBVIOUS

\* A packet that arrives is the first of those on the way.
LEMMA TakeNext ==
  ASSUME NEW S, NEW a \in Seq(S), NEW c \in Seq(S), c # << >>
  PROVE  /\ Tail(c) \in Seq(S) /\ Head(c) \in S
         /\ Append(a, Head(c)) \o Tail(c) = a \o c
         /\ Without(a \o Tail(c), a \o c, Len(a) + 1)
<1>1. Without(a \o Tail(c), a \o c, Len(a) + 1)
  BY DEF Without
<1> QED
  BY <1>1

\* What has been heard is in order if what is on the way is, too.
LEMMA FirstPart ==
  ASSUME NEW S, NEW a \in Seq(S), NEW c \in Seq(S), NEW t, IsSubsequence(a \o c, t)
  PROVE  IsSubsequence(a, t)
<1>1. PICK s : s = a \o c
  OBVIOUS
<1>2. Len(a) \in Nat /\ Len(a) <= Len(s) /\ Len(s) \in Nat /\ \A i \in 1..Len(a) : s[i] = a[i]
  BY <1>1
<1>3. PICK f : InOrder(f, s, t)
  BY <1>1 DEF IsSubsequence, InOrder
<1> DEFINE g == [i \in 1..Len(a) |-> f[i]]
<1>4. g \in [1..Len(a) -> 1..Len(t)]
  BY <1>2, <1>3 DEF InOrder
<1>5. \A i, k \in 1..Len(a) : i < k => g[i] < g[k]
  BY <1>2, <1>3 DEF InOrder
<1>6. \A i \in 1..Len(a) : a[i] = t[g[i]]
  BY <1>2, <1>3 DEF InOrder
<1> HIDE DEF g
<1> QED
  BY <1>4, <1>5, <1>6, Shown DEF InOrder

\* What the serial layer calls the slot with are the last packets that were raised.
LastRaised ==
  /\ Len(heard) <= Len(raised)
  /\ \A i \in 1..Len(heard) : heard[i] = raised[(Len(raised) - Len(heard)) + i]

HeardInv ==
  /\ heard \in Seq(Seq(Byte)) /\ channel \in Seq(Seq(Byte))
  /\ slot = "none" => heard = << >>
  /\ slot = "serial" => LastRaised
  /\ slot # "serial" => IsSubsequence(heard \o channel, sent)
  /\ ~SerialSends /\ ~UseRedis => sent = << >>

\* In the beginning nothing has been sent.
LEMMA HeardInit == ASSUME Init PROVE HeardInv
<1>1. /\ heard = << >> /\ channel = << >> /\ sent = << >> /\ slot = "none"
  BY DEF Init
<1>2. << >> \in Seq(Seq(Byte)) /\ << >> \o << >> = << >> /\ Len(<< >>) = 0
  BY EmptySeq
<1>3. InOrder(<< >>, << >>, << >>)
  BY <1>2 DEF InOrder
<1>4. IsSubsequence(heard \o channel, sent)
  BY <1>1, <1>2, <1>3, Shown
<1> QED
  BY <1>1, <1>2, <1>4 DEF HeardInv

\* A packet that Redis takes is the last one on the way and the last one sent.
LEMMA SendHeard ==
  ASSUME TypeInv, HeardInv, NEW p \in Payloads, Send(p)
  PROVE  HeardInv'
<1>1. /\ UNCHANGED <<config, raised, heard, slot>>
      /\ sent' = IF SerialSends \/ RedisSends THEN Append(sent, p) ELSE sent
      /\ channel' = IF RedisSends THEN Append(channel, p) ELSE channel
  BY DEF Send, receiver
<1>2. /\ p \in Seq(Byte) /\ sent \in Seq(Payloads) /\ heard \in Seq(Seq(Byte)) /\ channel \in Seq(Seq(Byte))
  BY SerialAssumption DEF TypeInv, BytesInv, HeardInv, Byte
<1>3. channel' \in Seq(Seq(Byte)) /\ heard' \in Seq(Seq(Byte))
  BY <1>1, <1>2
<1>4. ~SerialSends /\ ~UseRedis => sent' = << >>
  BY <1>1 DEF HeardInv, RedisSends
<1>5. ASSUME slot # "serial" PROVE IsSubsequence(heard \o channel', sent')
  <2> DEFINE s == heard \o channel
  <2>1. s \in Seq(Seq(Byte)) /\ heard \o Append(channel, p) = Append(s, p)
    BY <1>2, TakeOne
  <2>2. IsSubsequence(s, sent)
    BY <1>5 DEF HeardInv
  <2> HIDE DEF s
  <2>3. IsSubsequence(Append(s, p), Append(sent, p)) /\ IsSubsequence(s, Append(sent, p))
    BY <1>2, <2>1, <2>2, BothGrow
  <2>4. CASE RedisSends
    BY <1>1, <2>1, <2>3, <2>4
  <2>5. CASE ~RedisSends
    BY <1>1, <2>2, <2>3, <2>5 DEF s
  <2> QED
    BY <2>4, <2>5
<1>6. slot = "serial" => LastRaised'
  BY <1>1 DEF HeardInv, LastRaised
<1>7. SerialSends' = SerialSends /\ UseRedis' = UseRedis
  BY <1>1 DEF SerialSends, UseRedis, UseSerial
<1>8. slot' # "serial" => IsSubsequence(heard' \o channel', sent')
  BY <1>1, <1>5
<1>9. slot' = "none" => heard' = << >>
  BY <1>1 DEF HeardInv
<1> QED
  BY <1>1, <1>3, <1>4, <1>6, <1>7, <1>8, <1>9 DEF HeardInv

\* receive calls the slot with each packet that it raises, if it is connected to it.
LEMMA ReceiveHeard ==
  ASSUME TypeInv, TypeInv', HeardInv, Receive
  PROVE  HeardInv'
<1>1. /\ UNCHANGED <<config, sent, slot, channel>>
      /\ \/ UNCHANGED <<raised, heard>>
         \/ \E p : Raise(p)
  BY DEF Receive, sender, redis
<1>2. SerialSends' = SerialSends /\ UseRedis' = UseRedis
  BY <1>1 DEF SerialSends, UseRedis, UseSerial
<1>3. CASE UNCHANGED <<raised, heard>>
  BY <1>1, <1>2, <1>3 DEF HeardInv, LastRaised
<1>4. ASSUME NEW p, Raise(p) PROVE HeardInv'
  <2>1. raised' = Append(raised, p) /\ heard' = IF slot = "serial" THEN Append(heard, p) ELSE heard
    BY <1>4 DEF Raise, Hears
  <2>2. CASE slot # "serial"
    BY <1>1, <1>2, <2>1, <2>2 DEF HeardInv
  <2>3. CASE slot = "serial"
    <3>1. /\ raised \in Seq(Seq(Byte)) /\ heard \in Seq(Seq(Byte)) /\ LastRaised
          /\ raised' \in Seq(Seq(Byte)) /\ heard' = Append(heard, p)
      BY <2>1, <2>3 DEF TypeInv, StatsInv, HeardInv
    <3>2. p \in Seq(Byte)
      BY <2>1, <3>1
    <3>3. /\ Len(raised) \in Nat /\ Len(raised') = Len(raised) + 1 /\ raised'[Len(raised) + 1] = p
          /\ \A i \in 1..Len(raised) : raised'[i] = raised[i]
          /\ Len(heard) \in Nat /\ Len(heard') = Len(heard) + 1 /\ heard'[Len(heard) + 1] = p
          /\ \A i \in 1..Len(heard) : heard'[i] = heard[i]
          /\ heard' \in Seq(Seq(Byte))
      BY <2>1, <3>1, <3>2, AppendProperties, LenProperties
    <3>4. LastRaised'
      <4>1. ASSUME NEW i \in 1..Len(heard')
            PROVE  heard'[i] = raised'[(Len(raised') - Len(heard')) + i]
        <5> DEFINE d == Len(raised) - Len(heard)
        <5>1. d \in Nat /\ Len(raised') - Len(heard') = d /\ Len(raised) = d + Len(heard)
          BY <3>1, <3>3 DEF LastRaised
        <5>2. CASE i = Len(heard) + 1
          <6>1. d + i = Len(raised) + 1
            BY <3>3, <5>1, <5>2
          <6> QED
            BY <3>3, <5>1, <5>2, <6>1
        <5>3. CASE i # Len(heard) + 1
          <6>1. i \in 1..Len(heard) /\ d + i \in 1..Len(raised)
            BY <3>3, <5>1, <5>3
          <6>2. heard[i] = raised[d + i]
            BY <3>1, <6>1 DEF LastRaised
          <6> QED
            BY <3>3, <5>1, <6>1, <6>2
        <5> QED
          BY <5>2, <5>3
      <4>2. Len(heard') <= Len(raised')
        BY <3>1, <3>3 DEF LastRaised
      <4> QED
        BY <4>1, <4>2 DEF LastRaised
    <3> QED
      BY <1>1, <1>2, <2>3, <3>3, <3>4 DEF HeardInv
  <2> QED
    BY <2>2, <2>3
<1> QED
  BY <1>1, <1>3, <1>4

\* A packet that Redis delivers is the next one that is heard, or is lost.
LEMMA ChannelHeard ==
  ASSUME TypeInv, HeardInv, OnChannel
  PROVE  HeardInv'
<1>1. /\ UNCHANGED <<config, sent, slot, raised>> /\ channel # << >> /\ channel' = Tail(channel)
      /\ heard' \in {heard, Append(heard, Head(channel))}
      /\ slot # "redis" => heard' = heard
  BY DEF OnChannel, sender, Hears
<1>2. heard \in Seq(Seq(Byte)) /\ channel \in Seq(Seq(Byte))
  BY DEF HeardInv
<1>4. /\ Tail(channel) \in Seq(Seq(Byte)) /\ Head(channel) \in Seq(Byte)
      /\ Append(heard, Head(channel)) \o Tail(channel) = heard \o channel
      /\ Without(heard \o Tail(channel), heard \o channel, Len(heard) + 1)
  BY <1>1, <1>2, TakeNext
<1>5. channel' \in Seq(Seq(Byte)) /\ heard' \in Seq(Seq(Byte))
  <2>1. PICK h \in Seq(Byte) : h = Head(channel)
    BY <1>4
  <2>2. Append(heard, h) \in Seq(Seq(Byte))
    BY <1>2, <2>1, AppendProperties
  <2> QED
    BY <1>1, <1>2, <1>4, <2>1, <2>2
<1>6. ASSUME slot # "serial" PROVE IsSubsequence(heard' \o channel', sent)
  <2>1. IsSubsequence(heard \o channel, sent)
    BY <1>6 DEF HeardInv
  <2>2. IsSubsequence(heard \o Tail(channel), sent)
    BY <1>4, <2>1, OneLess
  <2> QED
    BY <1>1, <1>4, <2>1, <2>2
<1>7. SerialSends' = SerialSends /\ UseRedis' = UseRedis
  BY <1>1 DEF SerialSends, UseRedis, UseSerial
<1>8. slot = "serial" => LastRaised'
  BY <1>1 DEF HeardInv, LastRaised
<1>9. slot = "none" => heard' = << >>
  BY <1>1 DEF HeardInv
<1> QED
  BY <1>1, <1>5, <1>6, <1>7, <1>8, <1>9 DEF HeardInv

\* A slot is connected before it hears anything.
LEMMA SubscribeHeard ==
  ASSUME TypeInv, HeardInv, Subscribe
  PROVE  HeardInv'
<1>1. /\ UNCHANGED <<config, sent, raised, heard, channel>> /\ slot = "none" /\ heard = << >>
  BY DEF Subscribe, sender, receiver, redis, HeardInv
<1>2. SerialSends' = SerialSends /\ UseRedis' = UseRedis
  BY <1>1 DEF SerialSends, UseRedis, UseSerial
<1>3. LastRaised'
  <2>1. raised \in Seq(Seq(Byte)) /\ Len(<< >>) = 0
    BY EmptySeq DEF TypeInv, StatsInv
  <2>2. Len(raised) \in Nat
    BY <2>1, LenProperties
  <2> QED
    BY <1>1, <2>1, <2>2 DEF LastRaised
<1>4. /\ heard' \in Seq(Seq(Byte)) /\ channel' \in Seq(Seq(Byte))
      /\ IsSubsequence(heard' \o channel', sent')
      /\ ~SerialSends' /\ ~UseRedis' => sent' = << >>
  BY <1>1, <1>2 DEF HeardInv
<1>5. heard' = << >>
  BY <1>1
<1> QED
  BY <1>3, <1>4, <1>5 DEF HeardInv

\* Other steps change nothing of it.
HeardUnchanged == UNCHANGED <<config, sent, raised, heard, slot, channel>>

\* What a slot hears does not change without one of the steps above.
LEMMA HeardKept ==
  ASSUME HeardInv, HeardUnchanged
  PROVE  HeardInv'
<1>1. SerialSends' = SerialSends /\ UseRedis' = UseRedis
  BY DEF HeardUnchanged, SerialSends, UseRedis, UseSerial
<1> QED
  BY <1>1 DEF HeardUnchanged, HeardInv, LastRaised

\* All other steps are such steps.
LEMMA OtherHeard ==
  ASSUME \/ WriteDone \/ Arrive \/ Fault \/ InitLayer \/ StartLayer \/ ReadError
         \/ TestCanceled \/ RunReturns \/ Restart \/ Restarted
         \/ SigIntHandler \/ OnSigInt \/ Cancel \/ StopScheduler \/ JoinHandler
         \/ Connection \/ UNCHANGED vars
  PROVE  HeardUnchanged
<1> USE DEF HeardUnchanged, receiver, sender, redis
<1>1. CASE InitLayer
  BY <1>1 DEF InitLayer
<1>2. CASE StartLayer
  BY <1>2 DEF StartLayer
<1>3. CASE WriteDone \/ Arrive
  BY <1>3 DEF WriteDone, Arrive
<1>4. CASE ReadError
  BY <1>4 DEF ReadError
<1>5. CASE TestCanceled
  BY <1>5 DEF TestCanceled
<1>6. CASE RunReturns
  BY <1>6 DEF RunReturns
<1>7. CASE Restart
  BY <1>7 DEF Restart
<1>8. CASE Restarted
  BY <1>8 DEF Restarted
<1>9. CASE SigIntHandler
  BY <1>9 DEF SigIntHandler
<1>10. CASE OnSigInt
  BY <1>10 DEF OnSigInt
<1>11. CASE Cancel
  BY <1>11 DEF Cancel
<1>12. CASE StopScheduler
  BY <1>12 DEF StopScheduler
<1>13. CASE JoinHandler
  BY <1>13 DEF JoinHandler
<1>14. CASE Connection
  BY <1>14 DEF Connection
<1>15. CASE Fault
  BY <1>15 DEF Fault
<1>16. CASE UNCHANGED vars
  BY <1>16 DEF vars
<1> QED
  BY <1>1, <1>2, <1>3, <1>4, <1>5, <1>6, <1>7, <1>8, <1>9, <1>10, <1>11, <1>12, <1>13, <1>14,
     <1>15, <1>16

\* Every step keeps the order in which packets are heard.
LEMMA HeardStep ==
  ASSUME TypeInv, TypeInv', HeardInv, [Next]_vars
  PROVE  HeardInv'
<1>1. ASSUME NEW p \in Payloads, Send(p) PROVE HeardInv'
  BY <1>1, SendHeard
<1>2. CASE Receive
  BY <1>2, ReceiveHeard
<1>3. CASE OnChannel
  BY <1>3, ChannelHeard
<1>4. CASE Subscribe
  BY <1>4, SubscribeHeard
<1>5. CASE HeardUnchanged
  BY <1>5, HeardKept
<1> QED
  BY <1>1, <1>2, <1>3, <1>4, <1>5, OtherHeard DEF Next

\* Packets are heard at most once and in the order in which they were sent: by a slot
\* that is connected to Redis whatever happens to the serial line and to the connection,
\* since the sender uses both layers but a slot only one of them (IDC::sendPacket,
\* IDC::subscribeOnPacket); and by one that is connected to the serial line as long as no
\* byte is lost, damaged or flushed and the packets are as in LosslessHolds.  (HeardOnce
\* speaks of configurations with a checksum and blocking writes only.)
THEOREM HeardOnceHolds == Spec => [](slot # "serial" \/ Faultless => HeardOnce)
<1> DEFINE Inv == TypeInv /\ (Faultless => LineInv) /\ HeardInv
<1>1. Init => Inv
  BY TypeInit, LineInit, HeardInit
<1>2. Inv /\ [Next]_vars => Inv'
  BY TypeStep, LineStep, HeardStep
<1>3. ASSUME TypeInv, Faultless => LineInv, HeardInv, slot # "serial" \/ Faultless
      PROVE  IsSubsequence(heard, sent)
  <2>1. heard \in Seq(Seq(Byte)) /\ channel \in Seq(Seq(Byte))
    BY <1>3 DEF HeardInv
  <2>2. CASE slot # "serial"
    <3>1. IsSubsequence(heard \o channel, sent)
      BY <1>3, <2>2 DEF HeardInv
    <3> QED
      BY <2>1, <3>1, FirstPart
  <2>3. CASE slot = "serial"
    <3>1. LastRaised /\ LineInv
      BY <1>3, <2>3 DEF HeardInv
    <3>2. PICK h, r, n : h = Len(heard) /\ r = Len(raised) /\ n = Len(sent)
      OBVIOUS
    <3>3. h \in Nat /\ r \in Nat /\ n \in Nat /\ h <= r /\ r <= n
      BY <1>3, <2>1, <3>1, <3>2, LenProperties DEF LastRaised, LineInv, TypeInv, BytesInv, StatsInv
    <3>4. \A i \in 1..h : heard[i] = raised[(r - h) + i]
      BY <3>1, <3>2 DEF LastRaised
    <3>5. \A i \in 1..r : raised[i] = sent[i]
      BY <3>1, <3>2 DEF LineInv
    <3> DEFINE f == [i \in 1..h |-> (r - h) + i]
    <3>6. \A i \in 1..h : f[i] \in 1..r /\ f[i] \in 1..n /\ heard[i] = sent[f[i]]
      BY <3>3, <3>4, <3>5
    <3>7. \A i, k \in 1..h : i < k => f[i] < f[k]
      BY <3>3
    <3>8. f \in [1..h -> 1..n]
      BY <3>6
    <3> HIDE DEF f
    <3>9. InOrder(f, heard, sent)
      BY <3>2, <3>6, <3>7, <3>8 DEF InOrder
    <3> QED
      BY <3>9, Shown
  <2> QED
    BY <2>2, <2>3
<1>4. Inv => (slot # "serial" \/ Faultless => HeardOnce)
  BY <1>3 DEF HeardOnce
<1> QED
  BY <1>1, <1>2, <1>4, PTL DEF Spec
=============================================================================
