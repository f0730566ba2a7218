----------------------------- MODULE Hamming74 -----------------------------
(***************************************************************************)
(* The Hamming (7,4) code: a nibble becomes a codeword of seven bits, in   *)
(* which one wrong bit can be found, and a byte becomes two codewords.     *)
(***************************************************************************)
EXTENDS Integers, Sequences

Bit(v, i) == (v \div 2^i) % 2
Flip(v, i) == IF Bit(v, i) = 1 THEN v - 2^i ELSE v + 2^i

EncodeNibble(data4) ==
  LET d1 == Bit(data4, 0)  d2 == Bit(data4, 1)  d3 == Bit(data4, 2)  d4 == Bit(data4, 3)
      p1 == (d1 + d2 + d4) % 2  p2 == (d1 + d3 + d4) % 2  p3 == (d2 + d3 + d4) % 2
  IN p1 + 2 * p2 + 4 * d1 + 8 * p3 + 16 * d2 + 32 * d3 + 64 * d4

\* the position of the wrong bit, from 1, or 0
\* A slip: the second parity leaves out a bit.
SyndromeShort(c) ==
  LET b(i) == Bit(c, i - 1)
  IN ((b(1) + b(3) + b(5) + b(7)) % 2) + 2 * ((b(2) + b(3) + b(6)) % 2)
       + 4 * ((b(4) + b(5) + b(6) + b(7)) % 2)
Syndrome(c) ==
  LET b(i) == Bit(c, i - 1)
  IN ((b(1) + b(3) + b(5) + b(7)) % 2) + 2 * ((b(2) + b(3) + b(6) + b(7)) % 2)
       + 4 * ((b(4) + b(5) + b(6) + b(7)) % 2)

DecodeNibble(codeword) ==
  LET c == IF Syndrome(codeword) = 0 THEN codeword ELSE Flip(codeword, Syndrome(codeword) - 1)
  IN Bit(c, 2) + 2 * Bit(c, 4) + 4 * Bit(c, 5) + 8 * Bit(c, 6)

\* the lower nibble first
EncodeString(data) ==
  [i \in 1..(2 * Len(data)) |->
     LET byte == data[(i + 1) \div 2] IN EncodeNibble(IF i % 2 = 1 THEN byte % 16 ELSE byte \div 16)]

\* a last codeword without a partner is a byte of its own
DecodeString(codewords) ==
  [i \in 1..((Len(codewords) + 1) \div 2) |->
     DecodeNibble(codewords[2 * i - 1])
       + (IF 2 * i <= Len(codewords) THEN 16 * DecodeNibble(codewords[2 * i]) ELSE 0)]
=============================================================================
