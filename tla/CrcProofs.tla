------------------------------ MODULE CrcProofs ------------------------------
(***************************************************************************)
(* The table of crc.c computes, for bytes of any number and value, the     *)
(* remainder by the polynomial, and meets what FrameCodec assumes of the   *)
(* FCS.                                                                    *)
(*                                                                         *)
(* One byte: Xor is addition of bits, so a sum and one summand determine   *)
(* the other; a shift is a Xor with a constant or none, and its highest    *)
(* bit tells which; the table is eight shifts.  All bytes: the register    *)
(* after n bytes is a recursive function, which exists and is unique by    *)
(* the argument of the least counterexample.                               *)
(***************************************************************************)
EXTENDS FrameCheck, FrameCodecProofs, WellFoundedInduction

(* The bits of an octet. *)
LEMMA Halves ==
  ASSUME NEW a \in Nat
  PROVE  /\ a \div 2 \in Nat /\ a % 2 \in {0, 1}
         /\ a = 2 * (a \div 2) + (a % 2)
  OBVIOUS

LEMMA Quarters ==
  ASSUME NEW a \in Nat
  PROVE  /\ a \div 4 = (a \div 2) \div 2
         /\ a \div 8 = (a \div 4) \div 2
         /\ a \div 16 = (a \div 8) \div 2
         /\ a \div 32 = (a \div 16) \div 2
         /\ a \div 64 = (a \div 32) \div 2
         /\ a \div 128 = (a \div 64) \div 2
<1>1. a \div 4 = (a \div 2) \div 2
  OBVIOUS
<1>2. a \div 8 = (a \div 4) \div 2
  OBVIOUS
<1>3. a \div 16 = (a \div 8) \div 2
  OBVIOUS
<1>4. a \div 32 = (a \div 16) \div 2
  OBVIOUS
<1>5. a \div 64 = (a \div 32) \div 2
  OBVIOUS
<1>6. a \div 128 = (a \div 64) \div 2
  OBVIOUS
<1> QED BY <1>1, <1>2, <1>3, <1>4, <1>5, <1>6

LEMMA OctetBits ==
  ASSUME NEW a \in Octet
  PROVE  /\ \A i \in 0 .. 7 : Bit(a, i) \in {0, 1}
         /\ a = Bit(a, 0) + 2 * Bit(a, 1) + 4 * Bit(a, 2) + 8 * Bit(a, 3)
                  + 16 * Bit(a, 4) + 32 * Bit(a, 5) + 64 * Bit(a, 6)
                  + 128 * Bit(a, 7)
<1>1. /\ Bit(a, 0) = a % 2
      /\ Bit(a, 1) = (a \div 2) % 2
      /\ Bit(a, 2) = (a \div 4) % 2
      /\ Bit(a, 3) = (a \div 8) % 2
      /\ Bit(a, 4) = (a \div 16) % 2
      /\ Bit(a, 5) = (a \div 32) % 2
      /\ Bit(a, 6) = (a \div 64) % 2
      /\ Bit(a, 7) = (a \div 128) % 2
  BY DEF Bit, Octet
<1>2. \A i \in {0, 1, 2, 3, 4, 5, 6, 7} : Bit(a, i) \in {0, 1}
  BY <1>1, SMTT(30) DEF Octet
<1> DEFINE h1 == a \div 2
           h2 == a \div 4
           h3 == a \div 8
           h4 == a \div 16
           h5 == a \div 32
           h6 == a \div 64
           h7 == a \div 128
<1>3. /\ a \in Nat /\ h1 \in Nat /\ h2 \in Nat /\ h3 \in Nat /\ h4 \in Nat
      /\ h5 \in Nat /\ h6 \in Nat /\ h7 \in 0 .. 1
  BY DEF Octet
<1>4. /\ h2 = h1 \div 2 /\ h3 = h2 \div 2 /\ h4 = h3 \div 2
      /\ h5 = h4 \div 2 /\ h6 = h5 \div 2 /\ h7 = h6 \div 2
  BY <1>3, Quarters
<1>5. a = 2 * h1 + Bit(a, 0)
  BY <1>1, <1>3, Halves
<1> HIDE DEF h1, h2, h3, h4, h5, h6, h7
<1>6. /\ h1 = 2 * h2 + (h1 % 2)
      /\ h2 = 2 * h3 + (h2 % 2)
      /\ h3 = 2 * h4 + (h3 % 2)
      /\ h4 = 2 * h5 + (h4 % 2)
      /\ h5 = 2 * h6 + (h5 % 2)
      /\ h6 = 2 * h7 + (h6 % 2)
  BY <1>3, <1>4, Halves
<1>7. h7 = h7 % 2
  BY <1>3
<1>8. /\ Bit(a, 1) = h1 % 2 /\ Bit(a, 2) = h2 % 2 /\ Bit(a, 3) = h3 % 2
      /\ Bit(a, 4) = h4 % 2 /\ Bit(a, 5) = h5 % 2 /\ Bit(a, 6) = h6 % 2
      /\ Bit(a, 7) = h7 % 2
  BY <1>1 DEF h1, h2, h3, h4, h5, h6, h7
<1>9. /\ h1 = 2 * h2 + Bit(a, 1) /\ h2 = 2 * h3 + Bit(a, 2)
      /\ h3 = 2 * h4 + Bit(a, 3) /\ h4 = 2 * h5 + Bit(a, 4)
      /\ h5 = 2 * h6 + Bit(a, 5) /\ h6 = 2 * h7 + Bit(a, 6) /\ h7 = Bit(a, 7)
  BY <1>6, <1>7, <1>8
<1>10. \A i \in 0 .. 7 : Bit(a, i) \in {0, 1}
  BY <1>2
<1>11. /\ Bit(a, 0) \in Int /\ Bit(a, 1) \in Int /\ Bit(a, 2) \in Int
       /\ Bit(a, 3) \in Int /\ Bit(a, 4) \in Int /\ Bit(a, 5) \in Int
       /\ Bit(a, 6) \in Int /\ Bit(a, 7) \in Int
  BY <1>10
<1>12. h4 = Bit(a, 4) + 2 * Bit(a, 5) + 4 * Bit(a, 6) + 8 * Bit(a, 7)
  BY <1>3, <1>9, <1>11
<1>13. a = Bit(a, 0) + 2 * Bit(a, 1) + 4 * Bit(a, 2) + 8 * Bit(a, 3) + 16 * h4
  BY <1>3, <1>5, <1>9, <1>11
<1>14. a = Bit(a, 0) + 2 * Bit(a, 1) + 4 * Bit(a, 2) + 8 * Bit(a, 3)
             + 16 * Bit(a, 4) + 32 * Bit(a, 5) + 64 * Bit(a, 6)
             + 128 * Bit(a, 7)
  BY <1>3, <1>11, <1>12, <1>13
<1> QED BY <1>10, <1>14

LEMMA FromBits ==
  ASSUME NEW b0 \in {0, 1}, NEW b1 \in {0, 1}, NEW b2 \in {0, 1},
         NEW b3 \in {0, 1}, NEW b4 \in {0, 1}, NEW b5 \in {0, 1},
         NEW b6 \in {0, 1}, NEW b7 \in {0, 1}
  PROVE  b0 + 2 * b1 + 4 * b2 + 8 * b3 + 16 * b4 + 32 * b5 + 64 * b6 + 128 * b7
           \in Octet
  BY DEF Octet

LEMMA LowBit ==
  ASSUME NEW x \in Int, NEW y \in Int, NEW b \in {0, 1}, NEW c \in {0, 1},
         2 * x + b = 2 * y + c
  PROVE  b = c /\ x = y
  OBVIOUS

(* Bits of the same number are the same bits. *)
LEMMA SameBits ==
  ASSUME NEW b \in [0 .. 7 -> {0, 1}], NEW c \in [0 .. 7 -> {0, 1}],
         b[0] + 2 * b[1] + 4 * b[2] + 8 * b[3]
           + 16 * b[4] + 32 * b[5] + 64 * b[6] + 128 * b[7]
         = c[0] + 2 * c[1] + 4 * c[2] + 8 * c[3]
             + 16 * c[4] + 32 * c[5] + 64 * c[6] + 128 * c[7]
  PROVE  \A i \in 0 .. 7 : b[i] = c[i]
<1>1. /\ b[0] \in {0, 1} /\ b[1] \in {0, 1} /\ b[2] \in {0, 1} /\ b[3] \in {0, 1}
      /\ b[4] \in {0, 1} /\ b[5] \in {0, 1} /\ b[6] \in {0, 1} /\ b[7] \in {0, 1}
      /\ c[0] \in {0, 1} /\ c[1] \in {0, 1} /\ c[2] \in {0, 1} /\ c[3] \in {0, 1}
      /\ c[4] \in {0, 1} /\ c[5] \in {0, 1} /\ c[6] \in {0, 1} /\ c[7] \in {0, 1}
  OBVIOUS
<1> DEFINE b6 == b[6] + 2 * b[7]
           b5 == b[5] + 2 * b6
           b4 == b[4] + 2 * b5
           b3 == b[3] + 2 * b4
           b2 == b[2] + 2 * b3
           b1 == b[1] + 2 * b2
           c6 == c[6] + 2 * c[7]
           c5 == c[5] + 2 * c6
           c4 == c[4] + 2 * c5
           c3 == c[3] + 2 * c4
           c2 == c[2] + 2 * c3
           c1 == c[1] + 2 * c2
<1>2. b6 \in Int /\ c6 \in Int
  BY <1>1
<1> HIDE DEF b6, c6
<1>3. b5 \in Int /\ c5 \in Int
  BY <1>1, <1>2
<1> HIDE DEF b5, c5
<1>4. b4 \in Int /\ c4 \in Int
  BY <1>1, <1>3
<1> HIDE DEF b4, c4
<1>5. b3 \in Int /\ c3 \in Int
  BY <1>1, <1>4
<1> HIDE DEF b3, c3
<1>6. b2 \in Int /\ c2 \in Int
  BY <1>1, <1>5
<1> HIDE DEF b2, c2
<1>7. b1 \in Int /\ c1 \in Int
  BY <1>1, <1>6
<1> HIDE DEF b1, c1
<1>8. 2 * b1 + b[0] = 2 * c1 + c[0]
  BY <1>1 DEF b1, b2, b3, b4, b5, b6, c1, c2, c3, c4, c5, c6
<1>9. b[0] = c[0] /\ b1 = c1
  BY <1>1, <1>7, <1>8, LowBit
<1>10. b[1] = c[1] /\ b2 = c2
  <2>1. 2 * b2 + b[1] = 2 * c2 + c[1]
    BY <1>1, <1>6, <1>9 DEF b1, c1
  <2> QED BY <1>1, <1>6, <2>1, LowBit
<1>11. b[2] = c[2] /\ b3 = c3
  <2>1. 2 * b3 + b[2] = 2 * c3 + c[2]
    BY <1>1, <1>5, <1>10 DEF b2, c2
  <2> QED BY <1>1, <1>5, <2>1, LowBit
<1>12. b[3] = c[3] /\ b4 = c4
  <2>1. 2 * b4 + b[3] = 2 * c4 + c[3]
    BY <1>1, <1>4, <1>11 DEF b3, c3
  <2> QED BY <1>1, <1>4, <2>1, LowBit
<1>13. b[4] = c[4] /\ b5 = c5
  <2>1. 2 * b5 + b[4] = 2 * c5 + c[4]
    BY <1>1, <1>3, <1>12 DEF b4, c4
  <2> QED BY <1>1, <1>3, <2>1, LowBit
<1>14. b[5] = c[5] /\ b6 = c6
  <2>1. 2 * b6 + b[5] = 2 * c6 + c[5]
    BY <1>1, <1>2, <1>13 DEF b5, c5
  <2> QED BY <1>1, <1>2, <2>1, LowBit
<1>15. b[6] = c[6] /\ b[7] = c[7]
  BY <1>1, <1>14 DEF b6, c6
<1>16. \A i \in {0, 1, 2, 3, 4, 5, 6, 7} : b[i] = c[i]
  BY <1>9, <1>10, <1>11, <1>12, <1>13, <1>14, <1>15
<1> QED BY <1>16

(* a ^ b, and that it can be undone. *)
SumBits(a, b) == [i \in 0 .. 7 |-> (Bit(a, i) + Bit(b, i)) % 2]

LEMMA XorBits ==
  ASSUME NEW a \in Octet, NEW b \in Octet
  PROVE  LET d == SumBits(a, b)
         IN  /\ d \in [0 .. 7 -> {0, 1}]
             /\ Xor(a, b) = d[0] + 2 * d[1] + 4 * d[2] + 8 * d[3]
                              + 16 * d[4] + 32 * d[5] + 64 * d[6] + 128 * d[7]
<1>1. \A i \in 0 .. 7 : (Bit(a, i) + Bit(b, i)) % 2 \in {0, 1}
  BY OctetBits
<1>2. SumBits(a, b) \in [0 .. 7 -> {0, 1}]
  BY <1>1 DEF SumBits
<1>3. \A i \in 0 .. 7 : SumBits(a, b)[i] = (Bit(a, i) + Bit(b, i)) % 2
  BY DEF SumBits
<1> QED BY <1>2, <1>3 DEF Xor

LEMMA XorOctet ==
  ASSUME NEW a \in Octet, NEW b \in Octet
  PROVE  Xor(a, b) \in Octet
<1> DEFINE d == SumBits(a, b)
<1>1. d \in [0 .. 7 -> {0, 1}]
  BY XorBits
<1>2. /\ d[0] \in {0, 1} /\ d[1] \in {0, 1} /\ d[2] \in {0, 1} /\ d[3] \in {0, 1}
      /\ d[4] \in {0, 1} /\ d[5] \in {0, 1} /\ d[6] \in {0, 1} /\ d[7] \in {0, 1}
  BY <1>1
<1>3. Xor(a, b) = d[0] + 2 * d[1] + 4 * d[2] + 8 * d[3]
                    + 16 * d[4] + 32 * d[5] + 64 * d[6] + 128 * d[7]
  BY XorBits
<1> HIDE DEF d
<1> QED BY <1>2, <1>3, FromBits

LEMMA XorCommutes ==
  ASSUME NEW a \in Octet, NEW b \in Octet
  PROVE  Xor(a, b) = Xor(b, a)
<1>1. \A i \in 0 .. 7 : Bit(a, i) + Bit(b, i) = Bit(b, i) + Bit(a, i)
  BY OctetBits
<1>2. SumBits(a, b) = SumBits(b, a)
  BY <1>1 DEF SumBits
<1> QED BY <1>2, XorBits

LEMMA XorCancels ==
  ASSUME NEW a \in Octet, NEW b \in Octet, NEW c \in Octet,
         Xor(a, b) = Xor(a, c)
  PROVE  b = c
<1>1. \A i \in 0 .. 7 : SumBits(a, b)[i] = SumBits(a, c)[i]
  <2> DEFINE d == SumBits(a, b)
             e == SumBits(a, c)
  <2>1. d \in [0 .. 7 -> {0, 1}] /\ e \in [0 .. 7 -> {0, 1}]
    BY XorBits
  <2>2. d[0] + 2 * d[1] + 4 * d[2] + 8 * d[3]
          + 16 * d[4] + 32 * d[5] + 64 * d[6] + 128 * d[7]
        = e[0] + 2 * e[1] + 4 * e[2] + 8 * e[3]
            + 16 * e[4] + 32 * e[5] + 64 * e[6] + 128 * e[7]
    <3>1. Xor(a, b) = d[0] + 2 * d[1] + 4 * d[2] + 8 * d[3]
                       + 16 * d[4] + 32 * d[5] + 64 * d[6] + 128 * d[7]
      BY XorBits
    <3>2. Xor(a, c) = e[0] + 2 * e[1] + 4 * e[2] + 8 * e[3]
                       + 16 * e[4] + 32 * e[5] + 64 * e[6] + 128 * e[7]
      BY XorBits
    <3> HIDE DEF d, e
    <3> QED BY <3>1, <3>2
  <2> HIDE DEF d, e
  <2>3. \A i \in 0 .. 7 : d[i] = e[i]
    BY <2>1, <2>2, SameBits
  <2> QED BY <2>3 DEF d, e
<1>2. ASSUME NEW i \in 0 .. 7
      PROVE  Bit(b, i) = Bit(c, i)
  <2>1. (Bit(a, i) + Bit(b, i)) % 2 = (Bit(a, i) + Bit(c, i)) % 2
    BY <1>1 DEF SumBits
  <2>2. Bit(a, i) \in {0, 1} /\ Bit(b, i) \in {0, 1} /\ Bit(c, i) \in {0, 1}
    BY OctetBits
  <2> QED BY <2>1, <2>2
<1>3. /\ Bit(b, 0) = Bit(c, 0) /\ Bit(b, 1) = Bit(c, 1) /\ Bit(b, 2) = Bit(c, 2)
      /\ Bit(b, 3) = Bit(c, 3) /\ Bit(b, 4) = Bit(c, 4) /\ Bit(b, 5) = Bit(c, 5)
      /\ Bit(b, 6) = Bit(c, 6) /\ Bit(b, 7) = Bit(c, 7)
  BY <1>2
<1>4. b = Bit(b, 0) + 2 * Bit(b, 1) + 4 * Bit(b, 2) + 8 * Bit(b, 3)
            + 16 * Bit(b, 4) + 32 * Bit(b, 5) + 64 * Bit(b, 6) + 128 * Bit(b, 7)
  BY OctetBits
<1>5. c = Bit(c, 0) + 2 * Bit(c, 1) + 4 * Bit(c, 2) + 8 * Bit(c, 3)
            + 16 * Bit(c, 4) + 32 * Bit(c, 5) + 64 * Bit(c, 6) + 128 * Bit(c, 7)
  BY OctetBits
<1> QED BY <1>3, <1>4, <1>5

----------------------------------------------------------------------------
(* The shift of an odd octet adds the polynomial, whose highest bit is set. *)
LEMMA ShiftValue ==
  ASSUME NEW a \in Octet
  PROVE  Shift(a) = IF a % 2 = 0 THEN a \div 2
                    ELSE (a \div 2) + 128
                           + (IF (a \div 128) % 2 = 1 THEN -64 ELSE 64)
                           + (IF (a \div 64) % 2 = 1 THEN -32 ELSE 32)
<1>1. a \in Nat /\ a % 2 \in {0, 1} /\ a \div 2 \in Nat
  BY DEF Octet
<1>2. CASE a % 2 = 0
  BY <1>1, <1>2 DEF Shift
<1>3. CASE a % 2 = 1
  <2> DEFINE h == a \div 2
             d == SumBits(h, 224)
  <2>1. h \in Octet /\ h <= 127
    BY DEF Octet
  <2>2. Bit(h, 7) = 0
    BY <2>1 DEF Bit, Octet
  <2>3. Bit(h, 6) = (a \div 128) % 2 /\ Bit(h, 5) = (a \div 64) % 2
    BY DEF Bit, Octet
  <2>4. /\ Bit(224, 0) = 0 /\ Bit(224, 1) = 0 /\ Bit(224, 2) = 0
        /\ Bit(224, 3) = 0 /\ Bit(224, 4) = 0
        /\ Bit(224, 5) = 1 /\ Bit(224, 6) = 1 /\ Bit(224, 7) = 1
    BY DEF Bit
  <2> HIDE DEF h
  <2>5. /\ Bit(h, 0) \in {0, 1} /\ Bit(h, 1) \in {0, 1} /\ Bit(h, 2) \in {0, 1}
        /\ Bit(h, 3) \in {0, 1} /\ Bit(h, 4) \in {0, 1} /\ Bit(h, 5) \in {0, 1}
        /\ Bit(h, 6) \in {0, 1}
    BY <2>1, OctetBits
  <2>6. \A i \in 0 .. 7 : d[i] = (Bit(h, i) + Bit(224, i)) % 2
    BY DEF SumBits
  <2> HIDE DEF d
  <2>7. /\ d[0] = Bit(h, 0) /\ d[1] = Bit(h, 1) /\ d[2] = Bit(h, 2)
        /\ d[3] = Bit(h, 3) /\ d[4] = Bit(h, 4)
        /\ d[5] = 1 - Bit(h, 5) /\ d[6] = 1 - Bit(h, 6) /\ d[7] = 1
    BY <2>2, <2>4, <2>5, <2>6
  <2>8. Xor(h, 224) = d[0] + 2 * d[1] + 4 * d[2] + 8 * d[3]
                        + 16 * d[4] + 32 * d[5] + 64 * d[6] + 128 * d[7]
    <3>1. 224 \in Octet
      BY DEF Octet
    <3> QED BY <2>1, <3>1, XorBits DEF d
  <2>9. h = Bit(h, 0) + 2 * Bit(h, 1) + 4 * Bit(h, 2) + 8 * Bit(h, 3)
              + 16 * Bit(h, 4) + 32 * Bit(h, 5) + 64 * Bit(h, 6)
              + 128 * Bit(h, 7)
    BY <2>1, OctetBits
  <2>10. Xor(h, 224) = h + 128 + 32 * (1 - 2 * Bit(h, 5)) + 64 * (1 - 2 * Bit(h, 6))
    BY <2>1, <2>2, <2>5, <2>7, <2>8, <2>9 DEF Octet
  <2>11. Xor(h, 224) = h + 128 + (IF Bit(h, 6) = 1 THEN -64 ELSE 64)
                         + (IF Bit(h, 5) = 1 THEN -32 ELSE 32)
    BY <2>1, <2>5, <2>10 DEF Octet
  <2>12. Shift(a) = Xor(h, 224)
    BY <1>3 DEF Shift, h
  <2> QED BY <1>3, <2>3, <2>11, <2>12 DEF h
<1> QED BY <1>1, <1>2, <1>3

LEMMA ShiftOctet ==
  ASSUME NEW a \in Octet
  PROVE  Shift(a) \in Octet
<1>1. a \div 2 \in Octet /\ 224 \in Octet
  BY DEF Octet
<1> QED BY <1>1, XorOctet DEF Shift

(* No two octets are shifted to the same one: the highest bit of the       *)
(* result is the bit that was shifted out.                                 *)
LEMMA ShiftInjective ==
  ASSUME NEW a \in Octet, NEW b \in Octet, Shift(a) = Shift(b)
  PROVE  a = b
<1>1. /\ a \in Nat /\ a \div 2 \in 0 .. 127 /\ a % 2 \in {0, 1}
      /\ a = 2 * (a \div 2) + (a % 2)
  BY Halves DEF Octet
<1>2. /\ b \in Nat /\ b \div 2 \in 0 .. 127 /\ b % 2 \in {0, 1}
      /\ b = 2 * (b \div 2) + (b % 2)
  BY Halves DEF Octet
<1>3. \A x \in Octet :
        /\ x % 2 = 0 => Shift(x) <= 127
        /\ x % 2 = 1 => Shift(x) >= 128
  <2> TAKE x \in Octet
  <2>1. x \div 2 \in 0 .. 127 /\ x % 2 \in {0, 1}
    BY DEF Octet
  <2>2. CASE x % 2 = 0
    BY <2>1, <2>2, ShiftValue
  <2>3. CASE x % 2 = 1
    <3>1. (x \div 128) % 2 = 1 => x \div 2 >= 64
      BY DEF Octet
    <3>2. (x \div 64) % 2 = 1 /\ (x \div 128) % 2 = 1 => x \div 2 >= 96
      BY DEF Octet
    <3>3. (x \div 64) % 2 = 1 => x \div 2 >= 32
      BY DEF Octet
    <3> QED BY <2>1, <2>3, <3>1, <3>2, <3>3, ShiftValue
  <2> QED BY <2>1, <2>2, <2>3
<1>4. a % 2 = b % 2
  <2> DEFINE c == Shift(a)
  <2>1. c \in Octet
    BY ShiftOctet
  <2>2. /\ a % 2 = 0 => c <= 127
        /\ a % 2 = 1 => c >= 128
        /\ b % 2 = 0 => c <= 127
        /\ b % 2 = 1 => c >= 128
    BY <1>3
  <2> HIDE DEF c
  <2>3. c \in Nat
    BY <2>1 DEF Octet
  <2> QED BY <1>1, <1>2, <2>2, <2>3
<1>5. a \div 2 = b \div 2
  <2>1. CASE a % 2 = 0
    BY <1>4, <2>1 DEF Shift
  <2>2. CASE a % 2 = 1
    <3>1. Xor(a \div 2, 224) = Xor(b \div 2, 224)
      BY <1>4, <2>2 DEF Shift
    <3>2. a \div 2 \in Octet /\ b \div 2 \in Octet /\ 224 \in Octet
      BY <1>1, <1>2 DEF Octet
    <3>3. Xor(224, a \div 2) = Xor(224, b \div 2)
      BY <3>1, <3>2, XorCommutes
    <3> QED BY <3>2, <3>3, XorCancels
  <2> QED BY <1>1, <2>1, <2>2
<1> QED BY <1>1, <1>2, <1>4, <1>5

LEMMA EightShiftsOctet ==
  ASSUME NEW a \in Octet
  PROVE  EightShifts(a) \in Octet
  BY ShiftOctet DEF EightShifts

LEMMA EightShiftsInjective ==
  ASSUME NEW a \in Octet, NEW b \in Octet, EightShifts(a) = EightShifts(b)
  PROVE  a = b
<1> DEFINE Two(x) == Shift(Shift(x))
           Four(x) == Two(Two(x))
<1>1. ASSUME NEW x \in Octet, NEW y \in Octet, Two(x) = Two(y)
      PROVE  x = y
  BY <1>1, ShiftOctet, ShiftInjective
<1>2. \A x \in Octet : Two(x) \in Octet
  BY ShiftOctet
<1> HIDE DEF Two
<1>3. ASSUME NEW x \in Octet, NEW y \in Octet, Four(x) = Four(y)
      PROVE  x = y
  BY <1>1, <1>2, <1>3
<1>4. \A x \in Octet : Four(x) \in Octet
  BY <1>2
<1>5. Four(Four(a)) = Four(Four(b))
  BY DEF EightShifts, Two
<1> HIDE DEF Four
<1> QED BY <1>3, <1>4, <1>5

(* The table, entry by entry. *)
THEOREM TableIsEightShifts ==
  \A a \in Octet : CrcTable[a + 1] = EightShifts(a)
<1>1. \A a \in Octet :
        Shift(a) = IF a % 2 = 0 THEN a \div 2
                   ELSE (a \div 2) + 128
                          + (IF (a \div 128) % 2 = 1 THEN -64 ELSE 64)
                          + (IF (a \div 64) % 2 = 1 THEN -32 ELSE 32)
  BY ShiftValue
<1> QED BY <1>1 DEF EightShifts, CrcTable, Octet

----------------------------------------------------------------------------
(* All bytes.  What holds before the first byte and survives each of N     *)
(* bytes holds to the end: else it would fail first at some byte.          *)
LEMMA ByteByByte ==
  ASSUME NEW N \in Nat, NEW S, 0 \in S,
         \A n \in 1 .. N : n - 1 \in S => n \in S
  PROVE  \A n \in 0 .. N : n \in S
<1> SUFFICES ASSUME NEW j \in 0 .. N, j \notin S
             PROVE  FALSE
  OBVIOUS
<1> DEFINE T == {n \in 0 .. N : n \notin S}
<1>1. T \subseteq Nat /\ T # {}
  OBVIOUS
<1>2. PICK m \in T : \A k \in T : ~(<<k, m>> \in OpToRel(<, Nat))
  BY <1>1, NatLessThanWellFounded, WFMin
<1>3. m \in 1 .. N /\ m \in Nat /\ m \notin S
  OBVIOUS
<1>4. m - 1 \in Nat /\ m - 1 \in 0 .. N /\ m - 1 < m
  BY <1>3
<1>5. m - 1 \notin T
  <2>1. <<m - 1, m>> \in OpToRel(<, Nat)
    BY <1>3, <1>4 DEF OpToRel
  <2> QED BY <1>2, <2>1
<1>6. m - 1 \in S
  BY <1>4, <1>5
<1> QED BY <1>3, <1>6

(* f holds the register of the remainder after each byte of s. *)
IsRegister(f, s) ==
  /\ f \in [0 .. Len(s) -> Octet]
  /\ f[0] = 255
  /\ \A n \in 1 .. Len(s) : f[n] = EightShifts(Xor(f[n - 1], s[n]))

LEMMA RegisterExists ==
  ASSUME NEW s \in Seq(Octet)
  PROVE  \E f : IsRegister(f, s)
<1> DEFINE N == Len(s)
           Upto(f, m) == /\ f \in [0 .. m -> Octet]
                         /\ f[0] = 255
                         /\ \A n \in 1 .. m : f[n] = EightShifts(Xor(f[n - 1], s[n]))
           S == {m \in 0 .. N : \E f : Upto(f, m)}
<1>1. N \in Nat
  BY LenProperties
<1>2. 0 \in S
  <2>1. Upto([n \in 0 .. 0 |-> 255], 0)
    BY DEF Octet
  <2> HIDE DEF Upto
  <2> QED BY <1>1, <2>1
<1>3. ASSUME NEW m \in 1 .. N, m - 1 \in S
      PROVE  m \in S
  <2>1. PICK f : Upto(f, m - 1)
    BY <1>3
  <2>2. m \in Nat /\ m - 1 \in 0 .. m - 1 /\ 0 \in 0 .. m - 1
    BY <1>1
  <2>3. s[m] \in Octet
    BY <1>1, ElementOfSeq
  <2> DEFINE v == EightShifts(Xor(f[m - 1], s[m]))
             g == [n \in 0 .. m |-> IF n = m THEN v ELSE f[n]]
  <2>4. v \in Octet
    <3>1. f[m - 1] \in Octet
      BY <2>1, <2>2
    <3> QED BY <2>3, <3>1, XorOctet, EightShiftsOctet
  <2>5. g \in [0 .. m -> Octet]
    <3>1. \A n \in 0 .. m : n # m => n \in 0 .. m - 1
      BY <2>2
    <3> HIDE DEF v
    <3> QED BY <2>1, <2>4, <3>1
  <2>6. g[0] = 255
    BY <2>1, <2>2
  <2>7. ASSUME NEW n \in 1 .. m
        PROVE  g[n] = EightShifts(Xor(g[n - 1], s[n]))
    <3>1. n - 1 \in 0 .. m /\ n - 1 # m /\ n \in 0 .. m
      BY <2>2
    <3>2. g[n - 1] = f[n - 1]
      BY <3>1
    <3>3. CASE n = m
      BY <3>1, <3>2, <3>3
    <3>4. CASE n # m
      <4>1. n \in 1 .. m - 1
        BY <2>2, <3>4
      <4>2. f[n] = EightShifts(Xor(f[n - 1], s[n]))
        BY <2>1, <4>1
      <4>3. g[n] = f[n]
        BY <3>1, <3>4
      <4> QED BY <3>2, <4>2, <4>3
    <3> QED BY <3>3, <3>4
  <2> HIDE DEF g
  <2>8. Upto(g, m)
    BY <2>5, <2>6, <2>7
  <2> HIDE DEF Upto
  <2>9. m \in 0 .. N
    BY <1>1
  <2> QED BY <2>8, <2>9
<1>4. N \in S
  <2> HIDE DEF S, N
  <2>1. \A n \in 0 .. N : n \in S
    BY <1>1, <1>2, <1>3, ByteByByte
  <2> QED BY <1>1, <2>1
<1> QED BY <1>4 DEF IsRegister

(* A function that satisfies the recursion of the register is the register. *)
LEMMA RegisterUnique ==
  ASSUME NEW s \in Seq(Octet), NEW f, IsRegister(f, s), NEW g, g[0] = 255,
         \A n \in 1 .. Len(s) :
           f[n - 1] = g[n - 1] => g[n] = EightShifts(Xor(g[n - 1], s[n]))
  PROVE  g[Len(s)] = f[Len(s)]
<1> DEFINE N == Len(s)
           S == {m \in 0 .. N : f[m] = g[m]}
<1>1. N \in Nat
  BY LenProperties
<1>2. 0 \in S
  BY <1>1 DEF IsRegister
<1>3. ASSUME NEW m \in 1 .. N, m - 1 \in S
      PROVE  m \in S
  <2>1. f[m - 1] = g[m - 1] /\ m \in 0 .. N
    BY <1>3
  <2> QED BY <2>1 DEF IsRegister
<1>4. N \in S
  <2> HIDE DEF S, N
  <2>1. \A n \in 0 .. N : n \in S
    BY <1>1, <1>2, <1>3, ByteByByte
  <2> QED BY <1>1, <2>1
<1> QED BY <1>4

(* What the two recursions leave, complemented, is Remainder and Crc. *)
LEMMA RemainderRegister ==
  ASSUME NEW s \in Seq(Octet), NEW f, IsRegister(f, s)
  PROVE  Remainder(s) = 255 - f[Len(s)]
<1> DEFINE N == Len(s)
           P(g) == g = [n \in 0 .. N |->
                          IF n = 0 THEN 255 ELSE EightShifts(Xor(g[n - 1], s[n]))]
           g == CHOOSE h : P(h)
<1>1. N \in Nat
  BY LenProperties
<1>2. P(f)
  <2> DEFINE h == [n \in 0 .. N |->
                     IF n = 0 THEN 255 ELSE EightShifts(Xor(f[n - 1], s[n]))]
  <2>1. f \in [0 .. N -> Octet]
    BY DEF IsRegister
  <2>2. ASSUME NEW n \in 0 .. N PROVE f[n] = h[n]
    <3>1. n = 0 \/ n \in 1 .. N
      BY <1>1
    <3> QED BY <3>1 DEF IsRegister
  <2>3. f = [n \in 0 .. N |-> f[n]]
    BY <2>1
  <2> QED BY <2>2, <2>3
<1>3. P(g)
  BY <1>2
<1>4. Remainder(s) = 255 - g[N]
  BY DEF Remainder
<1> HIDE DEF g
<1>5. g[0] = 255
  BY <1>1, <1>3
<1>6. \A n \in 1 .. N : g[n] = EightShifts(Xor(g[n - 1], s[n]))
  BY <1>1, <1>3
<1>7. g[N] = f[N]
  BY <1>5, <1>6, RegisterUnique
<1> QED BY <1>4, <1>7

LEMMA CrcRegister ==
  ASSUME NEW s \in Seq(Octet), NEW f, IsRegister(f, s)
  PROVE  Crc(s) = 255 - f[Len(s)]
<1> DEFINE N == Len(s)
           P(g) == g = [n \in 0 .. N |->
                          IF n = 0 THEN 255 ELSE CrcTable[Xor(g[n - 1], s[n]) + 1]]
           g == CHOOSE h : P(h)
<1>1. N \in Nat
  BY LenProperties
<1>2. ASSUME NEW a \in Octet, NEW n \in 1 .. N
      PROVE  CrcTable[Xor(a, s[n]) + 1] = EightShifts(Xor(a, s[n]))
  <2>1. s[n] \in Octet
    BY <1>1, ElementOfSeq
  <2>2. Xor(a, s[n]) \in Octet
    BY <2>1, XorOctet
  <2> QED BY <2>2, TableIsEightShifts
<1>3. \A n \in 1 .. N : f[n - 1] \in Octet
  <2>1. \A n \in 1 .. N : n - 1 \in 0 .. N
    BY <1>1
  <2> QED BY <2>1 DEF IsRegister
<1>4. P(f)
  <2> DEFINE h == [n \in 0 .. N |->
                     IF n = 0 THEN 255 ELSE CrcTable[Xor(f[n - 1], s[n]) + 1]]
  <2>1. f \in [0 .. N -> Octet]
    BY DEF IsRegister
  <2>2. ASSUME NEW n \in 0 .. N PROVE f[n] = h[n]
    <3>1. n = 0 \/ n \in 1 .. N
      BY <1>1
    <3> QED BY <1>2, <1>3, <3>1 DEF IsRegister
  <2>3. f = [n \in 0 .. N |-> f[n]]
    BY <2>1
  <2> QED BY <2>2, <2>3
<1>5. P(g)
  BY <1>4
<1>6. Crc(s) = 255 - g[N]
  BY DEF Crc
<1> HIDE DEF g
<1>7. g[0] = 255
  BY <1>1, <1>5
<1>8. ASSUME NEW n \in 1 .. N, f[n - 1] = g[n - 1]
      PROVE  g[n] = EightShifts(Xor(g[n - 1], s[n]))
  <2>1. g[n] = CrcTable[Xor(g[n - 1], s[n]) + 1]
    BY <1>1, <1>5
  <2>2. g[n - 1] \in Octet
    BY <1>3, <1>8
  <2> QED BY <1>2, <2>1, <2>2
<1>9. g[N] = f[N]
  BY <1>7, <1>8, RegisterUnique
<1> QED BY <1>6, <1>9

(* The loop of cmux_crc with its table computes the remainder by the       *)
(* polynomial of every sequence of bytes.                                  *)
THEOREM CrcIsRemainder == \A s \in Seq(Octet) : Crc(s) = Remainder(s)
<1> TAKE s \in Seq(Octet)
<1>1. PICK f : IsRegister(f, s)
  BY RegisterExists
<1> QED BY <1>1, RemainderRegister, CrcRegister

LEMMA CrcOctet ==
  ASSUME NEW s \in Seq(Octet)
  PROVE  Crc(s) \in Octet
<1>1. PICK f : IsRegister(f, s)
  BY RegisterExists
<1>2. f[Len(s)] \in Octet
  <2>1. Len(s) \in 0 .. Len(s)
    BY LenProperties
  <2> QED BY <1>1, <2>1 DEF IsRegister
<1>3. Crc(s) = 255 - f[Len(s)]
  BY <1>1, CrcRegister
<1>4. \A x \in Octet : 255 - x \in Octet
  BY DEF Octet
<1> QED BY <1>2, <1>3, <1>4

(* A byte changed anywhere changes the FCS: the registers differ after it, *)
(* and no later byte makes different registers equal.                      *)
THEOREM CrcTellsBytes ==
  ASSUME NEW s \in Seq(Octet), NEW k \in 1 .. Len(s), NEW b \in Octet,
         s[k] # b
  PROVE  Crc([s EXCEPT ![k] = b]) # Crc(s)
<1> DEFINE N == Len(s)
           t == [s EXCEPT ![k] = b]
<1>1. N \in Nat
  BY LenProperties
<1>2. t \in Seq(Octet) /\ Len(t) = N
  BY ExceptSeq
<1>3. t[k] = b /\ \A n \in 1 .. N : n # k => t[n] = s[n]
  BY <1>1, LenProperties
<1>4. \A n \in 1 .. N : s[n] \in Octet /\ t[n] \in Octet
  <2> HIDE DEF t
  <2> QED BY <1>2, ElementOfSeq
<1> HIDE DEF t
<1>5. PICK f : IsRegister(f, s)
  BY RegisterExists
<1>6. PICK g : IsRegister(g, t)
  BY <1>2, RegisterExists
<1>7. /\ f[0] = 255 /\ g[0] = 255
      /\ \A n \in 0 .. N : f[n] \in Octet /\ g[n] \in Octet
  <2>1. f[0] = 255 /\ f \in [0 .. N -> Octet]
    BY <1>5 DEF IsRegister
  <2>2. g[0] = 255 /\ g \in [0 .. N -> Octet]
    BY <1>2, <1>6 DEF IsRegister
  <2> QED BY <2>1, <2>2
<1>8. \A n \in 1 .. N : /\ f[n] = EightShifts(Xor(f[n - 1], s[n]))
                        /\ g[n] = EightShifts(Xor(g[n - 1], t[n]))
  BY <1>2, <1>5, <1>6 DEF IsRegister
<1> DEFINE S == {n \in 0 .. N : IF n < k THEN f[n] = g[n] ELSE f[n] # g[n]}
<1>9. 0 \in S
  BY <1>1, <1>7
<1>10. ASSUME NEW n \in 1 .. N, n - 1 \in S
       PROVE  n \in S
  <2> DEFINE p == f[n - 1]
             q == g[n - 1]
             x == s[n]
             y == t[n]
  <2>1. n \in 0 .. N /\ n - 1 \in 0 .. N
    BY <1>1
  <2>2. p \in Octet /\ q \in Octet /\ x \in Octet /\ y \in Octet
    BY <1>4, <1>7, <2>1
  <2>3. f[n] = EightShifts(Xor(p, x)) /\ g[n] = EightShifts(Xor(q, y))
    BY <1>8
  <2>4. IF n - 1 < k THEN p = q ELSE p # q
    BY <1>10
  <2> HIDE DEF p, q
  <2>5. CASE n < k
    <3>1. p = q /\ x = y
      BY <1>1, <1>3, <2>4, <2>5
    <3>2. f[n] = g[n]
      BY <2>3, <3>1
    <3> QED BY <2>1, <2>5, <3>2
  <2>6. CASE n >= k
    <3>1. Xor(p, x) # Xor(q, y)
      <4>1. CASE n = k
        <5>1. p = q /\ x # y
          BY <1>1, <1>3, <2>4, <4>1
        <5> HIDE DEF x, y
        <5> QED BY <2>2, <5>1, XorCancels
      <4>2. CASE n # k
        <5>1. p # q /\ x = y
          BY <1>1, <1>3, <2>4, <2>6, <4>2
        <5> HIDE DEF x, y
        <5>2. Xor(x, p) # Xor(x, q)
          BY <2>2, <5>1, XorCancels
        <5> QED BY <2>2, <5>1, <5>2, XorCommutes
      <4> QED BY <4>1, <4>2
    <3> HIDE DEF x, y
    <3>2. Xor(p, x) \in Octet /\ Xor(q, y) \in Octet
      BY <2>2, XorOctet
    <3>3. f[n] # g[n]
      BY <2>3, <3>1, <3>2, EightShiftsInjective
    <3> QED BY <2>1, <2>6, <3>3
  <2> QED BY <1>1, <2>5, <2>6
<1>11. f[N] # g[N]
  <2>1. N \in S
    <3> HIDE DEF S, N
    <3>1. \A n \in 0 .. N : n \in S
      BY <1>1, <1>9, <1>10, ByteByByte
    <3> QED BY <1>1, <3>1
  <2> QED BY <1>1, <2>1
<1>12. Crc(s) = 255 - f[N] /\ Crc(t) = 255 - g[N]
  BY <1>2, <1>5, <1>6, CrcRegister
<1>13. f[N] \in Int /\ g[N] \in Int
  <2>1. f[N] \in Octet /\ g[N] \in Octet
    BY <1>1, <1>7
  <2>2. \A x \in Octet : x \in Int
    BY DEF Octet
  <2> QED BY <2>1, <2>2
<1> QED BY <1>11, <1>12, <1>13 DEF t

(* What FrameCodec assumes of the FCS, and its proofs rest on, is true of  *)
(* the FCS of crc.c, whatever the frames and the damage.                   *)
THEOREM CrcMeetsAssumption == FcsOfCrc => FcsTellsHeaders
<1> SUFFICES ASSUME FcsOfCrc, NEW i \in Infos
             PROVE  /\ Fcs(Header(i)) \in Octet
                    /\ i.type = UI => \A m \in Memory :
                         Fcs(Header(i) \o [k \in 1 .. Len(i.body) |-> m]) \in Octet
                    /\ \A k \in {1, 2}, b \in Damages :
                         Header(i)[k] # b =>
                           Fcs([Header(i) EXCEPT ![k] = b]) # Fcs(Header(i))
  BY DEF FcsTellsHeaders
<1> DEFINE h == Header(i)
<1>1. h \in Seq(Octet) /\ Len(h) \in Nat /\ Len(h) >= 3
  <2> DEFINE w == Len(LengthBytes(Len(i.body)))
  <2>1. w \in {1, 2}
    <3>1. Len(i.body) \in Nat
      BY BodyType
    <3> QED BY <3>1, LengthField
  <2>2. h \in Seq(Octet) /\ Len(h) = 2 + w
    BY HeaderBytes
  <2> HIDE DEF h, w
  <2> QED BY <2>1, <2>2
<1> HIDE DEF h
<1>2. Fcs(h) \in Octet
  BY <1>1, CrcOctet DEF FcsOfCrc
<1>3. ASSUME NEW m \in Memory
      PROVE  Fcs(h \o [k \in 1 .. Len(i.body) |-> m]) \in Octet
  <2> DEFINE p == [k \in 1 .. Len(i.body) |-> m]
  <2>1. m \in Octet /\ Len(i.body) \in Nat
    BY OctetsAssumption, BodyType
  <2>2. p \in Seq(Octet)
    BY <2>1, IsASeq
  <2> HIDE DEF p
  <2>3. h \o p \in Seq(Octet)
    BY <1>1, <2>2, ConcatProperties
  <2>4. Fcs(h \o p) \in Octet
    BY <2>3, CrcOctet DEF FcsOfCrc
  <2> QED BY <2>4 DEF p
<1>4. ASSUME NEW k \in {1, 2}, NEW b \in Damages, h[k] # b
      PROVE  Fcs([h EXCEPT ![k] = b]) # Fcs(h)
  <2>1. k \in 1 .. Len(h) /\ b \in Octet
    BY <1>1, OctetsAssumption
  <2>2. [h EXCEPT ![k] = b] \in Seq(Octet)
    BY <1>1, <2>1, ExceptSeq
  <2>3. Crc([h EXCEPT ![k] = b]) # Crc(h)
    BY <1>1, <1>4, <2>1, CrcTellsBytes
  <2> QED BY <1>1, <2>2, <2>3 DEF FcsOfCrc
<1> QED BY <1>2, <1>3, <1>4 DEF h

(* Every frame of another type than UIH and UI ends with the remainder of  *)
(* the header it was built with.                                           *)
THEOREM FramesCarryTheRemainder ==
  ASSUME FcsOfCrc
  PROVE  Spec => []FcsIsRemainder
<1>1. FrameInv => FcsIsRemainder
  <2> SUFFICES ASSUME FrameInv, wire = <<>>, info.type \notin {UIH, UI}
               PROVE  cells[len - 1] = Remainder(Header(info))
    BY DEF FcsIsRemainder
  <2> DEFINE h == Header(info)
             l == Len(h)
             n == Len(info.body)
  <2>1. info \in Infos /\ len \in Nat
    BY CellsAssumption DEF FrameInv, TypeOK
  <2>2. PICK f \in Seq(Octet) : Transmitted(f) /\ MadeOf(f)
    BY DEF FrameInv
  <2>3. PICK m \in Memory :
          LET g == Build(info, m)
          IN  /\ g \in Seq(Octet) /\ Len(f) = Len(g)
              /\ ~damaged => f = g
              /\ damaged => \E k \in {2, 3}, b \in Damages :
                              g[k] # b /\ f = [g EXCEPT ![k] = b]
    BY <2>2, TransmittedBytes
  <2> DEFINE g == Build(info, m)
  <2>4. g \in Seq(Octet) /\ Len(g) = l + n + 3 /\ g[l + n + 2] = Fcs(h)
    BY <2>1, BuildBytes
  <2>5. h \in Seq(Octet) /\ l \in Nat /\ l >= 3 /\ n \in Nat
    <3> DEFINE w == Len(LengthBytes(n))
    <3>1. n \in Nat
      BY <2>1, BodyType
    <3>2. w \in {1, 2}
      <4> HIDE DEF n
      <4> QED BY <3>1, LengthField
    <3>3. h \in Seq(Octet) /\ l = 2 + w
      BY <2>1, HeaderBytes
    <3> HIDE DEF h, n, l, w
    <3> QED BY <3>1, <3>2, <3>3
  <2>6. /\ Len(f) = Len(g)
        /\ ~damaged => f = g
        /\ damaged => \E k \in {2, 3}, b \in Damages : f = [g EXCEPT ![k] = b]
    BY <2>3
  <2> HIDE DEF g, h, l, n
  <2>7. len - 1 = l + n + 2 /\ len - 1 \in 1 .. len /\ len - 1 >= 5
    <3>1. Len(f) = len
      BY <2>1, <2>2 DEF MadeOf
    <3> QED BY <2>1, <2>4, <2>5, <2>6, <3>1
  <2>8. f[len - 1] = g[len - 1]
    <3>1. ASSUME NEW k \in {2, 3}, NEW b \in Damages, f = [g EXCEPT ![k] = b]
          PROVE  f[len - 1] = g[len - 1]
      <4>1. k \in 1 .. Len(g) /\ b \in Octet
        BY <2>4, <2>5, OctetsAssumption
      <4>2. len - 1 \in 1 .. Len(g) /\ len - 1 # k
        BY <2>1, <2>4, <2>5, <2>7
      <4> QED BY <2>4, <3>1, <4>1, <4>2, ExceptSeq
    <3> QED BY <2>6, <3>1
  <2>9. cells[len - 1] = f[len - 1]
    BY <2>2, <2>7 DEF MadeOf
  <2>10. Fcs(h) = Remainder(h)
    BY <2>5, CrcIsRemainder DEF FcsOfCrc
  <2>11. cells[len - 1] = Remainder(h)
    BY <2>4, <2>7, <2>8, <2>9, <2>10
  <2> QED BY <2>11 DEF h
<1> QED BY <1>1, FrameInvariance, PTL
=============================================================================
