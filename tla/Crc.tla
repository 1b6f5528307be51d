-------------------------------- MODULE Crc --------------------------------
(***************************************************************************)
(* lib/cmux/crc.c: the frame check sequence, computed with a table, and    *)
(* its definition one bit at a time.                                       *)
(***************************************************************************)
EXTENDS Integers, Sequences

Bit(a, i) == (a \div 2^i) % 2

(* a ^ b *)
Xor(a, b) ==
  LET d(i) == (Bit(a, i) + Bit(b, i)) % 2
  IN  d(0) + 2 * d(1) + 4 * d(2) + 8 * d(3)
        + 16 * d(4) + 32 * d(5) + 64 * d(6) + 128 * d(7)

(* crc_table[k] is the element k + 1. *)
CrcTable == <<
    0, 145, 227, 114,   7, 150, 228, 117,  14, 159, 237, 124,   9, 152, 234, 123,
   28, 141, 255, 110,  27, 138, 248, 105,  18, 131, 241,  96,  21, 132, 246, 103,
   56, 169, 219,  74,  63, 174, 220,  77,  54, 167, 213,  68,  49, 160, 210,  67,
   36, 181, 199,  86,  35, 178, 192,  81,  42, 187, 201,  88,  45, 188, 206,  95,
  112, 225, 147,   2, 119, 230, 148,   5, 126, 239, 157,  12, 121, 232, 154,  11,
  108, 253, 143,  30, 107, 250, 136,  25,  98, 243, 129,  16, 101, 244, 134,  23,
   72, 217, 171,  58,  79, 222, 172,  61,  70, 215, 165,  52,  65, 208, 162,  51,
   84, 197, 183,  38,  83, 194, 176,  33,  90, 203, 185,  40,  93, 204, 190,  47,
  224, 113,   3, 146, 231, 118,   4, 149, 238, 127,  13, 156, 233, 120,  10, 155,
  252, 109,  31, 142, 251, 106,  24, 137, 242,  99,  17, 128, 245, 100,  22, 135,
  216,  73,  59, 170, 223,  78,  60, 173, 214,  71,  53, 164, 209,  64,  50, 163,
  196,  85,  39, 182, 195,  82,  32, 177, 202,  91,  41, 184, 205,  92,  46, 191,
  144,   1, 115, 226, 151,   6, 116, 229, 158,  15, 125, 236, 153,   8, 122, 235,
  140,  29, 111, 254, 139,  26, 104, 249, 130,  19,  97, 240, 133,  20, 102, 247,
  168,  57,  75, 218, 175,  62,  76, 221, 166,  55,  69, 212, 161,  48,  66, 211,
  180,  37,  87, 198, 179,  34,  80, 193, 186,  43,  89, 200, 189,  44,  94, 207 >>

(* Mutant: the register starts from 0. *)
CrcFromZero(s) ==
  LET fcs[n \in 0 .. Len(s)] ==
        IF n = 0 THEN 0 ELSE CrcTable[Xor(fcs[n - 1], s[n]) + 1]
  IN  255 - fcs[Len(s)]

(* cmux_crc: fcs[n] is the register after n bytes. *)
Crc(s) ==
  LET fcs[n \in 0 .. Len(s)] ==
        IF n = 0 THEN 255 ELSE CrcTable[Xor(fcs[n - 1], s[n]) + 1]
  IN  255 - fcs[Len(s)]

----------------------------------------------------------------------------
(* Reference: one step of a shift register with the polynomial             *)
(* x^8 + x^2 + x + 1 reversed, \hE0; eight steps for a byte.               *)
Shift(a) == IF a % 2 = 1 THEN Xor(a \div 2, 224) ELSE a \div 2

EightShifts(a) ==
  LET Two(b) == Shift(Shift(b))
      Four(b) == Two(Two(b))
  IN  Four(Four(a))

Remainder(s) ==
  LET rest[n \in 0 .. Len(s)] ==
        IF n = 0 THEN 255 ELSE EightShifts(Xor(rest[n - 1], s[n]))
  IN  255 - rest[Len(s)]
=============================================================================
