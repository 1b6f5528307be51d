-------------------------- MODULE FrameCodecProofs --------------------------
(***************************************************************************)
(* What the fields of a frame decode to, for every value; that no part of  *)
(* a frame with a short length field is taken for a frame, that the whole  *)
(* arrives as it was sent, and that damage to its header is noticed.  Of   *)
(* the FCS nothing is used but FcsAssumption.                              *)
(***************************************************************************)
EXTENDS FrameCodec, SequenceTheorems, TLAPS

(* The arithmetic of the fields. *)
LEMMA Doubled ==
  ASSUME NEW n \in Int
  PROVE  (2 * n) % 2 = 0 /\ (2 * n) \div 2 = n
<1>1. \A m \in Int : m = 2 * n => m % 2 = 0
  OBVIOUS
<1>2. (2 * n) \div 2 = n
  OBVIOUS
<1> QED
  BY <1>1, <1>2, 2 * n \in Int

LEMMA HalfIsNat ==
  ASSUME NEW n \in 0 .. 255
  PROVE  n \in Nat /\ n \div 2 \in Nat
  OBVIOUS

LEMMA DoubledPlusOne ==
  ASSUME NEW n \in Int
  PROVE  (2 * n + 1) % 2 = 1 /\ (2 * n + 1) \div 2 = n
<1>1. (2 * n + 1) \div 2 = n
  OBVIOUS
<1>2. \A m \in Int : m = 2 * n + 1 => m % 2 = 1
  OBVIOUS
<1> QED
  BY <1>1, <1>2, 2 * n + 1 \in Int

LEMMA SplitBy128 ==
  ASSUME NEW n \in Int, 128 <= n, n < 128 * 512
  PROVE  /\ n % 128 \in Int /\ 0 <= n % 128 /\ n % 128 <= 127
         /\ n \div 128 \in Int /\ 1 <= n \div 128 /\ n \div 128 <= 511
         /\ n = 128 * (n \div 128) + (n % 128)
<1>1. n % 128 \in Int /\ 0 <= n % 128 /\ n % 128 <= 127
  OBVIOUS
<1>2. n \div 128 \in Int /\ 1 <= n \div 128 /\ n \div 128 <= 511
  OBVIOUS
<1>3. n = 128 * (n \div 128) + (n % 128)
  OBVIOUS
<1> QED
  BY <1>1, <1>2, <1>3

LEMMA HighByte ==
  ASSUME NEW n \in Int, 1 <= n, n <= 511
  PROVE  n % 256 \in Int /\ (n % 256 = n \/ n % 256 = n - 256)
  OBVIOUS

LEMMA AddressFields ==
  ASSUME NEW e \in {0, 1}, NEW r \in {0, 1}, NEW d \in Int, 0 <= d, d <= 63
  PROVE  /\ (e + 2 * r + 4 * d) % 2 = e
         /\ ((e + 2 * r + 4 * d) \div 2) % 2 = r
         /\ (e + 2 * r + 4 * d) \div 4 = d
  OBVIOUS

LEMMA AddressTruncates ==
  ASSUME NEW e \in {0, 1}, NEW r \in {0, 1}, NEW d \in Int, 0 <= d, d <= 255
  PROVE  /\ (e + 2 * r + 4 * d) % 256 = e + 2 * r + 4 * (d % 64)
         /\ d % 64 \in Int /\ 0 <= d % 64 /\ d % 64 <= 63
  OBVIOUS

----------------------------------------------------------------------------
(* A short length field decodes to the length the builder was given. *)
THEOREM ShortLengthDecodes ==
  ASSUME NEW n \in Nat, n <= 127, NEW c, c[4] = LengthBytes(n)[1]
  PROVE  ~Extended(c) /\ DecodedLength(c) = n /\ BodyIndex(c) = 4
<1>1. c[4] = 2 * n + 1
  BY DEF LengthBytes
<1>2. c[4] % 2 = 1 /\ c[4] \div 2 = n
  BY <1>1, DoubledPlusOne
<1> QED
  BY <1>2 DEF Extended, DecodedLength, BodyIndex

(* No extended length field decodes to the length the builder was given:   *)
(* the builder puts bits 7 to 14 of the length into the second byte, the   *)
(* parser takes the second byte for bits 8 to 15.                          *)
THEOREM ExtendedLengthNeverDecodes ==
  ASSUME NEW n \in Nat, 128 <= n, n < 128 * 512, NEW c,
         c[4] = LengthBytes(n)[1], c[5] = LengthBytes(n)[2]
  PROVE  Extended(c) /\ DecodedLength(c) # n
<1>1. n \in Int /\ 128 <= n /\ n < 128 * 512
  OBVIOUS
<1>2. c[4] = 2 * (n % 128) /\ c[5] = (n \div 128) % 256
  BY DEF LengthBytes
<1>3. PICK low, high :
        /\ low = n % 128 /\ high = n \div 128
        /\ low \in Int /\ 0 <= low /\ low <= 127
        /\ high \in Int /\ 1 <= high /\ high <= 511
        /\ n = 128 * high + low
  BY <1>1, SplitBy128
<1>4. PICK h : /\ h = high % 256 /\ h \in Int
               /\ h = high \/ h = high - 256
  BY <1>3, HighByte
<1>5. (2 * low) % 2 = 0 /\ (2 * low) \div 2 = low
  BY <1>3, Doubled
<1>6. c[4] % 2 = 0 /\ c[4] \div 2 = low /\ c[5] = h
  BY <1>2, <1>3, <1>4, <1>5
<1>7. Extended(c) /\ DecodedLength(c) = low + 256 * h
  BY <1>6 DEF Extended, DecodedLength
<1>8. low + 256 * h # 128 * high + low
  BY <1>3, <1>4
<1> QED
  BY <1>3, <1>7, <1>8

(* The address and control fields decode to what they were built from, the *)
(* DLCI only up to 63: from 64 on the frame names the DLCI modulo 64.      *)
THEOREM AddressDecodes ==
  ASSUME NEW ea \in BOOLEAN, NEW cr \in BOOLEAN, NEW dlci \in Octet
  PROVE  LET b == AddressByte(ea, cr, dlci)
         IN  /\ (b % 2 = 1) <=> ea
             /\ ((b \div 2) % 2 = 1) <=> cr
             /\ b \div 4 = dlci % 64
<1>1. PICK e \in {0, 1} : e = BitOf(ea) /\ (e = 1 <=> ea)
  BY DEF BitOf
<1>2. PICK r \in {0, 1} : r = BitOf(cr) /\ (r = 1 <=> cr)
  BY DEF BitOf
<1>3. dlci \in Int /\ 0 <= dlci /\ dlci <= 255
  BY DEF Octet
<1>4. PICK d \in Int : /\ d = dlci % 64 /\ 0 <= d /\ d <= 63
                       /\ (e + 2 * r + 4 * dlci) % 256 = e + 2 * r + 4 * d
  BY <1>3, AddressTruncates
<1>5. AddressByte(ea, cr, dlci) = e + 2 * r + 4 * d
  BY <1>1, <1>2, <1>4 DEF AddressByte
<1>6. /\ (e + 2 * r + 4 * d) % 2 = e
      /\ ((e + 2 * r + 4 * d) \div 2) % 2 = r
      /\ (e + 2 * r + 4 * d) \div 4 = d
  <2>1. e \in {0, 1} /\ r \in {0, 1}
    BY <1>1, <1>2
  <2>2. d \in Int /\ 0 <= d /\ d <= 63
    BY <1>4
  <2> QED
    BY <2>1, <2>2, AddressFields
<1> DEFINE b == AddressByte(ea, cr, dlci)
<1>7. b % 2 = e /\ (b \div 2) % 2 = r /\ b \div 4 = dlci % 64
  BY <1>4, <1>5, <1>6
<1> QED
  BY <1>1, <1>2, <1>7

(* The control field, for every frame type. *)
THEOREM ControlDecodes ==
  ASSUME NEW type \in Types, NEW pf \in BOOLEAN
  PROVE  LET b == ControlByte(type, pf)
         IN  DecodedType(b) = type /\ ((b \div 16) % 2 = 1 <=> pf)
<1>1. CASE pf
  BY <1>1 DEF ControlByte, DecodedType, BitOf, Types, SABM, UA, DM, DISC, UIH, UI
<1>2. CASE ~pf
  BY <1>2 DEF ControlByte, DecodedType, BitOf, Types, SABM, UA, DM, DISC, UIH, UI
<1> QED
  BY <1>1, <1>2

----------------------------------------------------------------------------
(* What the receiver has and what is still to come make up one frame of    *)
(* the length its fourth byte encodes; the cells not received yet hold     *)
(* bytes of earlier use.                                                   *)
LengthOnWire ==
  /\ info \in Infos
  /\ len \in 0 .. Cells
  /\ \E S : wire \in Seq(S)
  /\ DOMAIN cells = 1 .. Cells
  /\ \A k \in len + 1 .. Cells : cells[k] \in Octet
  /\ len + Len(wire) = 6 + Len(info.body)
  /\ (IF len >= 4 THEN cells[4] ELSE wire[4 - len]) = 2 * Len(info.body) + 1

(* The frames of which the theorem speaks. *)
ShortInfos == \A i \in Infos : Len(i.body) <= 127

LEMMA BodyLength ==
  ASSUME ShortInfos, NEW i \in Infos
  PROVE  /\ i.body \in Seq(Octet)
         /\ Len(i.body) \in Nat /\ Len(i.body) <= 127
<1>1. i.body \in Seq(Octet)
  BY InfosAssumption DEF Info
<1>2. Len(i.body) \in Nat
  BY <1>1, LenProperties
<1> QED
  BY <1>1, <1>2 DEF ShortInfos

(* The builder's frame has six bytes more than its body, and its fourth    *)
(* byte is the length field.                                               *)
LEMMA BuiltFrame ==
  ASSUME ShortInfos, NEW i \in Infos, NEW m \in Memory
  PROVE  /\ \E S : Build(i, m) \in Seq(S)
         /\ Len(Build(i, m)) = 6 + Len(i.body)
         /\ Build(i, m)[4] = 2 * Len(i.body) + 1
<1>1. PICK address, control, fcs, length :
        /\ address = AddressByte(i.ea, i.cr, i.dlci)
        /\ control = ControlByte(i.type, i.pf)
        /\ length = 2 * Len(i.body) + 1
        /\ fcs = Fcs(IF i.type = UI
                     THEN Header(i) \o [k \in 1 .. Len(i.body) |-> m]
                     ELSE Header(i))
  OBVIOUS
<1>2. PICK S : S = Octet \cup {Flag, address, control, length, fcs}
  OBVIOUS
<1>3. LengthBytes(Len(i.body)) = <<length>>
  BY <1>1, BodyLength DEF LengthBytes
<1>4. Header(i) = <<address, control>> \o <<length>>
  BY <1>1, <1>3, Zenon DEF Header
<1>5. Build(i, m) = <<Flag>> \o Header(i) \o i.body \o <<fcs, Flag>>
  BY <1>1, Zenon DEF Build
<1>6. /\ <<Flag>> \in Seq(S) /\ <<fcs, Flag>> \in Seq(S)
      /\ <<address, control>> \in Seq(S) /\ <<length>> \in Seq(S)
  BY <1>2
<1>7. i.body \in Seq(S)
  BY <1>2, BodyLength
<1> DEFINE header == <<address, control>> \o <<length>>
           head == <<Flag>> \o header
           front == head \o i.body
<1>8. header \in Seq(S) /\ Len(header) = 3 /\ header[3] = length
  BY <1>6, ConcatProperties
<1> HIDE DEF header
<1>9. head \in Seq(S) /\ Len(head) = 4 /\ head[4] = length
  <2>1. Len(<<Flag>>) = 1
    OBVIOUS
  <2>2. /\ head \in Seq(S) /\ Len(head) = Len(<<Flag>>) + Len(header)
        /\ \A k \in 1 .. Len(<<Flag>>) + Len(header) :
             head[k] = IF k <= Len(<<Flag>>) THEN <<Flag>>[k]
                       ELSE header[k - Len(<<Flag>>)]
    BY <1>6, <1>8, ConcatProperties, Zenon
  <2> QED
    BY <1>8, <2>1, <2>2
<1> HIDE DEF head
<1>10. /\ front \in Seq(S) /\ Len(front) = 4 + Len(i.body)
       /\ front[4] = length
  <2>1. /\ front \in Seq(S) /\ Len(front) = Len(head) + Len(i.body)
        /\ \A k \in 1 .. Len(head) + Len(i.body) :
             front[k] = IF k <= Len(head) THEN head[k]
                        ELSE i.body[k - Len(head)]
    BY <1>7, <1>9, ConcatProperties, Zenon
  <2>2. 4 \in 1 .. 4 + Len(i.body)
    BY BodyLength
  <2> QED
    BY <1>9, <2>1, <2>2
<1> HIDE DEF front
<1>11. /\ front \o <<fcs, Flag>> \in Seq(S)
       /\ Len(front \o <<fcs, Flag>>) = 6 + Len(i.body)
       /\ (front \o <<fcs, Flag>>)[4] = length
  BY <1>6, <1>10, BodyLength, ConcatProperties
<1>12. Build(i, m) = front \o <<fcs, Flag>>
  BY <1>4, <1>5, Zenon DEF front, head, header
<1> QED
  BY <1>1, <1>11, <1>12, Zenon

LEMMA InitLengthOnWire == ShortInfos /\ Init => LengthOnWire
<1> SUFFICES ASSUME ShortInfos, Init PROVE LengthOnWire
  OBVIOUS
<1>1. PICK i \in Infos, m \in Memory : info = i /\ wire = Build(i, m)
  BY DEF Init
<1>2. PICK b \in Stale : cells = [k \in 1 .. Cells |-> b]
  BY DEF Init
<1>3. len = 0
  BY DEF Init
<1> QED
  BY <1>1, <1>2, <1>3, BuiltFrame, OctetsAssumption, CellsAssumption
  DEF LengthOnWire

LEMMA NextLengthOnWire ==
  ShortInfos /\ LengthOnWire /\ [Next]_vars => LengthOnWire'
<1> SUFFICES ASSUME ShortInfos, LengthOnWire, [Next]_vars
             PROVE  LengthOnWire'
  OBVIOUS
<1> USE CellsAssumption
<1>1. PICK S : wire \in Seq(S)
  BY DEF LengthOnWire
<1>2. Len(info.body) \in Nat /\ Len(info.body) <= 127
  BY BodyLength DEF LengthOnWire
<1>3. CASE \E k \in {2, 3}, b \in Damages : Damage(k, b)
  <2>1. PICK k \in {2, 3}, b \in Damages : Damage(k, b)
    BY <1>3
  <2>2. wire \in Seq(S \cup {b}) /\ Len(wire) = 6 + Len(info.body)
    BY <1>1, <1>2, <2>1 DEF Damage, LengthOnWire
  <2>3. k \in 1 .. Len(wire) /\ 4 \in 1 .. Len(wire)
    BY <1>2, <2>2
  <2>4. /\ wire' \in Seq(S \cup {b})
        /\ Len(wire') = Len(wire) /\ wire'[4] = wire[4]
    BY <2>1, <2>2, <2>3, ExceptSeq DEF Damage
  <2>5. \E T : wire' \in Seq(T)
    BY <2>4
  <2>6. len = 0 /\ len' = 0 /\ info' = info /\ cells' = cells
    BY <2>1 DEF Damage
  <2>7. wire[4] = 2 * Len(info.body) + 1
    BY <2>6 DEF LengthOnWire
  <2> QED
    BY <2>2, <2>4, <2>5, <2>6, <2>7 DEF LengthOnWire
<1>4. CASE \E n \in 1 .. MaxPiece : Receive(n)
  <2>1. PICK n \in 1 .. MaxPiece : Receive(n)
    BY <1>4
  <2>2. /\ len' = len + n
        /\ wire' \in Seq(S)
        /\ Len(wire') = Len(wire) - n
        /\ \A k \in 1 .. Len(wire) - n : wire'[k] = wire[n + k]
    BY <1>1, <2>1 DEF Receive, LengthOnWire
  <2>3. /\ DOMAIN cells' = 1 .. Cells
        /\ \A k \in len' + 1 .. Cells : cells'[k] = cells[k]
        /\ \A k \in 1 .. len : cells'[k] = cells[k]
        /\ \A k \in len + 1 .. len' : cells'[k] = wire[k - len]
    BY <2>1, <2>2 DEF Receive, LengthOnWire
  <2>4. (IF len' >= 4 THEN cells'[4] ELSE wire'[4 - len'])
          = 2 * Len(info.body) + 1
    <3>1. CASE len >= 4
      BY <2>2, <2>3, <3>1 DEF LengthOnWire
    <3>2. CASE len < 4 /\ len' >= 4
      BY <2>2, <2>3, <3>2 DEF LengthOnWire
    <3>3. CASE len' < 4
      BY <1>2, <2>2, <3>3, SMTT(30) DEF LengthOnWire
    <3> QED
      BY <2>2, <3>1, <3>2, <3>3 DEF LengthOnWire
  <2>5. \E T : wire' \in Seq(T)
    BY <2>2
  <2>6. /\ \A k \in len' + 1 .. Cells : cells'[k] \in Octet
        /\ len' \in 0 .. Cells
        /\ len' + Len(wire') = 6 + Len(info.body)
    <3>1. /\ len \in Nat /\ n \in Nat /\ Len(wire) \in Nat
          /\ len + n <= Cells
          /\ len + Len(wire) = 6 + Len(info.body)
          /\ \A k \in len + 1 .. Cells : cells[k] \in Octet
      BY <1>1, <2>1 DEF Receive, LengthOnWire
    <3>2. \A k \in len' + 1 .. Cells : k \in len + 1 .. Cells
      BY <2>2, <3>1
    <3>3. \A k \in len' + 1 .. Cells : cells'[k] \in Octet
      <4>1. ASSUME NEW k \in len' + 1 .. Cells PROVE cells'[k] \in Octet
        BY <2>3, <3>1, <3>2, Zenon
      <4> QED
        BY <4>1
    <3>4. len' \in 0 .. Cells /\ len' + Len(wire') = 6 + Len(info.body)
      <4>1. len' = len + n /\ Len(wire') = Len(wire) - n
        BY <2>2
      <4>2. len + n + (Len(wire) - n) = 6 + Len(info.body)
        BY <3>1
      <4>3. len' + Len(wire') = 6 + Len(info.body)
        BY <4>1, <4>2
      <4>4. len' \in 0 .. Cells
        BY <3>1, <4>1
      <4> QED
        BY <4>3, <4>4
    <3> QED
      BY <3>3, <3>4
  <2> QED
    BY <2>1, <2>3, <2>4, <2>5, <2>6 DEF Receive, LengthOnWire
<1>5. CASE \E i \in Infos, m \in Memory, b \in Stale : Another(i, m, b)
  <2>1. PICK i \in Infos, m \in Memory, b \in Stale : Another(i, m, b)
    BY <1>5
  <2>2. /\ \E T : wire' \in Seq(T)
        /\ Len(wire') = 6 + Len(i.body)
        /\ wire'[4] = 2 * Len(i.body) + 1
    BY <2>1, BuiltFrame DEF Another
  <2>3. /\ DOMAIN cells' = 1 .. Cells
        /\ \A k \in 1 .. Cells : cells'[k] \in Octet
    BY <2>1, OctetsAssumption DEF Another
  <2>4. info' = i /\ len' = 0
    BY <2>1 DEF Another
  <2> QED
    BY <2>2, <2>3, <2>4, BodyLength DEF LengthOnWire
<1>6. CASE UNCHANGED vars
  BY <1>6 DEF vars, LengthOnWire
<1> QED
  BY <1>3, <1>4, <1>5, <1>6 DEF Next

(* A part of a frame is never taken for a frame, whatever the array held   *)
(* behind the received bytes: for every frame with a short length field.   *)
THEOREM PartIsNeverValid ==
  ASSUME ShortInfos
  PROVE  Spec => []NeverEarly
<1>1. LengthOnWire => NeverEarly
  <2> SUFFICES ASSUME LengthOnWire, wire # <<>>, CheckValid(cells, len)
               PROVE  FALSE
    BY DEF NeverEarly
  <2> DEFINE n == Len(info.body)
  <2>1. n \in Nat /\ n <= 127
    BY BodyLength DEF LengthOnWire
  <2>2. Len(wire) > 0 /\ Len(wire) \in Nat
    <3>1. PICK S : wire \in Seq(S)
      BY DEF LengthOnWire
    <3> QED
      BY <3>1
  <2>3. BodyIndex(cells) + DecodedLength(cells) + 2 <= len
    BY DEF CheckValid
  <2>4. CASE len >= 4
    <3>1. cells[4] = LengthBytes(n)[1]
      <4>1. cells[4] = 2 * n + 1
        BY <2>4 DEF LengthOnWire
      <4>2. LengthBytes(n) = <<2 * n + 1>>
        BY <2>1 DEF LengthBytes
      <4> QED
        BY <4>1, <4>2
    <3>2. DecodedLength(cells) = n /\ BodyIndex(cells) = 4
      BY <2>1, <3>1, ShortLengthDecodes DEF LengthOnWire
    <3> QED
      BY <2>1, <2>2, <2>3, <3>2 DEF LengthOnWire
  <2>5. CASE len < 4
    <3>1. cells[4] \in Octet /\ cells[5] \in Octet
      BY <2>5, CellsAssumption DEF LengthOnWire
    <3>2. /\ cells[4] \in Nat /\ cells[5] \in Nat
          /\ cells[4] \div 2 \in Nat
      BY <3>1, HalfIsNat DEF Octet
    <3>3. DecodedLength(cells) \in Nat
      BY <3>2 DEF DecodedLength
    <3> QED
      BY <2>3, <2>5, <3>3 DEF BodyIndex, LengthOnWire
  <2> QED
    BY <2>4, <2>5 DEF LengthOnWire
<1>2. Init => LengthOnWire
  BY InitLengthOnWire
<1>3. LengthOnWire /\ [Next]_vars => LengthOnWire'
  BY NextLengthOnWire
<1> QED
  BY <1>1, <1>2, <1>3, PTL DEF Spec

----------------------------------------------------------------------------
(* The bytes of a frame. *)

(* Two sequences joined. *)
LEMMA Joined ==
  ASSUME NEW S, NEW s \in Seq(S), NEW t \in Seq(S)
  PROVE  /\ s \o t \in Seq(S) /\ Len(s \o t) = Len(s) + Len(t)
         /\ \A i \in 1 .. Len(s) : (s \o t)[i] = s[i]
         /\ \A i \in 1 .. Len(t) : (s \o t)[Len(s) + i] = t[i]
<1> DEFINE m == Len(s)
           n == Len(t)
<1> m \in Nat /\ n \in Nat
  BY LenProperties
<1> DEFINE c == s \o t
<1>1. c \in Seq(S) /\ Len(c) = Len(s) + Len(t)
  BY ConcatProperties
<1>2. \A i \in 1 .. Len(s) + Len(t) : c[i] = IF i <= Len(s) THEN s[i] ELSE t[i - Len(s)]
  BY ConcatProperties
<1> HIDE DEF c
<1>3. ASSUME NEW i \in 1 .. m PROVE c[i] = s[i]
  <2>1. i \in 1 .. Len(s) + Len(t) /\ i <= Len(s)
    OBVIOUS
  <2> QED BY <1>2, <2>1
<1>4. ASSUME NEW i \in 1 .. n PROVE c[m + i] = t[i]
  <2>1. m + i \in 1 .. Len(s) + Len(t) /\ ~(m + i <= Len(s)) /\ (m + i) - Len(s) = i
    OBVIOUS
  <2>2. c[m + i] = t[(m + i) - Len(s)]
    BY <1>2, <2>1
  <2> QED BY <2>1, <2>2
<1>5. c \in Seq(S) /\ Len(c) = m + n
  BY <1>1
<1> QED BY <1>3, <1>4, <1>5 DEF c

(* A part of a sequence. *)
LEMMA Slice ==
  ASSUME NEW S, NEW s \in Seq(S), NEW m \in Nat \ {0}, NEW e \in Nat,
         m <= e + 1, e <= Len(s)
  PROVE  /\ SubSeq(s, m, e) \in Seq(S)
         /\ Len(SubSeq(s, m, e)) = e - m + 1
         /\ \A k \in 1 .. e - m + 1 : SubSeq(s, m, e)[k] = s[k + (m - 1)]
<1> DEFINE t == SubSeq(s, m, e)
<1>1. Len(s) \in Nat
  BY LenProperties
<1>2. \A i \in m .. e : s[i] \in S
  BY <1>1, ElementOfSeq
<1>3. /\ t \in Seq(S)
      /\ Len(t) = IF m <= e THEN e - m + 1 ELSE 0
      /\ \A k \in 1 .. e - m + 1 : t[k] = s[m + k - 1]
  BY <1>2, SubSeqProperties
<1>4. \A k \in 1 .. e - m + 1 : m + k - 1 = k + (m - 1)
  OBVIOUS
<1>5. (IF m <= e THEN e - m + 1 ELSE 0) = e - m + 1
  OBVIOUS
<1> HIDE DEF t
<1>6. /\ t \in Seq(S) /\ Len(t) = e - m + 1
      /\ \A k \in 1 .. e - m + 1 : t[k] = s[k + (m - 1)]
  BY <1>3, <1>4, <1>5
<1> QED BY <1>6 DEF t

LEMMA HeaderByte ==
  ASSUME NEW i \in Infos
  PROVE  /\ AddressByte(i.ea, i.cr, i.dlci) \in Octet
         /\ ControlByte(i.type, i.pf) \in Octet
<1>1. /\ i.ea \in BOOLEAN /\ i.cr \in BOOLEAN /\ i.dlci \in Octet
      /\ i.type \in Types /\ i.pf \in BOOLEAN
  BY InfosAssumption DEF Info
<1>2. PICK e \in {0, 1}, r \in {0, 1} : e = BitOf(i.ea) /\ r = BitOf(i.cr)
  BY DEF BitOf
<1>3. AddressByte(i.ea, i.cr, i.dlci) \in Octet
  <2>1. e + 2 * r + 4 * i.dlci \in Int
    <3>1. e \in Int /\ r \in Int
      BY <1>2
    <3>2. i.dlci \in Int
      BY <1>1 DEF Octet
    <3> QED BY <3>1, <3>2
  <2>2. \A z \in Int : z % 256 \in 0 .. 255
    OBVIOUS
  <2>3. (e + 2 * r + 4 * i.dlci) % 256 \in 0 .. 255
    BY <2>1, <2>2
  <2> QED BY <1>2, <2>3 DEF AddressByte, Octet
<1>4. CASE i.pf
  BY <1>1, <1>3, <1>4
  DEF ControlByte, BitOf, Types, SABM, UA, DM, DISC, UIH, UI, Octet
<1>5. CASE ~i.pf
  BY <1>1, <1>3, <1>5
  DEF ControlByte, BitOf, Types, SABM, UA, DM, DISC, UIH, UI, Octet
<1> QED BY <1>1, <1>4, <1>5

LEMMA BodyType ==
  ASSUME NEW i \in Infos
  PROVE  i.body \in Seq(Octet) /\ Len(i.body) \in Nat
<1>1. i.body \in Seq(Octet)
  BY InfosAssumption DEF Info
<1> QED BY <1>1, LenProperties

(* The length field takes the bytes that are allocated for it. *)
LEMMA LengthField ==
  ASSUME NEW n \in Nat
  PROVE  /\ LengthBytes(n) \in Seq(Octet)
         /\ Len(LengthBytes(n)) \in {1, 2}
         /\ BuilderLength(n) = 5 + Len(LengthBytes(n)) + n
         /\ n <= 127 => /\ Len(LengthBytes(n)) = 1
                        /\ LengthBytes(n)[1] = 2 * n + 1
<1>1. CASE n > 127
  <2>1. n % 128 \in 0 .. 127 /\ (n \div 128) % 256 \in 0 .. 255
    <3>1. n \div 128 \in Int
      OBVIOUS
    <3> QED BY <3>1
  <2>2. PICK a, b : /\ a = 2 * (n % 128) /\ b = (n \div 128) % 256
                    /\ a \in Octet /\ b \in Octet
    BY <2>1 DEF Octet
  <2>3. LengthBytes(n) = <<a, b>>
    BY <1>1, <2>2 DEF LengthBytes
  <2>4. BuilderLength(n) = 7 + n /\ ~(n <= 127)
    BY <1>1 DEF BuilderLength
  <2> QED BY <2>2, <2>3, <2>4
<1>2. CASE ~(n > 127)
  <2>1. LengthBytes(n) = <<2 * n + 1>> /\ 2 * n + 1 \in Octet
    BY <1>2 DEF LengthBytes, Octet
  <2>2. BuilderLength(n) = 6 + n
    BY <1>2 DEF BuilderLength
  <2> QED BY <2>1, <2>2
<1> QED BY <1>1, <1>2

LEMMA HeaderBytes ==
  ASSUME NEW i \in Infos
  PROVE  LET h == Header(i)
             n == Len(i.body)
         IN  /\ h \in Seq(Octet)
             /\ Len(h) = 2 + Len(LengthBytes(n))
             /\ h[1] = AddressByte(i.ea, i.cr, i.dlci)
             /\ h[2] = ControlByte(i.type, i.pf)
             /\ n <= 127 => Len(h) = 3 /\ h[3] = 2 * n + 1
<1> DEFINE a == AddressByte(i.ea, i.cr, i.dlci)
           c == ControlByte(i.type, i.pf)
           s == <<a, c>>
           n == Len(i.body)
           l == LengthBytes(n)
           h == s \o l
<1>1. n \in Nat
  BY BodyType
<1>2. /\ l \in Seq(Octet) /\ Len(l) \in {1, 2}
      /\ n <= 127 => Len(l) = 1 /\ l[1] = 2 * n + 1
  <2> HIDE DEF n
  <2> QED BY <1>1, LengthField
<1>3. s \in Seq(Octet) /\ Len(s) = 2 /\ s[1] = a /\ s[2] = c
  BY HeaderByte
<1> HIDE DEF l, s, n
<1>4. /\ h \in Seq(Octet) /\ Len(h) = Len(s) + Len(l)
      /\ \A k \in 1 .. Len(s) : h[k] = s[k]
      /\ \A k \in 1 .. Len(l) : h[Len(s) + k] = l[k]
  <2>1. s \in Seq(Octet) /\ l \in Seq(Octet)
    BY <1>2, <1>3
  <2> QED BY <2>1, Joined
<1> HIDE DEF h
<1>5. h[1] = s[1] /\ h[2] = s[2] /\ h[3] = l[1] /\ Len(h) = 2 + Len(l)
  <2>1. 1 \in 1 .. Len(s) /\ 2 \in 1 .. Len(s) /\ 1 \in 1 .. Len(l) /\ Len(s) + 1 = 3
    <3>1. Len(s) = 2 /\ Len(l) \in {1, 2}
      BY <1>2, <1>3
    <3> QED BY <3>1
  <2>2. h[1] = s[1] /\ h[2] = s[2]
    BY <1>4, <2>1
  <2>3. h[Len(s) + 1] = l[1]
    BY <1>4, <2>1
  <2>4. Len(h) = 2 + Len(l)
    BY <1>3, <1>4
  <2> QED BY <2>1, <2>2, <2>3, <2>4
<1>6. /\ h \in Seq(Octet) /\ Len(h) = 2 + Len(l)
      /\ h[1] = a /\ h[2] = c
      /\ n <= 127 => Len(h) = 3 /\ h[3] = 2 * n + 1
  BY <1>2, <1>3, <1>4, <1>5
<1>7. Header(i) = h
  BY DEF Header, h, s, l, n
<1> QED BY <1>6, <1>7 DEF n, l

(* A header and a body between a first byte and two last ones. *)
LEMMA Wrapped ==
  ASSUME NEW S, NEW h \in Seq(S), NEW p \in Seq(S),
         NEW a \in S, NEW b \in S, NEW c \in S
  PROVE  LET f == <<a>> \o h \o p \o <<b, c>>
             l == Len(h)
             n == Len(p)
         IN  /\ f \in Seq(S) /\ Len(f) = l + n + 3
             /\ f[1] = a
             /\ \A k \in 1 .. l : f[k + 1] = h[k]
             /\ \A k \in 1 .. n : f[(l + 1) + k] = p[k]
             /\ f[l + n + 2] = b /\ f[l + n + 3] = c
<1> DEFINE x == <<a>>
           z == <<b, c>>
           l == Len(h)
           n == Len(p)
           u == x \o h
           v == u \o p
           f == v \o z
<1>1. x \in Seq(S) /\ Len(x) = 1 /\ x[1] = a
  OBVIOUS
<1>2. z \in Seq(S) /\ Len(z) = 2 /\ z[1] = b /\ z[2] = c
  OBVIOUS
<1>3. l \in Nat /\ n \in Nat
  BY LenProperties
<1> HIDE DEF x, z
<1>4. /\ u \in Seq(S) /\ Len(u) = Len(x) + l
      /\ \A k \in 1 .. Len(x) : u[k] = x[k]
      /\ \A k \in 1 .. l : u[Len(x) + k] = h[k]
  <2>1. x \in Seq(S) /\ h \in Seq(S)
    BY <1>1
  <2> QED BY <2>1, Joined
<1> HIDE DEF u
<1>5. /\ v \in Seq(S) /\ Len(v) = Len(u) + n
      /\ \A k \in 1 .. Len(u) : v[k] = u[k]
      /\ \A k \in 1 .. n : v[Len(u) + k] = p[k]
  <2>1. u \in Seq(S) /\ p \in Seq(S)
    BY <1>4
  <2> QED BY <2>1, Joined
<1> HIDE DEF v
<1>6. /\ f \in Seq(S) /\ Len(f) = Len(v) + Len(z)
      /\ \A k \in 1 .. Len(v) : f[k] = v[k]
      /\ \A k \in 1 .. Len(z) : f[Len(v) + k] = z[k]
  <2>1. v \in Seq(S) /\ z \in Seq(S)
    BY <1>2, <1>5
  <2> QED BY <2>1, Joined
<1> HIDE DEF f, l, n
<1>7. Len(u) = l + 1 /\ Len(v) = l + n + 1 /\ Len(f) = l + n + 3
  BY <1>1, <1>2, <1>3, <1>4, <1>5, <1>6
<1>8. f[1] = a
  <2>1. 1 \in 1 .. Len(x) /\ 1 \in 1 .. Len(u) /\ 1 \in 1 .. Len(v)
    BY <1>1, <1>3, <1>7
  <2> QED BY <1>1, <1>4, <1>5, <1>6, <2>1
<1>9. ASSUME NEW k \in 1 .. l PROVE f[k + 1] = h[k]
  <2>1. k + 1 \in 1 .. Len(u) /\ k + 1 \in 1 .. Len(v) /\ Len(x) + k = k + 1
    BY <1>1, <1>3, <1>7
  <2>2. f[k + 1] = u[k + 1]
    BY <1>5, <1>6, <2>1
  <2>3. u[Len(x) + k] = h[k]
    BY <1>4
  <2> QED BY <2>1, <2>2, <2>3
<1>10. ASSUME NEW k \in 1 .. n PROVE f[(l + 1) + k] = p[k]
  <2>1. (l + 1) + k \in 1 .. Len(v) /\ Len(u) + k = (l + 1) + k
    BY <1>3, <1>7
  <2>2. f[(l + 1) + k] = v[(l + 1) + k]
    BY <1>6, <2>1
  <2>3. v[Len(u) + k] = p[k]
    BY <1>5
  <2> QED BY <2>1, <2>2, <2>3
<1>11. f[l + n + 2] = b /\ f[l + n + 3] = c
  <2>1. /\ 1 \in 1 .. Len(z) /\ 2 \in 1 .. Len(z)
        /\ Len(v) + 1 = l + n + 2 /\ Len(v) + 2 = l + n + 3
    BY <1>2, <1>3, <1>7
  <2>2. f[Len(v) + 1] = z[1] /\ f[Len(v) + 2] = z[2]
    BY <1>6, <2>1
  <2> QED BY <1>2, <2>1, <2>2
<1> QED BY <1>6, <1>7, <1>8, <1>9, <1>10, <1>11 DEF f, v, u, x, z, l, n

LEMMA BuildBytes ==
  ASSUME NEW i \in Infos, NEW m \in Memory
  PROVE  LET f == Build(i, m)
             h == Header(i)
             l == Len(h)
             n == Len(i.body)
         IN  /\ f \in Seq(Octet) /\ Len(f) = BuilderLength(n)
             /\ Len(f) = l + n + 3
             /\ f[1] = Flag
             /\ \A k \in 1 .. l : f[k + 1] = h[k]
             /\ \A k \in 1 .. n : f[(l + 1) + k] = i.body[k]
             /\ i.type # UI => f[l + n + 2] = Fcs(h)
             /\ f[l + n + 3] = Flag
<1> DEFINE h == Header(i)
           p == i.body
           l == Len(h)
           n == Len(p)
<1>1. PICK c : c = Fcs(IF i.type = UI THEN h \o [k \in 1 .. n |-> m] ELSE h)
  OBVIOUS
<1>2. Build(i, m) = <<Flag>> \o h \o p \o <<c, Flag>>
  BY <1>1, Zenon DEF Build
<1>3. c \in Octet
  <2>1. Fcs(h) \in Octet /\ (i.type = UI => Fcs(h \o [k \in 1 .. n |-> m]) \in Octet)
    BY FcsAssumption DEF FcsTellsHeaders
  <2> HIDE DEF h, n
  <2>2. CASE i.type = UI
    BY <1>1, <2>1, <2>2
  <2>3. CASE i.type # UI
    BY <1>1, <2>1, <2>3
  <2> QED BY <2>2, <2>3
<1>4. i.type # UI => c = Fcs(h)
  <2> HIDE DEF h, n
  <2> QED BY <1>1
<1>5. h \in Seq(Octet) /\ l = 2 + Len(LengthBytes(n))
  BY HeaderBytes
<1>6. n \in Nat /\ p \in Seq(Octet) /\ Flag \in Octet
  BY BodyType DEF Flag, Octet
<1>7. /\ Len(LengthBytes(n)) \in {1, 2}
      /\ BuilderLength(n) = 5 + Len(LengthBytes(n)) + n
  <2> HIDE DEF n
  <2> QED BY <1>6, LengthField
<1> DEFINE f == <<Flag>> \o h \o p \o <<c, Flag>>
<1> HIDE DEF h, p
<1>8. /\ f \in Seq(Octet) /\ Len(f) = l + n + 3
      /\ f[1] = Flag
      /\ \A k \in 1 .. l : f[k + 1] = h[k]
      /\ \A k \in 1 .. n : f[(l + 1) + k] = p[k]
      /\ f[l + n + 2] = c /\ f[l + n + 3] = Flag
  <2>1. /\ h \in Seq(Octet) /\ p \in Seq(Octet)
        /\ Flag \in Octet /\ c \in Octet
    BY <1>3, <1>5, <1>6
  <2> QED BY <2>1, Wrapped, SMTT(30)
<1> HIDE DEF f, l, n
<1>9. Len(f) = BuilderLength(n)
  BY <1>5, <1>6, <1>7, <1>8
<1>10. Build(i, m) = f
  BY <1>2 DEF f
<1>11. /\ f \in Seq(Octet) /\ Len(f) = BuilderLength(n)
       /\ Len(f) = l + n + 3
       /\ f[1] = Flag
       /\ \A k \in 1 .. l : f[k + 1] = h[k]
       /\ \A k \in 1 .. n : f[(l + 1) + k] = p[k]
       /\ i.type # UI => f[l + n + 2] = Fcs(h)
       /\ f[l + n + 3] = Flag
  BY <1>4, <1>8, <1>9
<1> QED BY <1>10, <1>11 DEF h, p, l, n

----------------------------------------------------------------------------
(* What is received and what is still on the wire are together the frame   *)
(* that was built, or that frame with one byte of its header damaged.      *)
Transmitted(f) ==
  \E m \in Memory :
    \/ ~damaged /\ f = Build(info, m)
    \/ /\ damaged
       /\ \E k \in {2, 3}, b \in Damages :
            /\ Build(info, m)[k] # b
            /\ f = [Build(info, m) EXCEPT ![k] = b]

(* f consists of the received cells and the wire. *)
MadeOf(f) ==
  /\ Len(f) = len + Len(wire)
  /\ \A k \in 1 .. len : cells[k] = f[k]
  /\ \A k \in 1 .. Len(wire) : wire[k] = f[len + k]

FrameInv ==
  /\ TypeOK
  /\ info \in Infos
  /\ \E f \in Seq(Octet) : Transmitted(f) /\ MadeOf(f)

(* A frame was built and nothing of it is received. *)
Begun ==
  \E i \in Infos, m \in Memory, b \in Stale :
    /\ info = i /\ wire = Build(i, m)
    /\ cells = [k \in 1 .. Cells |-> b]
    /\ len = 0 /\ damaged = FALSE

LEMMA FrameBegun == Begun => FrameInv
<1> SUFFICES ASSUME NEW i \in Infos, NEW m \in Memory, NEW b \in Stale,
                    info = i, wire = Build(i, m),
                    cells = [k \in 1 .. Cells |-> b],
                    len = 0, damaged = FALSE
             PROVE  FrameInv
  BY DEF Begun
<1>1. wire \in Seq(Octet) /\ Len(wire) \in Nat
  <2>1. wire \in Seq(Octet)
    BY BuildBytes
  <2> QED BY <2>1, LenProperties
<1>2. TypeOK
  <2>1. i \in Info
    BY InfosAssumption
  <2>2. cells \in [1 .. Cells -> Octet]
    BY OctetsAssumption
  <2>3. len \in 0 .. Cells
    BY CellsAssumption
  <2> QED BY <1>1, <2>1, <2>2, <2>3 DEF TypeOK
<1>3. Transmitted(wire)
  BY DEF Transmitted
<1>4. MadeOf(wire)
  BY <1>1 DEF MadeOf
<1> QED BY <1>1, <1>2, <1>3, <1>4 DEF FrameInv

LEMMA FrameDamaged ==
  FrameInv /\ (\E k \in {2, 3}, b \in Damages : Damage(k, b)) => FrameInv'
<1> SUFFICES ASSUME FrameInv, NEW k \in {2, 3}, NEW b \in Damages, Damage(k, b)
             PROVE  FrameInv'
  OBVIOUS
<1>1. /\ info \in Info /\ wire \in Seq(Octet) /\ len = 0 /\ ~damaged
      /\ wire[k] # b
      /\ wire' = [wire EXCEPT ![k] = b] /\ damaged' = TRUE
      /\ info' = info /\ cells' = cells /\ len' = len
  BY DEF Damage, FrameInv, TypeOK
<1>2. PICK f \in Seq(Octet) : Transmitted(f) /\ MadeOf(f)
  BY DEF FrameInv
<1>3. wire = f
  <2>1. Len(f) = Len(wire) /\ \A j \in 1 .. Len(wire) : wire[j] = f[j]
    <3>1. Len(wire) \in Nat
      BY <1>1, LenProperties
    <3> QED BY <1>1, <1>2, <3>1 DEF MadeOf
  <2> QED BY <1>1, <2>1, SeqEqual
<1>4. PICK m \in Memory : wire = Build(info, m)
  BY <1>1, <1>2, <1>3 DEF Transmitted
<1>5. b \in Octet
  BY OctetsAssumption
<1>6. k \in 1 .. Len(wire)
  <2>1. Len(wire) = Len(Header(info)) + Len(info.body) + 3
    BY <1>4, BuildBytes DEF FrameInv
  <2>2. Len(Header(info)) \in Nat /\ Len(info.body) \in Nat
    BY HeaderBytes, BodyType, LenProperties DEF FrameInv
  <2> QED BY <2>1, <2>2
<1>7. wire' \in Seq(Octet) /\ Len(wire') = Len(wire) /\ Len(wire') \in Nat
  <2>1. wire' \in Seq(Octet) /\ Len(wire') = Len(wire)
    BY <1>1, <1>5, <1>6, ExceptSeq
  <2> QED BY <2>1, LenProperties
<1>8. TypeOK'
  <2>1. cells \in [1 .. Cells -> Octet] /\ len \in 0 .. Cells
    BY DEF TypeOK, FrameInv
  <2> QED BY <1>1, <1>7, <2>1 DEF TypeOK
<1>9. PICK g \in Seq(Octet) : g = wire'
  BY <1>7
<1>10. Transmitted(g)'
  <2>1. /\ Build(info, m)[k] # b
        /\ g = [Build(info, m) EXCEPT ![k] = b]
    BY <1>1, <1>4, <1>9
  <2> QED BY <1>1, <2>1 DEF Transmitted
<1>11. MadeOf(g)'
  <2>1. /\ Len(g) = len' + Len(wire')
        /\ \A j \in 1 .. len' : cells'[j] = g[j]
        /\ \A j \in 1 .. Len(wire') : wire'[j] = g[len' + j]
    BY <1>1, <1>7, <1>9
  <2> QED BY <2>1 DEF MadeOf
<1> QED BY <1>1, <1>8, <1>10, <1>11 DEF FrameInv

LEMMA FrameReceived ==
  FrameInv /\ (\E n \in 1 .. MaxPiece : Receive(n)) => FrameInv'
<1> SUFFICES ASSUME FrameInv, NEW n \in 1 .. MaxPiece, Receive(n)
             PROVE  FrameInv'
  OBVIOUS
<1>1. /\ n <= Len(wire) /\ len + n <= Cells
      /\ cells' = [k \in 1 .. Cells |->
                     IF k \in len + 1 .. len + n THEN wire[k - len] ELSE cells[k]]
      /\ len' = len + n
      /\ wire' = SubSeq(wire, n + 1, Len(wire))
      /\ info' = info /\ damaged' = damaged
  BY DEF Receive
<1>2. /\ info \in Info /\ wire \in Seq(Octet) /\ len \in Nat
      /\ cells \in [1 .. Cells -> Octet] /\ damaged \in BOOLEAN
  BY CellsAssumption DEF FrameInv, TypeOK
<1>3. n \in Nat \ {0} /\ Len(wire) \in Nat /\ Cells \in Nat
  BY <1>2, CellsAssumption, LenProperties
<1>4. PICK f \in Seq(Octet) : Transmitted(f) /\ MadeOf(f)
  BY DEF FrameInv
<1>5. /\ wire' \in Seq(Octet) /\ Len(wire') = Len(wire) - n
      /\ \A k \in 1 .. Len(wire) - n : wire'[k] = wire[k + n]
  <2> DEFINE e == Len(wire)
  <2>1. /\ n + 1 \in Nat \ {0} /\ e \in Nat /\ n + 1 <= e + 1 /\ e <= Len(wire)
        /\ e - (n + 1) + 1 = e - n /\ (n + 1) - 1 = n
    BY <1>1, <1>3
  <2> HIDE DEF e
  <2>2. /\ SubSeq(wire, n + 1, e) \in Seq(Octet)
        /\ Len(SubSeq(wire, n + 1, e)) = e - (n + 1) + 1
        /\ \A k \in 1 .. e - (n + 1) + 1 :
             SubSeq(wire, n + 1, e)[k] = wire[k + ((n + 1) - 1)]
    BY <1>2, <2>1, Slice
  <2> QED BY <1>1, <2>1, <2>2 DEF e
<1>6. cells' \in [1 .. Cells -> Octet]
  <2>1. ASSUME NEW k \in 1 .. Cells
        PROVE  (IF k \in len + 1 .. len + n THEN wire[k - len] ELSE cells[k])
                 \in Octet
    <3>1. CASE k \in len + 1 .. len + n
      <4>1. k - len \in 1 .. Len(wire)
        BY <1>1, <1>2, <1>3, <3>1
      <4>2. wire[k - len] \in Octet
        BY <1>2, <4>1, ElementOfSeq
      <4> QED BY <3>1, <4>2
    <3>2. CASE k \notin len + 1 .. len + n
      BY <1>2, <3>2
    <3> QED BY <3>1, <3>2
  <2> QED BY <1>1, <2>1
<1>7. TypeOK'
  <2>1. len' \in 0 .. Cells
    BY <1>1, <1>2, <1>3
  <2> QED BY <1>1, <1>2, <1>5, <1>6, <2>1 DEF TypeOK
<1>8. Transmitted(f)'
  BY <1>1, <1>4 DEF Transmitted
<1>9. MadeOf(f)'
  <2>1. /\ Len(f) = len + Len(wire)
        /\ \A k \in 1 .. len : cells[k] = f[k]
        /\ \A k \in 1 .. Len(wire) : wire[k] = f[len + k]
    BY <1>4 DEF MadeOf
  <2>2. Len(f) = len' + Len(wire')
    BY <1>1, <1>2, <1>3, <1>5, <2>1
  <2>3. ASSUME NEW k \in 1 .. len' PROVE cells'[k] = f[k]
    <3>1. k \in 1 .. Cells
      BY <1>1, <1>2, <1>3
    <3>2. CASE k \in len + 1 .. len + n
      <4>1. k - len \in 1 .. Len(wire) /\ len + (k - len) = k
        BY <1>1, <1>2, <1>3, <3>2
      <4>2. wire[k - len] = f[len + (k - len)]
        BY <2>1, <4>1
      <4> QED BY <1>1, <3>1, <3>2, <4>1, <4>2
    <3>3. CASE k \notin len + 1 .. len + n
      <4>1. k \in 1 .. len
        BY <1>1, <1>2, <1>3, <3>3
      <4> QED BY <1>1, <2>1, <3>1, <3>3, <4>1
    <3> QED BY <3>2, <3>3
  <2>4. ASSUME NEW k \in 1 .. Len(wire') PROVE wire'[k] = f[len' + k]
    <3>1. /\ k \in 1 .. Len(wire) - n /\ k + n \in 1 .. Len(wire)
          /\ len + (k + n) = len' + k
      BY <1>1, <1>2, <1>3, <1>5
    <3>2. wire'[k] = wire[k + n] /\ wire[k + n] = f[len + (k + n)]
      BY <1>5, <2>1, <3>1
    <3> QED BY <3>1, <3>2
  <2> QED BY <2>2, <2>3, <2>4 DEF MadeOf
<1> QED BY <1>1, <1>7, <1>8, <1>9 DEF FrameInv

(* The invariant holds always. *)
THEOREM FrameInvariance == Spec => []FrameInv
<1>1. Init => FrameInv
  <2>1. Init => Begun
    BY DEF Init, Begun
  <2> QED BY <2>1, FrameBegun
<1>2. FrameInv /\ [Next]_vars => FrameInv'
  <2>1. CASE \E i \in Infos, m \in Memory, b \in Stale : Another(i, m, b)
    <3>1. Begun'
      BY <2>1 DEF Another, Begun
    <3> QED BY <3>1, FrameBegun, PTL
  <2>2. CASE UNCHANGED vars
    <3>1. UNCHANGED <<info, wire, cells, len, damaged>>
      BY <2>2 DEF vars
    <3>2. ASSUME NEW f, Transmitted(f), MadeOf(f)
          PROVE  Transmitted(f)' /\ MadeOf(f)'
      BY <3>1, <3>2 DEF Transmitted, MadeOf
    <3>3. TypeOK => TypeOK'
      BY <3>1 DEF TypeOK
    <3>4. FrameInv => FrameInv'
      BY <3>1, <3>2, <3>3 DEF FrameInv
    <3> QED BY <3>4
  <2> QED BY <2>1, <2>2, FrameDamaged, FrameReceived DEF Next
<1> QED BY <1>1, <1>2, PTL DEF Spec

(* The variables stay in their types: the builder makes octets of every    *)
(* struct, and no piece is written outside the receiver's memory.          *)
THEOREM FrameTypeCorrect == Spec => []TypeOK
<1>1. FrameInv => TypeOK
  BY DEF FrameInv
<1> QED BY <1>1, FrameInvariance, PTL

LEMMA TransmittedBytes ==
  ASSUME FrameInv, NEW f \in Seq(Octet), Transmitted(f)
  PROVE  \E m \in Memory :
           LET g == Build(info, m)
           IN  /\ g \in Seq(Octet) /\ Len(f) = Len(g)
               /\ ~damaged => f = g
               /\ damaged => \E k \in {2, 3}, b \in Damages :
                               g[k] # b /\ f = [g EXCEPT ![k] = b]
<1>1. info \in Infos
  BY DEF FrameInv
<1>2. PICK m \in Memory :
        \/ ~damaged /\ f = Build(info, m)
        \/ /\ damaged
           /\ \E k \in {2, 3}, b \in Damages :
                /\ Build(info, m)[k] # b
                /\ f = [Build(info, m) EXCEPT ![k] = b]
  BY DEF Transmitted
<1> DEFINE g == Build(info, m)
<1>3. g \in Seq(Octet) /\ Len(g) = Len(Header(info)) + Len(info.body) + 3
  BY <1>1, BuildBytes
<1>4. Len(Header(info)) \in Nat /\ Len(info.body) \in Nat
  BY <1>1, HeaderBytes, BodyType, LenProperties
<1> HIDE DEF g
<1>5. ASSUME NEW k \in {2, 3}, NEW b \in Damages, f = [g EXCEPT ![k] = b]
      PROVE  Len(f) = Len(g)
  <2>1. k \in 1 .. Len(g) /\ b \in Octet
    BY <1>3, <1>4, OctetsAssumption
  <2> QED BY <1>3, <1>5, <2>1, ExceptSeq
<1>6. Len(f) = Len(g)
  BY <1>2, <1>5 DEF g
<1> QED BY <1>2, <1>3, <1>6 DEF g

(* The memory allocated for a frame is exactly what the builder fills, for *)
(* a body of any length: what was received and what is on the wire.        *)
THEOREM FrameMemory == Spec => []FitsAllocation
<1>1. FrameInv => FitsAllocation
  <2> SUFFICES ASSUME FrameInv PROVE FitsAllocation
    OBVIOUS
  <2>1. PICK f \in Seq(Octet) : Transmitted(f) /\ MadeOf(f)
    BY DEF FrameInv
  <2>2. PICK m \in Memory : Len(f) = Len(Build(info, m))
    BY <2>1, TransmittedBytes
  <2>3. Len(Build(info, m)) = BuilderLength(Len(info.body))
    BY BuildBytes DEF FrameInv
  <2> QED BY <2>1, <2>2, <2>3 DEF MadeOf, FitsAllocation
<1> QED BY <1>1, FrameInvariance, PTL

(* A complete frame with the short length field, as the parser finds it.   *)
LEMMA ArrivedShort ==
  ASSUME FrameInv, wire = <<>>, Len(info.body) <= 127
  PROVE  LET n == Len(info.body)
             header == Header(info)
             h == <<cells[2], cells[3], cells[4]>>
         IN  /\ n \in Nat /\ len = n + 6 /\ len <= Cells
             /\ cells[1] = Flag
             /\ ~Extended(cells) /\ DecodedLength(cells) = n
             /\ BodyIndex(cells) = 4
             /\ \A k \in 1 .. n : cells[k + 4] = info.body[k]
             /\ info.type # UI => cells[n + 5] = Fcs(header)
             /\ cells[n + 6] = Flag
             /\ ~damaged => h = header
             /\ damaged => \E k \in {1, 2}, b \in Damages :
                             header[k] # b /\ h = [header EXCEPT ![k] = b]
<1> DEFINE n == Len(info.body)
           header == Header(info)
           h == <<cells[2], cells[3], cells[4]>>
<1>1. info \in Infos /\ n \in Nat /\ n <= 127
  BY BodyType DEF FrameInv
<1>2. PICK f \in Seq(Octet) : Transmitted(f) /\ MadeOf(f)
  BY DEF FrameInv
<1>3. PICK m \in Memory :
        LET g == Build(info, m)
        IN  /\ g \in Seq(Octet) /\ Len(f) = Len(g)
            /\ ~damaged => f = g
            /\ damaged => \E k \in {2, 3}, b \in Damages :
                            g[k] # b /\ f = [g EXCEPT ![k] = b]
  BY <1>2, TransmittedBytes
<1> DEFINE g == Build(info, m)
<1>4. /\ header \in Seq(Octet) /\ Len(header) = 3
      /\ header[3] = 2 * n + 1
  BY <1>1, HeaderBytes
<1>5. /\ g \in Seq(Octet) /\ Len(g) = Len(header) + n + 3
      /\ g[1] = Flag
      /\ \A k \in 1 .. Len(header) : g[k + 1] = header[k]
      /\ \A k \in 1 .. n : g[(Len(header) + 1) + k] = info.body[k]
      /\ info.type # UI => g[Len(header) + n + 2] = Fcs(header)
      /\ g[Len(header) + n + 3] = Flag
  BY <1>1, BuildBytes
<1> HIDE DEF g, header, n
<1>6. /\ Len(g) = n + 6 /\ g[1] = Flag
      /\ g[2] = header[1] /\ g[3] = header[2] /\ g[4] = 2 * n + 1
      /\ \A k \in 1 .. n : g[k + 4] = info.body[k]
      /\ info.type # UI => g[n + 5] = Fcs(header)
      /\ g[n + 6] = Flag
  <2>1. /\ Len(header) + n + 3 = n + 6 /\ Len(header) + n + 2 = n + 5
        /\ \A k \in 1 .. n : (Len(header) + 1) + k = k + 4
    BY <1>1, <1>4
  <2>2. g[1 + 1] = header[1] /\ g[2 + 1] = header[2] /\ g[3 + 1] = header[3]
    BY <1>4, <1>5
  <2> QED BY <1>4, <1>5, <2>1, <2>2
<1>7. /\ len = n + 6 /\ len <= Cells
      /\ \A k \in 1 .. n + 6 : cells[k] = f[k]
  <2>1. len \in 0 .. Cells /\ Len(wire) = 0 /\ Cells \in Nat
    BY CellsAssumption DEF FrameInv, TypeOK
  <2>2. Len(f) = n + 6
    BY <1>3, <1>6 DEF g
  <2> QED BY <1>2, <2>1, <2>2 DEF MadeOf
<1>8. ASSUME NEW k \in 1 .. n + 6, k \notin {2, 3} PROVE cells[k] = g[k]
  <2>1. ~damaged => f = g
    BY <1>3 DEF g
  <2>2. damaged => \E j \in {2, 3}, b \in Damages : f = [g EXCEPT ![j] = b]
    BY <1>3 DEF g
  <2>3. k \in DOMAIN g
    BY <1>1, <1>5, <1>6
  <2>4. f[k] = g[k]
    BY <1>8, <2>1, <2>2, <2>3
  <2> QED BY <1>7, <2>4
<1>9. cells[1] = Flag /\ cells[4] = 2 * n + 1 /\ cells[n + 6] = Flag
  <2>1. /\ 1 \in 1 .. n + 6 /\ 4 \in 1 .. n + 6 /\ n + 6 \in 1 .. n + 6
        /\ n + 6 \notin {2, 3}
    BY <1>1
  <2> QED BY <1>6, <1>8, <2>1
<1>10. ASSUME NEW k \in 1 .. n PROVE cells[k + 4] = info.body[k]
  <2>1. k + 4 \in 1 .. n + 6 /\ k + 4 \notin {2, 3}
    BY <1>1
  <2> QED BY <1>6, <1>8, <2>1
<1>11. info.type # UI => cells[n + 5] = Fcs(header)
  <2>1. n + 5 \in 1 .. n + 6 /\ n + 5 \notin {2, 3}
    BY <1>1
  <2> QED BY <1>6, <1>8, <2>1
<1>12. ~Extended(cells) /\ DecodedLength(cells) = n /\ BodyIndex(cells) = 4
  <2>1. cells[4] = LengthBytes(n)[1]
    BY <1>1, <1>9 DEF LengthBytes
  <2> QED BY <1>1, <2>1, ShortLengthDecodes
<1>13. h \in Seq(Octet) /\ Len(h) = 3
  <2>1. cells \in [1 .. Cells -> Octet] /\ Cells >= 5 /\ Cells \in Nat
    BY CellsAssumption DEF FrameInv, TypeOK
  <2>2. cells[2] \in Octet /\ cells[3] \in Octet /\ cells[4] \in Octet
    BY <2>1
  <2> QED BY <2>2
<1>14. \A j \in 1 .. 3 : h[j] = f[j + 1]
  <2>1. 2 \in 1 .. n + 6 /\ 3 \in 1 .. n + 6 /\ 4 \in 1 .. n + 6
    BY <1>1
  <2>2. cells[2] = f[2] /\ cells[3] = f[3] /\ cells[4] = f[4]
    BY <1>7, <2>1
  <2> QED BY <2>2
<1>15. \A j \in 1 .. 3 : g[j + 1] = header[j]
  BY <1>4, <1>6
<1>16. ~damaged => h = header
  <2> SUFFICES ASSUME ~damaged PROVE h = header
    OBVIOUS
  <2>1. f = g
    BY <1>3 DEF g
  <2>2. Len(h) = Len(header) /\ \A j \in 1 .. Len(h) : h[j] = header[j]
    BY <1>4, <1>13, <1>14, <1>15, <2>1
  <2> HIDE DEF h
  <2> QED BY <1>4, <1>13, <2>2, SeqEqual
<1>17. damaged => \E k \in {1, 2}, b \in Damages :
                    header[k] # b /\ h = [header EXCEPT ![k] = b]
  <2> SUFFICES ASSUME damaged
               PROVE  \E k \in {1, 2}, b \in Damages :
                        header[k] # b /\ h = [header EXCEPT ![k] = b]
    OBVIOUS
  <2>1. PICK k \in {2, 3}, b \in Damages : g[k] # b /\ f = [g EXCEPT ![k] = b]
    BY <1>3 DEF g
  <2>2. PICK j \in {1, 2} : j + 1 = k
    OBVIOUS
  <2> DEFINE d == [header EXCEPT ![j] = b]
  <2>3. header[j] # b
    BY <1>15, <2>1, <2>2
  <2>4. d \in Seq(Octet) /\ Len(d) = 3
    <3>1. header \in Seq(Octet) /\ j \in 1 .. Len(header) /\ b \in Octet
      BY <1>4, OctetsAssumption
    <3>2. d \in Seq(Octet) /\ Len(d) = Len(header)
      BY <3>1, ExceptSeq
    <3> QED BY <1>4, <3>2
  <2>5. ASSUME NEW i \in 1 .. 3 PROVE h[i] = d[i]
    <3>1. i \in DOMAIN header /\ i + 1 \in DOMAIN g
      BY <1>1, <1>4, <1>5, <1>6
    <3>2. h[i] = f[i + 1] /\ g[i + 1] = header[i]
      BY <1>14, <1>15
    <3>3. CASE i = j
      BY <2>1, <2>2, <3>1, <3>2, <3>3
    <3>4. CASE i # j
      BY <2>1, <2>2, <3>1, <3>2, <3>4
    <3> QED BY <3>3, <3>4
  <2> HIDE DEF h, d
  <2>6. Len(h) = Len(d) /\ \A i \in 1 .. Len(h) : h[i] = d[i]
    BY <1>13, <2>4, <2>5
  <2>7. h = d
    BY <1>13, <2>4, <2>6, SeqEqual
  <2> QED BY <2>3, <2>7 DEF d
<1> HIDE DEF h
<1> QED BY <1>1, <1>7, <1>9, <1>10, <1>11, <1>12, <1>16, <1>17
        DEF n, header, h

(* In a complete frame with the short length field the FCS is compared     *)
(* with that of the received header, unless the control field says UI.     *)
LEMMA ShortIsChecked ==
  ASSUME FrameInv, wire = <<>>, Len(info.body) <= 127, info.type # UI,
         DecodedType(cells[3]) # UI
  PROVE  CheckValid(cells, len) <=>
           Fcs(Header(info)) = Fcs(<<cells[2], cells[3], cells[4]>>)
<1> DEFINE n == Len(info.body)
           h == <<cells[2], cells[3], cells[4]>>
<1>1. /\ n \in Nat /\ len = n + 6 /\ len <= Cells
      /\ cells[1] = Flag
      /\ DecodedLength(cells) = n /\ BodyIndex(cells) = 4
      /\ cells[n + 5] = Fcs(Header(info)) /\ cells[n + 6] = Flag
  BY ArrivedShort
<1>2. cells \in Seq(Octet) /\ Len(cells) = Cells /\ Cells \in Nat
  BY CellsAssumption, IsASeq DEF FrameInv, TypeOK
<1>3. Covered(cells) = SubSeq(cells, 2, 4)
  BY <1>1 DEF Covered
<1>4. SubSeq(cells, 2, 4) = h
  <2>1. /\ 2 \in Nat \ {0} /\ 4 \in Nat /\ 2 <= 4 + 1 /\ 4 <= Len(cells)
        /\ 4 - 2 + 1 = 3
    BY <1>1, <1>2
  <2>2. /\ SubSeq(cells, 2, 4) \in Seq(Octet)
        /\ Len(SubSeq(cells, 2, 4)) = 4 - 2 + 1
        /\ \A k \in 1 .. 4 - 2 + 1 : SubSeq(cells, 2, 4)[k] = cells[k + (2 - 1)]
    BY <1>2, <2>1, Slice
  <2> DEFINE s == SubSeq(cells, 2, 4)
  <2> HIDE DEF s
  <2>3. s \in Seq(Octet) /\ Len(s) = 3
    BY <2>2 DEF s
  <2>4. s[1] = cells[2] /\ s[2] = cells[3] /\ s[3] = cells[4]
    BY <2>2 DEF s
  <2>5. h \in Seq(Octet)
    <3>1. cells[2] \in Octet /\ cells[3] \in Octet /\ cells[4] \in Octet
      BY <1>2, <2>1, ElementOfSeq
    <3> QED BY <3>1
  <2>6. Len(h) = 3 /\ h[1] = cells[2] /\ h[2] = cells[3] /\ h[3] = cells[4]
    OBVIOUS
  <2> HIDE DEF h
  <2>7. s = h
    <3>1. \A k \in 1 .. 3 : s[k] = h[k]
      BY <2>4, <2>6
    <3> QED BY <2>3, <2>5, <2>6, <3>1, SeqEqual
  <2> QED BY <2>7 DEF s
<1>5. CheckValid(cells, len) <=> Fcs(Header(info)) = Fcs(Covered(cells))
  <2>1. /\ (BodyIndex(cells) + DecodedLength(cells)) + 1 = n + 5
        /\ (BodyIndex(cells) + DecodedLength(cells)) + 2 = n + 6
        /\ len >= 1 /\ n + 6 <= len
    <3> HIDE DEF n
    <3> QED BY <1>1
  <2> HIDE DEF n
  <2> QED BY <1>1, <2>1 DEF CheckValid
<1> QED BY <1>3, <1>4, <1>5

(* A frame with the short length field and another type than UI arrives as *)
(* it was given to the builder, but for the bits of a DLCI above 63, in    *)
(* pieces of any size and whatever the receiver's memory held before.      *)
THEOREM ShortFramesRoundTrip == Spec => []ShortRoundTrip
<1>1. FrameInv => ShortRoundTrip
  <2> SUFFICES ASSUME FrameInv, wire = <<>>, ~damaged,
                      Len(info.body) <= 127, info.type # UI
               PROVE  ArrivesAs([info EXCEPT !.dlci = @ % 64])
    BY DEF ShortRoundTrip
  <2> DEFINE n == Len(info.body)
             a == AddressByte(info.ea, info.cr, info.dlci)
             c == ControlByte(info.type, info.pf)
  <2>1. /\ n \in Nat /\ n <= 127 /\ len = n + 6 /\ len <= Cells
        /\ cells[1] = Flag
        /\ ~Extended(cells) /\ DecodedLength(cells) = n /\ BodyIndex(cells) = 4
        /\ \A k \in 1 .. n : cells[k + 4] = info.body[k]
        /\ <<cells[2], cells[3], cells[4]>> = Header(info)
    BY ArrivedShort
  <2>2. info \in Infos /\ info \in Info
    BY InfosAssumption DEF FrameInv
  <2>3. cells[2] = a /\ cells[3] = c
    <3>1. Header(info)[1] = a /\ Header(info)[2] = c
      BY <2>2, HeaderBytes
    <3> QED BY <2>1, <3>1
  <2>4. /\ info.ea \in BOOLEAN /\ info.cr \in BOOLEAN /\ info.dlci \in Octet
        /\ info.type \in Types /\ info.pf \in BOOLEAN
        /\ info.body \in Seq(Octet)
    BY <2>2 DEF Info
  <2>5. DecodedType(cells[3]) = info.type /\ ((cells[3] \div 16) % 2 = 1 <=> info.pf)
    BY <2>3, <2>4, ControlDecodes
  <2>6. /\ (cells[2] % 2 = 1) <=> info.ea
        /\ ((cells[2] \div 2) % 2 = 1) <=> info.cr
        /\ cells[2] \div 4 = info.dlci % 64
    BY <2>3, <2>4, AddressDecodes
  <2>7. CheckValid(cells, len)
    BY <2>1, <2>5, ShortIsChecked
  <2>8. FrameLength(cells) = len
    <3> HIDE DEF n
    <3>1. (3 + 1 + n) % 2^16 = n + 4
      BY <2>1, SMTT(30)
    <3> QED BY <2>1, <3>1 DEF FrameLength
  <2>9. SubSeq(cells, 5, n + 4) = info.body
    <3> DEFINE s == SubSeq(cells, 5, n + 4)
    <3>1. cells \in Seq(Octet) /\ Len(cells) = Cells /\ Cells \in Nat
      BY CellsAssumption, IsASeq DEF FrameInv, TypeOK
    <3> HIDE DEF n
    <3>2. /\ 5 \in Nat \ {0} /\ n + 4 \in Nat /\ 5 <= (n + 4) + 1
          /\ n + 4 <= Len(cells) /\ (n + 4) - 5 + 1 = n /\ 5 - 1 = 4
      BY <2>1, <3>1
    <3>3. /\ s \in Seq(Octet) /\ Len(s) = (n + 4) - 5 + 1
          /\ \A k \in 1 .. (n + 4) - 5 + 1 : s[k] = cells[k + (5 - 1)]
      BY <3>1, <3>2, Slice
    <3> HIDE DEF s
    <3>4. Len(s) = n /\ \A k \in 1 .. n : s[k] = info.body[k]
      BY <2>1, <3>2, <3>3
    <3>5. s = info.body
      BY <2>4, <3>3, <3>4, SeqEqual DEF n
    <3> QED BY <3>5 DEF s
  <2>10. Parse(cells) = [info EXCEPT !.dlci = @ % 64]
    <3>1. info = [ea |-> info.ea, cr |-> info.cr, dlci |-> info.dlci,
                  type |-> info.type, pf |-> info.pf, body |-> info.body]
      BY <2>2 DEF Info
    <3>2. [info EXCEPT !.dlci = @ % 64] =
            [ea |-> info.ea, cr |-> info.cr, dlci |-> info.dlci % 64,
             type |-> info.type, pf |-> info.pf, body |-> info.body]
      BY <3>1
    <3>3. /\ (cells[2] % 2 = 1) = info.ea
          /\ ((cells[2] \div 2) % 2 = 1) = info.cr
          /\ ((cells[3] \div 16) % 2 = 1) = info.pf
      BY <2>4, <2>5, <2>6
    <3>4. SubSeq(cells, BodyIndex(cells) + 1, BodyIndex(cells) + DecodedLength(cells))
            = info.body
      <4>1. /\ BodyIndex(cells) + 1 = 5
            /\ BodyIndex(cells) + DecodedLength(cells) = n + 4
        <5> HIDE DEF n
        <5> QED BY <2>1
      <4> QED BY <2>9, <4>1
    <3> QED BY <2>5, <2>6, <3>2, <3>3, <3>4 DEF Parse
  <2> QED BY <2>7, <2>8, <2>10 DEF ArrivesAs
<1> QED BY <1>1, FrameInvariance, PTL

(* No frame sent is a UI frame. *)
NoUIInfos == \A i \in Infos : i.type # UI

(* A frame with the short length field whose address or control field was  *)
(* damaged is never taken for a frame, for any FCS that tells the damaged  *)
(* headers from the right ones; excepted are damages that make it UI.      *)
THEOREM DamageIsRejected ==
  ASSUME ShortInfos, NoUIInfos
  PROVE  Spec => []DamageRejected
<1>1. FrameInv /\ NeverEarly => DamageRejected
  <2> SUFFICES ASSUME FrameInv, NeverEarly, damaged,
                      DecodedType(cells[3]) # UI, CheckValid(cells, len)
               PROVE  FALSE
    BY DEF DamageRejected
  <2>1. wire = <<>>
    BY DEF NeverEarly
  <2>2. info \in Infos /\ Len(info.body) <= 127 /\ info.type # UI
    BY DEF FrameInv, ShortInfos, NoUIInfos
  <2>3. PICK k \in {1, 2}, b \in Damages :
          /\ Header(info)[k] # b
          /\ <<cells[2], cells[3], cells[4]>> = [Header(info) EXCEPT ![k] = b]
    BY <2>1, <2>2, ArrivedShort
  <2>4. Fcs([Header(info) EXCEPT ![k] = b]) # Fcs(Header(info))
    BY <2>2, <2>3, FcsAssumption DEF FcsTellsHeaders
  <2>5. Fcs(Header(info)) = Fcs(<<cells[2], cells[3], cells[4]>>)
    BY <2>1, <2>2, ShortIsChecked
  <2> QED BY <2>3, <2>4, <2>5
<1> QED BY <1>1, FrameInvariance, PartIsNeverValid, PTL
=============================================================================
